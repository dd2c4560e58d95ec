# Formal model of the WhatsApp listener plugin

TLA+ specifications of the Hermes `whatsapp-listener` plugin, TLC configurations
that model-check them, and TLAPS proofs of theorems about them. Paths such as
`plugin.py:1784` are files of the repository (`src/`).

## The system

The plugin runs inside a Hermes gateway process. WhatsApp comes in through a
bridge process (`bridge.js`); a web application, the *hub*, shows and edits the
same contacts from outside.

| component | code | state | operations |
|---|---|---|---|
| config store | `config_routes.py`, `plugin._refresh_routes_cache` | `config.yaml` (routes per chat, admins, disabled skills), a lock per process, the reader's cache with the mtime it was filled under | `set_route_fields`, `remove_route`, `set_skills_disabled`, `set_admins`; cached read |
| dispatch hook | `plugin.on_pre_gateway_dispatch` | reads config.yaml again at every decision; `_KNOWN_PAUSED_CHATS`; sessions and rows in `state.db` | commands, reply gates, pause and its end, profile stamp, silent save |
| contacts sync | `hub_sync.py`, `plugin._hub_push_section_diff` | config.yaml on one side, the hub's contacts with one time stamp each on the other | delta post, full push, pull |
| relink watcher | `relink_watcher.py` | `gone_polls`, last reported status; the session directory, the bridge process | poll, report, relink (stop, check, clear, pair, launch, confirm) |
| live push | `hub_push.py` | a queue of 500 events, a WebSocket | enqueue, pump, reconnect, shut down |
| profile snapshots | `hub_push._config_watch_loop`, `hub_sync.push_profiles` | the mtime the watch knows, a cache of the routes | poll, snapshot, nudge |
| handoff | `handoff.py`, the adapter patches of `plugin.py` | tickets in the client API, the admin card's message id | read the session, escalate, ticket, card, link; alert |
| post-mortem scan | `error_scan.py`, `hub_sync.push_errors` | a watermark file | scan the journal, de-duplicate, report, mark |
| migration | `migrate_state_to_config.py` | `state.yaml` | one run |
| registration | `__init__.py` | none | hooks, threads, scan |

How they interact: the hook and the pull (a cron process) both *write*
config.yaml through `config_routes`, and the hook, `hub_sync` and `hub_push`
*read* it, each with an mtime-gated cache of its own. The hook's commands post
deltas to the hub from threads of their own; the watcher posts statuses the same
way. The hook runs synchronously on the gateway's thread; the watcher, the push
thread and the config watch are daemon threads; the pull and hand edits are other
processes.

What is hard here: config.yaml has several writers in several processes and is
re-read in the middle of every decision; everything sent to the hub may be lost
or overtaken; a snapshot of the hub is applied over edits made since; the bridge
fails in ways that look alike; every exception is swallowed, so a step that
failed must leave a state the next ones cope with. `PROJECT.json` lists these
hazards line by line with the properties that cover them.

## Modules

| module | models | correspondence |
|---|---|---|
| `ConfigDoc` | the content of config.yaml and the writers as functions on it | `SetRouteFields`, `RemoveRoute`, `SetSkillsDisabled`, `SetAdmins` by the names of the code; a document has the routed chats, an entry per chat, the admins, the skills. Values are strings of a small set; "unset" is a missing field, "None" an argument that is not passed |
| `AtomicConfig` | what the writers promise: each call changes the document in one step | abstract specification |
| `ConfigStore` | threads of several processes that lock, load, change, dump and rename; readers that stat, compare and parse | `Load` is `_WRITE_LOCK` with `_load_raw`; then `Keep` (nothing to write), `Raise`, or `Dump` and `Replace` (`_dump_atomic`); `Crash` kills a process. `Stat`, `Parse` and `ParseFails` are `_refresh_routes_cache` |
| `ConfigDoc_proofs`, `ConfigStore_proofs` | theorems about the writers' functions and about `ConfigStore` | see *Proofs* |
| `Dispatch` | one message in the hook | one action is the code between two reads of config.yaml, in the order of the code: `Arrive`, `Identify`, `Authorize`, the commands, `ReadWhitelist`, `Gate`, `Pause` (with `Resume`), `Resolve`, `Stamp`, or `BuildKey`, `ScopedDb`, `Append`. each read is of the file or, if it failed, of the empty document, with the routes cache between them (`Cached`, `CachedOrNot`, `AllowlistFails`). `Edit` and `Touch` are another process changing config.yaml, `Restart` the gateway |
| `Dispatch_proofs` | theorems about `Dispatch` | see *Proofs* |
| `HubSync` | edits in the chat, in the hub and by hand, deltas, the name backfill, full pushes, pulls | `ChatEdit` and `EditDelta` are the commands and `_hub_push_section_diff`; `Lose` is `_post_deltas` failing; `PullGet`, `PullContact`, `PullSkips`, `PullAdmins`, `AdminsSkipped` are `pull_and_apply`, statement by statement. The clock is in the seconds of `int(time.time())` and need not move between two edits. A profile is a flag of its own kind: the default or not, set by a pull and never unset |
| `HubSync_proofs` | theorems about `HubSync` | see *Proofs* |
| `HubPush` | producers, the bounded queue, the pump and its socket | `Put`, `Evict`, `Retry` are the three calls of `_enqueue`, which are not one step; `Dial` to `Leave` are `_run` and `_pump`; `Break`, `HubBack` and `Shutdown` are the world |
| `EventFeed` | what the live push promises while nothing breaks and there is room: what is made arrives once, each producer's events in their order | abstract specification, which `HubPush` implements with its queue, hand and unfinished enqueues as the events that wait |
| `ProfilePush` | `HubPush` composed with what its events are about | its producers are the message hook (`Message`) and the watch: `Poll`, `ReadRoutes`, `Snapshot`, `Nudge` are `_config_watch_loop` and `push_profiles`, which reads the file twice, either of which may fail, and posts from a thread of its own (`Post`, `PostFails`) |
| `Handoff` | one turn of the agent after another, up to what the customer gets | `Context` (`NoContext`, `NoMessage`), `LetThrough`, `PostTicket`, `PostCard`, `Link` are `transform_llm_output` in its order, `HookRaises` its outer `except`, from every point of it; `Sent`, `SendRaises` and `AgentRaises` are the two guards `plugin.py` puts around the adapter |
| `ErrorScan` | the starts of the gateway, its deaths, and the scan | `Start` to `Marked` and `MarkFails` are `scan_and_report`; `From`, `Dedupe` and `Row` are its pure parts, `Batched` the cap of `push_errors`, `TooOld` what the first-run lookback leaves out; `Die` and `Surface` are systemd and the journal |
| `AgentTurns` | both: a kill drops the turn | `Drop` joins `Die` and `Forget`; `Turn` needs a gateway whose scan is over, as `register` makes it |
| `HubPush_proofs` | theorems about `HubPush` and `ProfilePush` | see *Proofs* |
| `ErrorScan_proofs`, `AgentTurns_proofs` | lemmas about the steps of the scan; theorems about `AgentTurns` | see *Proofs* |
| `RelinkWatcher` | the watch loop and a relink against the bridge, WhatsApp and the hub | `PollHealth` and `Judge` are an iteration of `_watch_loop`; `StopBridge` to `Confirm` are `_run_relink`, in which the look into the session directory (`ClearSession`) and its move (`MoveSession`) are two steps; the rest is the world |
| `RelinkWatcher_proofs` | theorems about `RelinkWatcher` | see *Proofs* |
| `MCConfigStore`, `MCDispatch` | constants for TLC | the other modules need none |

`Dispatch` and `HubSync` take a write of config.yaml as atomic. `ConfigStore` is the
reason why they may: within one process writers are atomic, and the cached reads of
the listener notice every write. They need not succeed: a file that cannot be opened
or parsed is taken for an empty one, and the cache keeps that until the next write
(`plugin.py:131`). `Dispatch` has these failed reads at each of its decisions; the
reads of a profile, which parse the file once more for the multiplex flag
(`plugin.py:199`), fail by themselves. Across processes writers are not atomic (run
`StoreTwoProcesses`), and what that costs stays in `ConfigStore`.

A definition whose comment says *Mutant* is a variant of the one after it with a
plausible bug in it; `PROJECT.json` says which property the variant violates. It is
not part of the model.

## Runs

Passing runs:

| run | what it shows | bounds |
|---|---|---|
| `StoreOneProcess` | two writers of one process, a reader, crashes, failed writes: the lock is always given back, the file implements `AtomicConfig`, and the reader's mtime gate hides nothing from it | 2 threads, 4 different calls, clock up to 2: a rename between another thread's load and rename takes two dumps |
| `DispatchHook` | what reaches the agent was allowed, nothing allowed is kept back, pauses are silent and end clean, group members see no sign of commands, only admins edit; a command lists and unlists its own target only, unless somebody else changed the list under it; with a config.yaml that nobody touches, the reads of a dispatch come to the one decision the document calls for, and those that fail let nothing past the whitelist, the mention rule and the pause. Any read may fail; what each failure costs is named in the properties | a group, a peer with two forms of id, the root admin; one edit by others during each dispatch (unboundedly many between), since each property is about one change between two reads |
| `DispatchProfiles` | the profile that answers and the row that is saved are those of the route, under either form of id and whatever the gateway booted with, unless a read of the profile failed | same, three profiles |
| `HubSyncLossy` | both sides agree in the end; on the latest edits unless a post was lost or crossed, two edits bore the same second and crossed or met at the hub, or the hub came to know the contact by another post; until then the latest edit is at the hub, or under way and not undone by what else is | 1 contact, 2 flags and a profile, 2 edits of any kind, 2 full pushes, 1 name backfill: contacts share nothing but the pull, which takes them one by one, and two edits are enough to cross. Checked once, with no other outcome: 3 edits (2.6 million states), 2 contacts |
| `RelinkFaults` | credentials survive, even ones paired during a relink, but for those paired between the last look and the move; a valid pairing comes back, a bare session is offered a code, the hub learns of the connection | grace of 2 polls instead of 10 (the loop only counts), 2 faults of any kind, unboundedly many lost posts and relinks |
| `HubPush` | what is enqueued arrives, is on its way, or went into a dead socket, unless the queue was too small; duplicates and changes of order come from a send that raised only; the push is the feed of `EventFeed`; no nudge is for an edit made before the watch's first look; the queue drains; the hub's route table follows config.yaml | a queue of 2, 2 producers with 2 events each, 1 break, 2 edits, the first of which leaves no route: two producers at a full queue are what it takes to fill the gap of an eviction |
| `AgentTurns` | every turn ends in the chat, in an alert (which nobody hears of if it cannot be sent), or in the report of the death that dropped it, or a scan passed over that death; no uncertain answer and no empty promise unless a call failed or the hook raised; no death is missed but those a scan passed over, by a failure, by the cap of its report or by the lookback; none is reported twice; the death that dropped a turn is told, within reach of the next scan, or older than the lookback with no watermark | a bucket of 2 ticks, an overlap of 3 and lines 1 late stand for 10 s, 60 s and a journal that is late by less; a lookback of 1 tick for the 6 h, which is over within the 5 ticks of a run, and a batch of 1 row for the 100, so that both of them cut; 2 deaths, 4 starts, 1 failure of the scan, 1 turn in a life of the gateway, which begins before the first death: two deaths make one bucket, a burst that is cut, and a scan that is killed |

Runs that end in a violation show where code and documentation part:

| run | the documentation says | the code does |
|---|---|---|
| `StoreTwoProcesses` | "an in-chat edit can't clobber a hub-UI edit" (`hub_sync.py:17`) | the lock is per process; the later rename drops the other edit |
| `DispatchResearch` | an unrestricted profile "must never run in a GROUP" (`plugin.py:1769`) | `/keyword-research` leaves the hook before that check |
| `HubSyncAdmin` | pushes follow every local write (`hub_sync.py:7`) | `/admin` posts nothing; the next pull undoes it |
| `ScanBuckets` | "Collapse events describing ONE death into a single row" (`error_scan.py:126`) | the buckets are fixed, so a burst across a boundary is two rows |
| `RelinkLogout` | a log-out clears the session and offers a code (`relink_watcher.py:13`) | a rejected `creds.json` is taken for a good one and the bridge restarted for ever |

`RelinkLogout` assumes, of the external bridge, that it exits on a log-out and
leaves `creds.json` where it is.

More divergences were found and have no run of their own. A group moved between
the safety check and the stamp is served by a profile nobody checked
(`plugin.py:1784`; `GroupSafeWhenStable` is the part that holds). A chat moved back
to the default profile keeps its old one until a restart (`plugin.py:1762` says
otherwise). A failed read of config.yaml is cached as an empty one, and locks out
even the root admin, until the file changes (`plugin.py:131`, against
`README.md:18`). It also answers a chat that is paused, if the whitelist was read
before it and the pause after it, with a write in between; and an `/admin` that comes
after it writes back a list without the admins it missed (`plugin.py:1516`). A failed read of the multiplex
flag fails open at the safety check of a group (`plugin.py:199`, against the "hard
rule" at 1769), leaves a message unstamped, or files it under the default profile. A silent save may file one message under two profiles, and a row
the database refused is reported as saved (`plugin.py:1842`, `1874`). `/pause` is
unreachable, since no chat is an admin group any more (`plugin.py:742`, against
`README.md:16`). A login link is sent in any chat (`plugin.py:951` says otherwise).
`/admin` reads the list outside the writer's lock (`plugin.py:1516`). A pause under
one form of a peer's id is not seen under the other (`plugin.py:765`, against
`plugin.py:1713`). An edit whose delta is lost is undone by the next pull
(`hub_sync.py:241`): nothing is queued, against `README.md:93`.

In the sync: a contact that was set up by hand loses its flags as soon as the hub
hears of it by its name or by another flag (`plugin.py:477`, `hub_sync.py:484`); a chat
moved back to the default profile by hand is moved away again by the next pull
(`hub_sync.py:488`, against "We READ it — never write it", `hub_sync.py:64`).

Two edits of a contact in one second bear the same stamp (`plugin.py:414`,
`hub_sync.py:251`), so the later one wins only if it comes later and the hub takes it.

In the relink: credentials that come up between the look into the session directory and
its move (`relink_watcher.py:164`, `172`) are moved away, against "NEVER clear a session
that still holds credentials".

In the live push: "newest events matter most" (`hub_push.py:75`) fails when two
producers meet at a full queue, where the newest is the one that goes; the nudge can
overtake the snapshot it announces (`hub_push.py:133`); a config.yaml without routes is
never posted, so the hub keeps the old ones (`hub_sync.py:598`); the first look of the
watch learns the mtime only, so edits made while the gateway was down wait for the
cron; `import hub_push` in `hub_sync.py:310` loads the module a second time, so the
status events it enqueues are in a queue nobody pumps (unless both names are one
module in the host); routes and profiles of one snapshot may come from two versions of the
file, or one of them from a read that failed, until the next push (`hub_sync.py:592`).

In the handoff: the quote-reply that should resolve a ticket is called in a branch no
message reaches (`plugin.py:1015`); the knowledge base's score decides nothing, because
it is asked only when the ticket is certain (`handoff.py:263`, against the docstring at
17); the hook reads the session's latest message and not the one that was answered
(`handoff.py:116`); whatever raises after the ticket was made, sends the answer as well
(`handoff.py:316`, against "the low-confidence answer never auto-sends").

In the scan: an overlap that cuts a burst gives a second row, against "Stable ids make
the overlap harmless" (`error_scan.py:162`); two deaths within a bucket give one; the
watermark advances over reports that were lost (`error_scan.py:189`) and over the rows
beyond the first hundred (`hub_sync.py:385`); without a watermark, the first one or one that
cannot be read, what is older than six hours is not looked for (`error_scan.py:40`).

In the migration, which is not modelled: a chat that is both whitelisted and paused
gets `reply` before `paused` (`migrate_state_to_config.py:69`, `81`), so a running gateway
answers it in between; and a second run after a crash puts back everything
`state.yaml` said, over edits made since.

## Fairness

Safety runs assume none. `StoreOneProcess` assumes weak fairness of each writer's
next step: a thread inside a writer is scheduled again; calls themselves are not
fair. `HubSyncLossy` and `HubSyncAdmin`: a post thread ends (the request has a
time-out), the cron that pulls keeps firing, and not every write of a pull fails
for ever (strong fairness of `PullContact` and `PullAdmins`); nobody has to edit,
write or push. `HubPush`: the producers, the pump and the watch are threads that run, and
a post ends; the hub need not come back, `Drains` speaks of one that does.
`AgentTurns`: systemd starts the gateway again and a scan takes its steps (every call in
it has a time-out), and a turn goes on in a gateway that runs. `RelinkFaults`: the watch loop goes on whatever happens (its `try` is
inside the loop), the watchdog ends pair-only, pair-only shows a code sooner or
later if it is started again and again, a bridge that starts comes up or exits,
and a status posted over and over gets through once (strong fairness of
`Deliver`). Faults are bounded, so that liveness speaks of the time after them.
No person has to scan, pair, delete or stop anything.

## Proofs

`ConfigStore_proofs`, checked by TLAPS for any chats, values, threads, readers,
processes and calls. The assumptions are those named in `ConfigDoc` and
`ConfigStore`.

- `TypeCorrect`: `Spec => []TypeOK`. Rests on `ApplyType`: each writer makes a
  document of a document.
- `LockSafe`: `Spec => []LockHeld`, which is inductive with `TypeOK`: a step leaves
  "idle" only with a free lock, so no second thread of the process is inside.
- `CacheNeverStale`: with `DistinctStamps`, `Spec => []NeverStale`, for any number of
  processes, crashes and reorderings. `NeverStale` alone is not inductive: a rename
  could bring back an mtime some reader knows. The strengthening, `FreshStamps`,
  says that the stamp of a temporary file that waits for its rename is at most the
  clock and is known to nobody else: not to the file, to a reader, or to another
  temporary file.
- `UndisturbedIsAtomic`: `Spec /\ [][Undisturbed]_vars => AtomicSpec`, for any number of
  processes. A step is `Undisturbed` if it is no rename while a thread of *another* process
  is between its load and its rename: what `StoreTwoProcesses` shows to go wrong is all that
  can. The strengthening, `BaseCurrent`, says that the document a writer loaded is still the
  one in the file: whoever of its own process could rename in between would hold the lock
  (`LockHeld`). Then `Replace` maps to the abstract `Commit` and every other step to a stutter.
- `OneProcessAtomic`: with one process, `Spec => AtomicSpec`, a corollary: there is no other
  process to disturb.

`AtomicSpec` for several processes without that condition is false (`StoreTwoProcesses`), and
`NeverStale` needs `DistinctStamps`: two dumps in one tick of the clock share an mtime.

`ConfigDoc_proofs`, for any document:

- `WritersCommute`: two calls for different chats, or for different sections of the file, give
  the same document in either order (`Apart`): the whole file is loaded and dumped, but what
  goes wrong between atomic writers is only ever about one chat or one section.
- `RepeatsChangeNothing`: a call that is made again on its own result changes nothing, which is
  why a pull that applies the same snapshot again writes nothing.

`RelinkWatcher_proofs`, for any grace period and number of faults:

- `TypeCorrect`: `Spec => []TypeOK`, in two invariants, what is counted and the rest.
- `WatcherKeepsCreds`: `Spec => CredsKept`. The move takes whatever the directory then
  holds; the invariant `MovesBareOrLate` says that this is nothing, or a pairing that was made
  since the last look (`late`). Every other step leaves a valid session valid, or makes it
  stale first.
- `SlowIsSafe`: `Spec => []SlowNotStopped`. Inductive as it stands, with `TypeOK`:
  from the judgement to the signal, a bridge that is known and gone stays gone,
  because nobody but the watcher starts one.
- `PairingIsBare`: `Spec => []PairsOnlyBare`. Strengthened by `BareOrPaired`, which
  says the same of every step from the check of creds.json on.

`Dispatch_proofs`, for any chats, aliases, messages, profiles and edits. Beyond the
types of its constants, `DispatchAssumption` says that a direct message's chat has
one user, that the target of `/admin` is a contact, and that a group has no second
form of its id. Each theorem but the first states a property of the runs `DispatchHook`
and `DispatchProfiles`; none of these is inductive, since what the hook found is kept in
`loc` while config.yaml moves on.

- `TypeCorrect`, from `ApplyType` and the types of `loc`, `out` and the session keys.
- `RepliesWhereAllowed`, `HearsItsOwn`, `PausesHold`. The invariant is `Sound`: the
  present document is in `seen` (`SeenNow`), and so is the empty one if a read failed; each
  step is reached by the messages it is for (`Course`), and everything `loc` says has a
  document in `seen` that says it (`Evidence`). The findings may come from different documents, and so do the
  properties speak: the whitelist of one moment and the admins of another.
- `AdminsStay`: what `/admin` writes back differs from the file in its target only, but for the
  admins that others listed or unlisted since it read, or that its read missed. `ListRead` says
  that the list in hand is that of a document of this dispatch, or of a failed read.
- `DecidesAsConfigured`. `Kinds` says which branch a message is in, and `Findings(d)` what that
  branch has found, in terms of the one document `d`, as long as `seen` holds no other. With
  failed reads `seen` holds the empty document as well; `Held` says what they leave standing
  while the file is not written: somebody was found whitelisted in the file only, so from then
  on the cache holds the file, and the pause is read from it.
- `AdminsEdit` from `Sound`; `StaysStealthy` from `Unnoticed`, which follows a message of
  somebody who was no admin in any document up to the step where he is dropped.
- `NeverIgnores` from `LetIn`: a message that all documents of its dispatch let in is
  never sent to the branch that keeps silent.
- `StampsTheRoute`, `GroupsAreSafe`, `RowsMatch` from `Routing`: the profile checked, the
  one stamped, the key, the tag and the database are each that of some document seen. A read
  that failed is one of them, so the statements name it: `RoutedProfile` asks that all that
  was read has a route, `StableRoute` that a chat with a route was not taken for one without.
- `PausesEndClean`. `MutedKnown` says that a session that holds messages of a pause has its
  chat among the known pauses, unless it is in `lost`; `PauseCourse` carries it from the
  pause check to the end of the dispatch. One user per direct chat is needed: the reset
  is that of the sender's session.

`HubSync_proofs`, for any contacts, fields and numbers of edits, pushes and pulls:

- `TypeCorrect`. The bound of the clock is what takes an invariant: it ticks only for an edit, a
  push or a first message, so it is at most their sum, and no delta and no time stamp is ahead of it.
- `LatestEditsSurvive`: `Spec => []LatestSurvives`, the safety part of `LastWriteWins`: the hub
  holds the latest edit, or will once the deltas under way have come, in whatever order.
  Edits need not have a second of their own.
  `LatestSurvives` speaks of one flag, but a delta carries several: the invariant `Latest` adds
  that a later delta of a contact speaks for every flag that an earlier one speaks for
  (`Nested`; of the same second there is but one, or the contact is `spoiled`), so that none can
  bring back what was changed after it, and that a contact the hub
  has not heard of is as his latest edits left him (`Unheard`). The history variable
  `spoiled` collects the exceptions that `LastWriteWins` names.

`HubPush_proofs`, for any capacity, number of events, breaks and edits (`PushAssumption`,
`ProfileAssumption`). The theorems about the queue are proved for any producers and carried to
`ProfilePush`, each step of which is one of `HubPush` or a stutter.

- `PushTypes`: `PSpec => []PTypeOK`.
- `BlipsDropNothing`. `BlipInv`: as long as there never were more events on their way than
  the queue holds, no producer is past its first put, so nobody evicts.
- `NothingTwice`. `OnceInv`: an event has one place in queue and hand, what is being added is
  in none, and only an event whose send raised after it had arrived is in both the queue and
  the hub.
- `ArriveInOrder`. `OrderInv` orders what arrived, the hand and the queue among each other, but
  for the events that were put back.
- `NudgesAreEdits`: after its first look the watch has sent no more nudges than there were edits
  since that look, before it none. `NudgeInv`: a nudge on its way is for an mtime newer than the
  one the watch knew, and that one is at least the one of the first look.
- `SeenEditsAreShown`: `PSpec => []SeenIsShown`, the safety part of `HubSeesEdits`. `ShownInv`: a
  push that is for the present mtime has read the present routes, and from its snapshot on the
  present table is being posted, alone, or shown. `NudgeInv` is what makes a push for an
  earlier mtime look again.
- `PushIsAFeed`: `PSpec => FeedSpec`, step by step. `OrderInv` and `BlipInv` say that what waits
  is sent oldest first and that nobody evicts; `LinkInv`, that a socket is bad only after a
  break, so that a send of a calm push arrives. Once it is not calm, the abstract specification
  promises nothing more.

`ErrorScan_proofs` and `AgentTurns_proofs`, for any bucket, overlap, lateness, burst, number of
deaths, starts and failures (`ScanAssumption`: late lines and a bucket fit into the overlap), and
for any lookback and cap of a report: nothing is assumed of how long the gateway may be down.
Every step of `AgentTurns` is a step of the scan or leaves it alone (`StepsScan`).

- `TurnTypes`: types, and what the clock says of the lines: a hidden one is not yet too late.
- `NothingIsMissed`. What a scan passes over is in `unheard`, by one of four ways: the journal
  or the report failed, the row was beyond the cap, or the scan had no watermark and its lookback
  ended before the line (`TooOld`, with all that shares a bucket with such a line). `Behind` speaks
  of the whole bucket of a line behind the watermark, because the representative of a bucket
  that is cut may lie outside of the window and is then not reported; `ReadAll` says what the scan
  under way has read or may leave out.
- `DropsAreHeard`, the safety part of `Accounted`, from `NothingIsMissed` and `Traced`: every
  death left a line in the journal, which is told, in the window of the next scan, or, with no
  watermark, older than the lookback (`Forgotten`).
- `OomsNamed`, `RescansAddNothing`. `WholeReads`: a bucket that no scan saw only a part of was
  read whole and lies in the window whole; `HasRow`: such a bucket without a new line has the
  row of its representative. That a non-empty bucket has one is `FirstIsOne`, by the least element
  of a set of naturals.
- `AnswersHeldBack`, `PromisesKept`. `Progress` says what each stage of a turn has, `ReplyFits` that
  the reply about to be sent is already the one the property asks for, unless the hook raised, `OwnMessage` that the
  session's latest message is the one answered unless another has come in.

Only model-checked: all liveness (`LockReleased`, `Agreement`, `LastWriteWins`, `Recovers`,
`NeedsPairing`, `HubLearns`, `Drains`, `HubSeesEdits`, `Accounted`), which is out of the
prover's reach; `LatestSurvives`, `SeenIsShown` and `DropsHeard`, which are theorems, are the
safety parts of `LastWriteWins`, `HubSeesEdits` and `Accounted`: what has to be there until the
liveness argument takes its last step. Every invariant and every action property that a passing
run checks is a theorem, but `AtomicSpec` and `NeverStale` only under the conditions above.
Type correctness (`TypeOK` of each module) and the exclusive lock (`LockHeld`) are theorems
that no run repeats, but for `PTypeOK`, which bounds the queue.

## What is abstracted and left out

- YAML formatting, comments, the order of entries, wording of answers, logs.
- The mention detection is a given (`mention` of a message); media and transcription
  are left out. The two patches of the adapter are in `Handoff`.
- `profile_fs_allowlist` and the vouched groups do not change during a run. Pause
  reasons and display names are data.
- The profile a pull may move is a flag of `HubSync`; to `Dispatch` it is an `Edit`.
- The `profiles` list of a group's delta (`hub_sync.py:265`), the bulk push of sections, and
  `push_flag`, `push_state_section`, `push_error`, which nothing in the repository calls.
- `stat` of config.yaml does not fail: every writer replaces the file by a rename. The legacy
  `state.yaml`, which names the root admin until the migration if config.yaml does not
  (`plugin.py:524`), is gone.
- Two edits of config.yaml within one tick of the file system's clock share an mtime, and the
  watch of `ProfilePush`, which compares nothing else, does not see the second; there an edit
  stands for its mtime. `ConfigStore` has the shared stamps.
- A send of the adapter fails by raising. One that returns a failed result (`new_send` hands it on)
  is a matter of the host.
- The root admin of the environment is no chat of `HubSync`: a pull leaves him out of
  the extra admins it writes, and no edit adds him.
- The platform of an entry in config.yaml: there is one entry per chat.
- PIDs: the pidfile names the bridge, or a process that is dead. The two bridges a
  second launch might start are one: the port admits one.
- The back-off of `hub_push` and its wire format; its time-outs are failures that may happen
  at any time.
- The bridge, WhatsApp, the hub, the client API, `state.db`, the gateway's sessions, systemd
  and the journal are external and modelled from how the code uses them.

### Not modelled

- The admin-group intercept (`plugin.py:1008-1395`) and with it the quote-reply that resolves a
  ticket (`handoff.try_resolve_from_quote`): no message reaches it, since
  `load_set_from_file` returns no admin group.
- The migration of `state.yaml`: a one-time sequence of `config_routes` calls, each of which
  `ConfigStore` models; what it does to a running gateway is described above.
- The hourly cron that posts profile snapshots, which is not in the repository.

## Plan

The components listed above as modelled are done, with the theorems of *Proofs*. What is left:

1. `Dispatch` over `ConfigStore`'s cached readers, so that the argument by which it takes
   config.yaml as atomic becomes a refinement.
2. The migration as a sequence of `ConfigStore` calls with a crash and a second run, against
   edits made meanwhile: 2 chats, each in one or two sections of `state.yaml`.
3. The platform of an entry in `ConfigDoc`, as the two readers and the writer see it.
4. `HubSync` with an abstract specification, a register per contact that converges, of which
   `LatestSurvives` is the safety part.
5. The safety parts of `Recovers`, `NeedsPairing` and `HubLearns`.
