------------------------------ MODULE ProfilePush ------------------------------
(***************************************************************************)
(* The two producers of the live push together with what they talk about:   *)
(* the message hook, whose events are messages, and the watch of           *)
(* config.yaml, which posts a snapshot of the profile routes over HTTP and  *)
(* then enqueues a nudge, so that open tabs read the snapshot.              *)
(*                                                                         *)
(* A route table is named by the edit that wrote it, which stands for the    *)
(* mtime as well: two edits within one tick of the file system's clock are   *)
(* not told apart by the code, and left out.  Emptied are the edits that     *)
(* leave no route.  The hub keeps the latest snapshot that reaches it  *)
(* (external).  The hourly cron that also posts snapshots is not part of    *)
(* the repository and left out: what is shown holds without it.             *)
(***************************************************************************)
EXTENDS HubPush

CONSTANTS MaxEdits,  \* bound: the edits of config.yaml
          Emptied    \* the edits that leave no route

ASSUME ProfileAssumption ==
  /\ Producers = {"hook", "watch"}
  /\ MaxEdits \in Nat /\ MaxEdits <= MaxEvents /\ Emptied \subseteq 1 .. MaxEdits

VARIABLES edit,    \* the table in config.yaml, and its mtime
          seen,    \* the mtime the watch knows, Nothing before its first look
          first,   \* history: the edits made before its first look
          watch,   \* what the watch does
          routes,  \* the routes it has read for the snapshot, Nothing if unreadable
          posts,   \* the snapshots that are being posted
          table,   \* the hub's table
          spoilt   \* history: the hub may never hear of the present table

Nothing == -1
config == <<edit, seen, first, watch, routes, posts, table, spoilt>>
allVars == <<vars, config>>

PInit ==
  /\ Init
  /\ edit = 0 /\ seen = Nothing /\ first = Nothing
  /\ watch = [at |-> "polling", mtime |-> Nothing] /\ routes = 0
  /\ posts = {} /\ table = [routes |-> 0, profiles |-> 0]
  /\ spoilt = FALSE

(* A person, a command or the pull writes config.yaml.  History: the hub   *)
(* hears of it, unless the watch is not there yet, the table is empty, or   *)
(* a snapshot of an earlier table is still being posted.                    *)
Edit ==
  /\ edit < MaxEdits
  /\ edit' = edit + 1
  /\ spoilt' = (seen = Nothing \/ edit' \in Emptied)
  /\ UNCHANGED <<vars, seen, first, watch, routes, posts, table>>

(* The watch looks at the mtime, and knows it from then on.                *)
Look(pushes, mtime) ==
  /\ watch.at = "polling" /\ adding["watch"] = "nothing" /\ edit # seen
  /\ IF pushes THEN watch' = [at |-> "reading", mtime |-> mtime] /\ UNCHANGED seen
               ELSE seen' = edit /\ UNCHANGED watch
  /\ first' = IF first = Nothing THEN edit ELSE first
  /\ UNCHANGED <<vars, edit, routes, posts, table, spoilt>>

(* Mutants: the first look pushes as well; the time is taken after the push. *)
PollAtOnce == Look(TRUE, edit)
PollLate == Look(seen # Nothing, Nothing)

(* The first look only learns the time.                                    *)
Poll == Look(seen # Nothing, edit)

Read(found) ==
  /\ watch.at = "reading"
  /\ routes' = found
  /\ watch' = [watch EXCEPT !.at = "snapshot"]
  /\ UNCHANGED <<vars, edit, seen, first, posts, table, spoilt>>

(* Mutant: the routes are cached once and for all.                         *)
ReadOnce == Read(IF routes = 0 THEN edit ELSE routes)

(* push_profiles reads config.yaml for the routes and again for the         *)
(* profiles; a file that cannot be parsed is no routes, and cached.         *)
ReadRoutes == Read(edit)

Unreadable ==
  /\ watch.at = "reading"
  /\ routes' = Nothing /\ spoilt' = TRUE
  /\ watch' = [watch EXCEPT !.at = "snapshot"]
  /\ UNCHANGED <<vars, edit, seen, first, posts, table>>

(* The snapshot is posted by a thread of its own, or not at all if it is    *)
(* empty.  History: it may arrive before an earlier one.                    *)
Posting(profiles) ==
  /\ watch.at = "snapshot"
  /\ watch' = [watch EXCEPT !.at = "nudging"]
  /\ IF {routes, profiles} \subseteq Emptied \cup {Nothing}
     THEN UNCHANGED posts /\ spoilt' = (spoilt \/ profiles = Nothing)
     ELSE /\ posts' = posts \cup {[routes |-> routes, profiles |-> profiles]}
          /\ spoilt' = (spoilt \/ profiles = Nothing \/ posts # {})
  /\ UNCHANGED <<vars, edit, seen, first, routes, table>>

(* The second read may fail where the first did not: only if the file was   *)
(* written in between, or else the first one is cached.                     *)
Snapshot == Posting(edit) \/ (routes # edit /\ Posting(Nothing))

(* The nudge, and the next poll after it.                                  *)
Nudge ==
  /\ watch.at = "nudging"
  /\ Make("watch")
  /\ seen' = IF watch.mtime = Nothing THEN edit ELSE watch.mtime
  /\ watch' = [watch EXCEPT !.at = "polling"]
  /\ UNCHANGED <<edit, first, routes, posts, table, spoilt>>

Post(s) ==
  /\ posts' = posts \ {s} /\ table' = s
  /\ UNCHANGED <<vars, edit, seen, first, watch, routes, spoilt>>

(* "profiles push failed (ignored)".                                       *)
PostFails(s) ==
  /\ posts' = posts \ {s} /\ spoilt' = TRUE
  /\ UNCHANGED <<vars, edit, seen, first, watch, routes, table>>

Message == Make("hook") /\ UNCHANGED config

Watch == Poll \/ ReadRoutes \/ Unreadable \/ Snapshot \/ Nudge

PNext ==
  \/ Edit \/ Watch \/ Message
  \/ \E s \in posts : Post(s) \/ PostFails(s)
  \/ ((\E p \in Producers : Enqueue(p)) \/ Pump \/ World) /\ UNCHANGED config

(* Every thread runs, and a post ends.                                     *)
PFairness ==
  /\ WF_allVars(Watch)
  /\ WF_allVars(\E s \in posts : Post(s) \/ PostFails(s))
  /\ WF_allVars(Pump /\ UNCHANGED config)
  /\ \A p \in Producers : WF_allVars(Enqueue(p) /\ UNCHANGED config)

PSpec == PInit /\ [][PNext]_allVars /\ PFairness

-----------------------------------------------------------------------------
(* The types of the variables, those of the live push among them.          *)
Tables == 0 .. MaxEdits
Maybe == Tables \cup {Nothing}
PTypeOK ==
  /\ TypeOK
  /\ edit \in Tables /\ seen \in Maybe /\ first \in Maybe /\ routes \in Maybe
  /\ watch \in [at : {"polling", "reading", "snapshot", "nudging"}, mtime : Maybe]
  /\ posts \subseteq [routes : Maybe, profiles : Maybe]
  /\ table \in [routes : Maybe, profiles : Maybe]
  /\ spoilt \in BOOLEAN

(* "We must not push on startup": there is no nudge before the watch's      *)
(* first look, and then there are no more than the edits made after it that *)
(* the watch has noticed; the ones before it never count                    *)
(* (_config_watch_loop).                                                    *)
NoSpuriousNudge == made["watch"] <= (IF seen = Nothing THEN 0 ELSE seen - first)

(* What the watch takes for seen it has pushed: while it polls with the     *)
(* mtime of the file known and nothing being posted, it will not push again *)
(* until the next edit, so the hub has the routes of config.yaml, and its   *)
(* profiles, although each is read by itself and may be edited in between;  *)
(* with the exceptions of HubSeesEdits, whose safety part this is.          *)
SeenIsShown ==
  watch.at = "polling" /\ seen = edit /\ posts = {}
    => spoilt \/ (table.routes = edit /\ table.profiles = edit)

(* "Without this, a config.yaml edit sat invisible until the ~hourly cron": *)
(* the hub's table comes to be the one in config.yaml, whatever is edited   *)
(* while the watch reads, posts and nudges, unless the last edit was made   *)
(* before the watch's first look or left no route, or a snapshot of it was  *)
(* unreadable, lost or made while another was still being posted.           *)
HubSeesEdits ==
  <>[](spoilt \/ (table.routes = edit /\ table.profiles = edit))
=============================================================================
