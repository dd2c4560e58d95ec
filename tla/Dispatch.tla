------------------------------ MODULE Dispatch ------------------------------
(***************************************************************************)
(* plugin.on_pre_gateway_dispatch: what the listener does with one WhatsApp *)
(* message.  It answers it as a command, hands it to the agent (the         *)
(* gateway then runs the profile stamped on it), or saves it silently.      *)
(*                                                                         *)
(* The hook is synchronous, so one message is handled at a time; but every  *)
(* decision in it re-reads config.yaml, and the hub pull or a person with   *)
(* an editor may change the file between any two of them.  One action here  *)
(* is the code between two such reads, d the document it read.              *)
(*                                                                         *)
(* A read may fail, and the hook does not notice: d is then the empty       *)
(* document.  What the routes cache was filled with, the document or        *)
(* nothing, it keeps until the mtime of the file changes (that it notices   *)
(* the change is what ConfigStore shows).  stat of the file does not fail:  *)
(* every writer replaces it by a rename.                                    *)
(*                                                                         *)
(* It also remembers the chats it saw paused, and resets the session of a   *)
(* chat when its pause has ended.  Of a session we keep whether it holds    *)
(* messages that were saved while its chat was paused.                      *)
(*                                                                         *)
(* The admin-group intercept of the hook is left out: load_set_from_file    *)
(* returns no admin group, so no message reaches it.                        *)
(***************************************************************************)
EXTENDS ConfigDoc, FiniteSets

CONSTANTS Groups,         \* the chats that are groups
          Phone,          \* the phone form of each id (itself if it has none)
          Lid,            \* the LID form of each id (itself if it has none)
          Messages,       \* the messages that may arrive
          Edits,          \* the calls other processes make on config.yaml
          InitDoc,        \* config.yaml when the gateway boots
          Multiplex,      \* gateway.multiplex_profiles
          SafeProfiles,   \* the keys of profile_fs_allowlist
          VouchedGroups,  \* the groups whose entry has group_safe: true
          ProfileDirs,    \* the profiles that have a directory
          PerUser,        \* group_sessions_per_user
          MaxEdits        \* bound: the edits of others during one dispatch

(* A message: where, who, which command ("text" if it is none) with its     *)
(* verb ("usage" if it is incomplete) and its target, and who is mentioned. *)
MessageType ==
  [chat : Chats, user : Jids,
   cmd : {"text", "login", "wajid", "whitelist", "no-mention", "admin",
          "keyword-research", "pause"},
   act : {"add", "remove", "usage", "run"}, target : Chats,
   mention : {"none", "bot", "other", "both"}]

ASSUME DispatchAssumption ==
  /\ Groups \subseteq Chats
  /\ Jids \subseteq Chats
  /\ Messages \subseteq MessageType /\ Messages # {}
  /\ \A m \in Messages : m.cmd = "admin" => m.target \in Jids
  /\ \A m, n \in Messages : m.chat = n.chat /\ m.chat \notin Groups => m.user = n.user
  /\ \A c \in Chats : Phone[c] \in Chats /\ Lid[c] \in Chats
  /\ \A c \in Groups : Phone[c] = c /\ Lid[c] = c
  /\ Edits \subseteq Calls
  /\ InitDoc \in Docs
  /\ {Multiplex, PerUser} \subseteq BOOLEAN
  /\ MaxEdits \in Nat

VARIABLES cfg,    \* the document in config.yaml
          cache,  \* the routes cache: "due" for the present mtime, "good" or "failed"
          boot,   \* the profile routes the gateway read when it booted
          known,  \* _KNOWN_PAUSED_CHATS
          muted,  \* the sessions with messages saved during a pause
          pc,     \* the step of the hook, "idle" between messages
          msg,    \* the message it handles
          loc,    \* its local variables
          out,    \* what it did
          seen,   \* history: the documents config.yaml held since the message arrived,
                  \* and the empty document if a read failed
          still,  \* history: config.yaml was not written since the message arrived
          lost    \* history: the chats whose pause a restart, a failed reset or a
                  \* failed read forgot

vars == <<cfg, cache, boot, known, muted, pc, msg, loc, out, seen, still, lost>>

-----------------------------------------------------------------------------
(* Reads of a document                                                     *)

IsGroup(c) == c \in Groups

(* chat_id and its alias, most specific first.                             *)
Candidates(c) == <<c, Phone[c], Lid[c]>>

Having(d, c, f) == {i \in 1 .. 3 : FieldOf(d, Candidates(c)[i], f) # "unset"}

First(S) == CHOOSE i \in S : \A j \in S : i <= j

ProfileFor(d, c) ==
  IF Having(d, c, "profile") = {} THEN "default"
  ELSE FieldOf(d, Candidates(c)[First(Having(d, c, "profile"))], "profile")

(* The chats with reply: true, with no_mention: true, with paused: true.   *)
ChatsWith(d, f) == {c \in d.routed : FieldOf(d, c, f) = "true"}

Admins(d) == d.extra \cup ({d.root} \ {NoRoot})

UserIds(u) == {u, Phone[u]}

IsAdmin(d, u) == UserIds(u) \cap Admins(d) # {}

AllowedInGroup(p, c) ==
  p = "default" \/ p \in SafeProfiles \/ c \in VouchedGroups

(* What the gateway booted with: raw matches only.                         *)
BootRoutes(d) ==
  [c \in Chats |-> IF FieldOf(d, c, "profile") = "unset" THEN "default"
                   ELSE FieldOf(d, c, "profile")]

(* build_session_key: a DM has one session, a group one per user or one.   *)
SessionKey(p, c, u) == <<p, c, IF IsGroup(c) /\ ~PerUser THEN "all" ELSE u>>

-----------------------------------------------------------------------------
NoLocals == [white |-> FALSE, explicit |-> FALSE, admin |-> FALSE, reply |-> FALSE,
             paused |-> FALSE, extra |-> {}, key |-> "default", db |-> "default"]

NoOutcome == [verdict |-> "none", sent |-> FALSE, profile |-> "default",
              key |-> "default", db |-> "default", tag |-> "default", stored |-> FALSE]

Init ==
  /\ cfg = InitDoc /\ cache = "due"
  /\ boot = BootRoutes(InitDoc)
  /\ pc = "idle"
  /\ msg \in Messages
  /\ loc = NoLocals
  /\ out = NoOutcome
  /\ seen = {} /\ still = TRUE
  /\ known = {} /\ muted = {} /\ lost = {}

pauses == <<known, muted, lost>>

(* Mutant: every read parses the file again.                               *)
ParsedAgain(d) ==
  \/ d = cfg /\ cache' = "good"
  \/ d = EmptyDoc /\ cache' = "failed"

(* A read over the routes cache; a failure is cached as no routes and no    *)
(* admins.                                                                 *)
Cached(d) ==
  \/ d = cfg /\ cache # "failed" /\ cache' = "good"
  \/ d = EmptyDoc /\ cache # "good" /\ cache' = "failed"

Sees(D) == seen' = seen \cup D

(* A read of the profile parses config.yaml once more, for the multiplex    *)
(* flag: if that fails there are no profiles.                              *)
CachedOrNot(d) == Cached(d) \/ (d = EmptyDoc /\ UNCHANGED cache)

Unread == UNCHANGED <<cache, seen>>

Goto(step) == pc' = step /\ UNCHANGED <<cfg, boot, msg, out, still>>

(* The hook returns.                                                       *)
Return(o) ==
  /\ pc' = "idle"
  /\ out' = o
  /\ loc' = NoLocals
  /\ UNCHANGED <<boot, msg>>

Skip(sent) ==
  /\ Return([NoOutcome EXCEPT !.verdict = "skip", !.sent = sent])
  /\ UNCHANGED <<cfg, still, pauses>>

(* An empty set of known pauses is filled from the file.                   *)
Arrive(m) ==
  /\ pc = "idle"
  /\ pc' = "identify"
  /\ msg' = m
  /\ out' = NoOutcome
  /\ still' = TRUE
  /\ \/ known # {} /\ known' = known /\ seen' = {cfg} /\ UNCHANGED cache
     \/ /\ known = {}
        /\ \E d \in {cfg, EmptyDoc} :
             Cached(d) /\ known' = ChatsWith(d, "paused") /\ seen' = {cfg, d}
  /\ lost' = lost \ known'
  /\ UNCHANGED <<cfg, boot, muted, loc>>

IsSlash(m) == m.cmd \notin {"text", "login"}

(* Mutant: no stealth boundary, the commands check for themselves.         *)
IdentifyOpenly(d) ==
  /\ pc = "identify"
  /\ \/ msg.cmd \in {"wajid", "login"} /\ Skip(TRUE)
     \/ msg.cmd \notin {"wajid", "login"} /\ Goto("authorize") /\ UNCHANGED <<loc, pauses>>

(* Sender identity, the stealth boundary, and the two commands open to all. *)
Identify(d) ==
  /\ pc = "identify"
  /\ LET stealth == IsGroup(msg.chat) /\ IsSlash(msg) /\ ~IsAdmin(d, msg.user)
     IN  \/ stealth /\ Skip(FALSE)
         \/ ~stealth /\ msg.cmd \in {"wajid", "login"} /\ Skip(TRUE)
         \/ ~stealth /\ msg.cmd \notin {"wajid", "login"} /\ Goto("authorize") /\ UNCHANGED <<loc, pauses>>

AdminCommands == {"whitelist", "no-mention", "admin"}

(* Mutant: /whitelist is open to everybody.                                *)
AuthorizeSome(d) ==
  /\ pc = "authorize"
  /\ LET admin == msg.cmd = "whitelist" \/ IsAdmin(d, msg.user)
     IN  \/ msg.cmd \in AdminCommands /\ ~admin /\ Skip(TRUE)
         \/ /\ msg.cmd \in AdminCommands /\ admin
            /\ Goto(IF msg.act = "usage" THEN "usage" ELSE "command")
            /\ UNCHANGED <<loc, pauses>>
         \/ /\ msg.cmd \notin AdminCommands
            /\ loc' = [loc EXCEPT !.admin = admin]
            /\ Goto("whitelist") /\ UNCHANGED pauses

(* is_admin is read again; the commands refuse, out loud, who is not one.   *)
Authorize(d) ==
  /\ pc = "authorize"
  /\ LET admin == IsAdmin(d, msg.user)
     IN  \/ msg.cmd \in AdminCommands /\ ~admin /\ Skip(TRUE)
         \/ /\ msg.cmd \in AdminCommands /\ admin
            /\ Goto(IF msg.act = "usage" THEN "usage" ELSE "command")
            /\ UNCHANGED <<loc, pauses>>
         \/ /\ msg.cmd \notin AdminCommands
            /\ loc' = [loc EXCEPT !.admin = admin]
            /\ Goto("whitelist") /\ UNCHANGED pauses

Usage == pc = "usage" /\ Skip(TRUE) /\ Unread

(* The command's write of config.yaml, or the failure of it, and its answer. *)
Write(call) ==
  /\ cfg' \in {Apply(cfg, call), cfg}
  /\ IF cfg' = cfg THEN UNCHANGED <<cache, still>> ELSE cache' = "due" /\ still' = FALSE
  /\ Sees({cfg'})
  /\ Return([NoOutcome EXCEPT !.verdict = "skip", !.sent = TRUE])
  /\ UNCHANGED pauses

Flag(act) == IF act = "add" THEN "true" ELSE "false"

WhitelistCommand ==
  /\ pc = "command" /\ msg.cmd = "whitelist"
  /\ Write(SetField(msg.target, "reply", Flag(msg.act), TRUE))

NoMentionCommand ==
  /\ pc = "command" /\ msg.cmd = "no-mention"
  /\ Write(SetField(msg.target, "no_mention", Flag(msg.act), TRUE))

(* Mutant: the list is written without having been read.                   *)
AdminUnread(d) ==
  /\ pc = "command" /\ msg.cmd = "admin"
  /\ Goto(IF msg.act = "remove" THEN "admin-root" ELSE "admin-write")
  /\ UNCHANGED <<loc, pauses>>

(* /admin reads the list of extra admins, makes sure that it does not       *)
(* remove the root, and writes the whole list back.                        *)
AdminRead(d) ==
  /\ pc = "command" /\ msg.cmd = "admin"
  /\ loc' = [loc EXCEPT !.extra = d.extra]
  /\ Goto(IF msg.act = "remove" THEN "admin-root" ELSE "admin-write") /\ UNCHANGED pauses

RootCheck(d) ==
  /\ pc = "admin-root"
  /\ \/ msg.target = d.root /\ Skip(TRUE)
     \/ msg.target # d.root /\ Goto("admin-write") /\ UNCHANGED <<loc, pauses>>

AdminWrite ==
  /\ pc = "admin-write"
  /\ Write([op |-> "set_admins",
            passed |-> [extra |-> IF msg.act = "add" THEN loc.extra \cup {msg.target}
                                  ELSE loc.extra \ {msg.target}]])

-----------------------------------------------------------------------------
(* The reply decision                                                      *)

(* Mutant: the sender is looked up under the raw id only.                  *)
ReadWhitelistRaw(d) ==
  /\ pc = "whitelist"
  /\ LET white == ChatsWith(d, "reply")
     IN  loc' = [loc EXCEPT !.explicit = msg.chat \in white,
                            !.white = msg.chat \in white \/ msg.user \in white]
  /\ Goto(IF msg.cmd = "keyword-research" THEN "research" ELSE "gate")
  /\ UNCHANGED pauses

(* The whitelist is read once, for the chat, for the sender and, below, for *)
(* the mention rule.                                                       *)
ReadWhitelist(d) ==
  /\ pc = "whitelist"
  /\ LET white == ChatsWith(d, "reply")
     IN  loc' = [loc EXCEPT !.explicit = msg.chat \in white,
                            !.white = msg.chat \in white \/ UserIds(msg.user) \cap white # {}]
  /\ Goto(IF msg.cmd = "keyword-research" THEN "research" ELSE "gate")
  /\ UNCHANGED pauses

(* The gateway runs the stamped profile; without a stamp, the profile it    *)
(* found in its own routes when it booted.                                 *)
ToAgent(stamp, sent) ==
  /\ Return([NoOutcome EXCEPT !.verdict = "agent", !.sent = sent,
               !.profile = IF ~Multiplex THEN "default"
                           ELSE IF stamp # "default" THEN stamp ELSE boot[msg.chat]])
  /\ UNCHANGED <<cfg, still, pauses>>

(* /keyword-research goes to the agent at once, unstamped.                  *)
Research ==
  /\ pc = "research"
  /\ Unread
  /\ \/ (~(loc.white \/ loc.admin) \/ msg.act = "usage") /\ Skip(TRUE)
     \/ (loc.white \/ loc.admin) /\ msg.act # "usage" /\ ToAgent("default", TRUE)

(* Mutant: a mention is enough, whitelisted or not.                        *)
GateMention(d) ==
  /\ pc = "gate"
  /\ loc' = [loc EXCEPT !.reply = (~IsGroup(msg.chat) /\ loc.white) \/ msg.mention = "bot"]
  /\ Goto("pause") /\ UNCHANGED pauses

(* Mutant: the exemption looks at the sender's whitelisting too.           *)
GateSender(d) ==
  /\ pc = "gate"
  /\ LET exempt == IsGroup(msg.chat) /\ msg.chat \in ChatsWith(d, "no_mention")
         asked == ~IsGroup(msg.chat) \/ msg.mention \in {"bot", "both"} \/ exempt
         others == IsGroup(msg.chat) /\ msg.mention \in {"other", "both"}
     IN  loc' = [loc EXCEPT !.reply = loc.white /\ asked /\ ~others]
  /\ Goto("pause") /\ UNCHANGED pauses

Gate(d) ==
  /\ pc = "gate"
  /\ LET exempt == IsGroup(msg.chat) /\ msg.chat \in ChatsWith(d, "no_mention")
         asked == ~IsGroup(msg.chat) \/ msg.mention \in {"bot", "both"} \/ (exempt /\ loc.explicit)
         others == IsGroup(msg.chat) /\ msg.mention \in {"other", "both"}
     IN  loc' = [loc EXCEPT !.reply = loc.white /\ asked /\ ~others]
  /\ Goto("pause") /\ UNCHANGED pauses

IsPaused(d, c) == c \in ChatsWith(d, "paused")

(* A chat that is read as paused is remembered.  One that is not, but known *)
(* to have been, gets its session reset: the one under the bare key, in the *)
(* default namespace, of the sender.  If that raises, the pause is forgotten *)
(* all the same; and it is, too, if the chat is paused in fact (loc.paused). *)
Remember == known' = known \cup {msg.chat} /\ lost' = lost \ known' /\ UNCHANGED muted

Resume(fact) ==
  /\ known' = known \ {msg.chat}
  /\ \/ /\ muted' = muted \ {SessionKey("default", msg.chat, msg.user)}
        /\ lost' = IF fact THEN lost \cup {msg.chat} ELSE lost
     \/ /\ lost' = lost \cup {msg.chat}
        /\ UNCHANGED muted

NoPause(fact) ==
  /\ lost' = IF fact THEN lost \cup {msg.chat} ELSE lost
  /\ UNCHANGED <<known, muted>>

(* Mutant: a mention lifts the pause.                                      *)
PauseUnlessMentioned(d) ==
  /\ pc = "pause"
  /\ LET paused == IsPaused(d, msg.chat)
         fact == IsPaused(cfg, msg.chat)
     IN  /\ loc' = [loc EXCEPT !.paused = fact]
         /\ Goto(IF loc.reply /\ (~paused \/ msg.mention = "bot") THEN "resolve" ELSE "key")
         /\ \/ paused /\ Remember
            \/ ~paused /\ msg.chat \in known /\ Resume(fact)
            \/ ~paused /\ msg.chat \notin known /\ NoPause(fact)

(* Mutant: only the pauses found at the start are remembered.              *)
PauseForgotten(d) ==
  /\ pc = "pause"
  /\ LET paused == IsPaused(d, msg.chat)
         fact == IsPaused(cfg, msg.chat)
     IN  /\ loc' = [loc EXCEPT !.paused = fact]
         /\ Goto(IF loc.reply /\ ~paused THEN "resolve" ELSE "key")
         /\ \/ paused /\ UNCHANGED pauses
            \/ ~paused /\ msg.chat \in known /\ Resume(fact)
            \/ ~paused /\ msg.chat \notin known /\ NoPause(fact)

Pause(d) ==
  /\ pc = "pause"
  /\ LET paused == IsPaused(d, msg.chat)
         fact == IsPaused(cfg, msg.chat)
     IN  /\ loc' = [loc EXCEPT !.paused = fact]
         /\ Goto(IF loc.reply /\ ~paused THEN "resolve" ELSE "key")
         /\ \/ paused /\ Remember
            \/ ~paused /\ msg.chat \in known /\ Resume(fact)
            \/ ~paused /\ msg.chat \notin known /\ NoPause(fact)

Resolved(d, c) == IF Multiplex THEN ProfileFor(d, c) ELSE "default"

(* Mutant: the profile the gateway booted with is checked.                 *)
ResolveBooted(d) ==
  /\ pc = "resolve"
  /\ UNCHANGED <<loc, pauses>>
  /\ Goto(IF IsGroup(msg.chat) /\ ~AllowedInGroup(boot[msg.chat], msg.chat)
          THEN "key" ELSE "stamp")

(* Group safety of the profile the chat is routed to now.                  *)
Resolve(d) ==
  /\ pc = "resolve"
  /\ UNCHANGED <<loc, pauses>>
  /\ Goto(IF IsGroup(msg.chat) /\ ~AllowedInGroup(Resolved(d, msg.chat), msg.chat)
          THEN "key" ELSE "stamp")

(* The allowlist of the group-safe profiles is a read of its own.  If it     *)
(* fails, no profile but the default is safe, unless the group is vouched for. *)
AllowlistFails(d) ==
  /\ pc = "resolve"
  /\ IsGroup(msg.chat) /\ msg.chat \notin VouchedGroups
  /\ Resolved(d, msg.chat) # "default"
  /\ UNCHANGED <<loc, pauses>>
  /\ Goto("key")

(* Mutant: only the raw id is looked up.                                   *)
StampRaw(d) ==
  pc = "stamp" /\ ToAgent(IF FieldOf(d, msg.chat, "profile") = "unset" THEN "default"
                          ELSE FieldOf(d, msg.chat, "profile"), FALSE)

Stamp(d) == pc = "stamp" /\ ToAgent(Resolved(d, msg.chat), FALSE)

-----------------------------------------------------------------------------
(* The silent save                                                         *)

(* Mutant: a bare key, in the namespace of the default profile.            *)
BuildBareKey(d) ==
  /\ pc = "key"
  /\ loc' = [loc EXCEPT !.key = "default"]
  /\ Goto("db") /\ UNCHANGED pauses

(* The session key, in the namespace of the profile.                       *)
BuildKey(d) ==
  /\ pc = "key"
  /\ loc' = [loc EXCEPT !.key = Resolved(d, msg.chat)]
  /\ Goto("db") /\ UNCHANGED pauses

(* The state.db of the profile, if it has a directory.                     *)
ScopedDb(d) ==
  /\ pc = "db"
  /\ LET p == Resolved(d, msg.chat)
     IN  loc' = [loc EXCEPT !.db = IF p \in ProfileDirs THEN p ELSE "default"]
  /\ Goto("append") /\ UNCHANGED pauses

(* The profile's name is read a third time.  The row is stored, or storing  *)
(* it raised; the hook returns the same.                                    *)
Append(d) ==
  /\ pc = "append"
  /\ \E stored \in BOOLEAN :
       /\ Return([NoOutcome EXCEPT !.verdict = "saved", !.key = loc.key, !.db = loc.db,
                                   !.tag = Resolved(d, msg.chat), !.stored = stored])
       /\ muted' = IF stored /\ loc.paused
                   THEN muted \cup {SessionKey(loc.key, msg.chat, msg.user)} ELSE muted
  /\ UNCHANGED <<cfg, still, known, lost>>

(* Any exception skips the message.                                        *)
HookFails == pc # "idle" /\ Skip(FALSE) /\ Unread

-----------------------------------------------------------------------------
(* Another process, or a person, changes config.yaml.                      *)
Edit(call) ==
  /\ cfg' = Apply(cfg, call)
  /\ cfg' # cfg
  /\ pc # "idle" => Cardinality((seen \cup {cfg'}) \ {EmptyDoc}) <= MaxEdits + 1
  /\ seen' = IF pc = "idle" THEN seen ELSE seen \cup {cfg'}
  /\ cache' = "due"
  /\ still' = (still /\ pc = "idle")
  /\ UNCHANGED <<boot, pc, msg, loc, out, pauses>>

(* A part of config.yaml is written that the hook does not read.           *)
Touch ==
  /\ cache' = "due"
  /\ still' = (still /\ pc = "idle")
  /\ UNCHANGED <<cfg, boot, pc, msg, loc, out, seen, pauses>>

(* The gateway is restarted; the message it handled is lost, and so is what *)
(* it knew of pauses.                                                      *)
Restart ==
  /\ boot' = BootRoutes(cfg)
  /\ pc' = "idle"
  /\ loc' = NoLocals
  /\ out' = NoOutcome
  /\ seen' = {} /\ still' = TRUE
  /\ cache' = "due"
  /\ known' = {}
  /\ lost' = lost \cup known
  /\ UNCHANGED <<cfg, muted, msg>>

CachedRead(d) ==
  /\ Cached(d) /\ Sees({d})
  /\ \/ Identify(d) \/ Authorize(d) \/ AdminRead(d) \/ RootCheck(d)
     \/ ReadWhitelist(d) \/ Gate(d) \/ Pause(d)

ProfileRead(d) ==
  /\ CachedOrNot(d) /\ Sees({d})
  /\ Resolve(d) \/ Stamp(d) \/ BuildKey(d) \/ ScopedDb(d) \/ Append(d)

SafetyUnread(d) == Cached(d) /\ Sees({d, EmptyDoc}) /\ AllowlistFails(d)

Step == \/ \E d \in {cfg, EmptyDoc} : CachedRead(d) \/ ProfileRead(d) \/ SafetyUnread(d)
        \/ Usage \/ Research \/ HookFails
        \/ WhitelistCommand \/ NoMentionCommand \/ AdminWrite

Next == \/ \E m \in Messages : Arrive(m)
        \/ Step
        \/ \E call \in Edits : Edit(call)
        \/ Touch
        \/ Restart

Spec == Init /\ [][Next]_vars

-----------------------------------------------------------------------------
(* The types of the variables.                                             *)
TypeOK ==
  /\ cfg \in Docs /\ cache \in {"due", "good", "failed"}
  /\ boot \in [Chats -> Values]
  /\ known \subseteq Chats /\ lost \subseteq Chats
  /\ muted \subseteq {SessionKey(p, c, u) : p \in Values, c \in Chats, u \in Jids}
  /\ pc \in {"idle", "identify", "authorize", "usage", "command", "admin-root",
            "admin-write", "whitelist", "research", "gate", "pause", "resolve", "stamp",
            "key", "db", "append"}
  /\ msg \in Messages
  /\ loc \in [white : BOOLEAN, explicit : BOOLEAN, admin : BOOLEAN, reply : BOOLEAN,
              paused : BOOLEAN, extra : SUBSET Jids, key : Values, db : Values]
  /\ out \in [verdict : {"none", "skip", "agent", "saved"}, sent : BOOLEAN,
              profile : Values, key : Values, db : Values, tag : Values, stored : BOOLEAN]
  /\ seen \subseteq Docs /\ still \in BOOLEAN

Done(verdict) == pc = "idle" /\ out.verdict = verdict

(* In the properties below, "a config.yaml of the dispatch" is a document in *)
(* seen: one that the file held, or the empty one, which grants nothing,    *)
(* pauses nothing and routes nothing, if a read failed.  AsConfigured says  *)
(* what failed reads can do while the file holds still.                    *)

ReplyAllowed(d, m) ==
  m.chat \in ChatsWith(d, "reply") \/ UserIds(m.user) \cap ChatsWith(d, "reply") # {}

(* The bot "only replies where you allow": a message reaches the agent only *)
(* if some config.yaml of its dispatch allowed replies to its chat or to    *)
(* its sender, except an admin's /keyword-research.                         *)
OnlyWhereAllowed ==
  Done("agent") =>
    \/ \E d \in seen : ReplyAllowed(d, msg)
    \/ msg.cmd = "keyword-research" /\ \E d \in seen : IsAdmin(d, msg.user)

(* In a group the agent gets a message only if the bot is mentioned, or the *)
(* group itself is whitelisted and exempt, and never if someone else is     *)
(* mentioned (the mention gate of the hook).                                *)
NotOverheard ==
  Done("agent") /\ IsGroup(msg.chat) /\ msg.cmd # "keyword-research" =>
    /\ msg.mention \in {"none", "bot"}
    /\ \/ msg.mention = "bot"
       \/ /\ \E d \in seen : msg.chat \in ChatsWith(d, "no_mention")
          /\ \E d \in seen : msg.chat \in ChatsWith(d, "reply")

(* A chat that was paused all through the dispatch gets no reply, but for   *)
(* /keyword-research, unless a read failed: the pause is then not seen      *)
(* (is_manually_paused and the pause gate of the hook).                    *)
PausedSilent ==
  Done("agent") /\ msg.cmd # "keyword-research" =>
    \E d \in seen : ~IsPaused(d, msg.chat)

(* The other way round: a plain message the settings let through all the    *)
(* time is never taken for one to keep silent about, unless a read failed    *)
(* (which whitelists nobody).                                              *)
NotIgnored ==
  /\ msg.cmd = "text"
  /\ \A d \in seen : ReplyAllowed(d, msg) /\ ~IsPaused(d, msg.chat)
  /\ IsGroup(msg.chat) =>
       /\ msg.mention = "bot"
       /\ \A d \in seen : AllowedInGroup(Resolved(d, msg.chat), msg.chat)
  => ~Done("saved")

(* What the gates amount to under one document, taken as one question: the  *)
(* chat or the sender is whitelisted, the message is meant for the bot, the *)
(* chat is not paused, and a group gets a group-safe profile.              *)
ForTheBot(d, m) ==
  \/ ~IsGroup(m.chat)
  \/ m.mention = "bot"
  \/ m.mention = "none" /\ m.chat \in ChatsWith(d, "no_mention") \cap ChatsWith(d, "reply")

LetsIn(d, m) == ReplyAllowed(d, m) /\ ForTheBot(d, m) /\ ~IsPaused(d, m.chat)

Answerable(d, m) ==
  /\ LetsIn(d, m)
  /\ IsGroup(m.chat) => AllowedInGroup(Resolved(d, m.chat), m.chat)

(* If config.yaml was not written during the dispatch, the message goes to   *)
(* the agent or into the silent save by that question alone, in whatever     *)
(* order the hook puts its parts, as long as no read fails (seen = {d}).     *)
(* Reads that fail may keep the hook silent, but they let nothing past the   *)
(* whitelist, the mention rule and the pause: the three are read over one    *)
(* cache, which keeps a failure.  They do let a profile into a group that is *)
(* not group-safe.  /keyword-research asks less, and no other command comes  *)
(* to the agent or the save.                                               *)
AsConfigured ==
  \A d \in seen : still /\ seen \subseteq {d, EmptyDoc} =>
    /\ Done("agent") => IF msg.cmd = "keyword-research"
                        THEN ReplyAllowed(d, msg) \/ IsAdmin(d, msg.user)
                        ELSE /\ msg.cmd \in {"text", "pause"}
                             /\ LetsIn(d, msg)
                             /\ seen = {d} => Answerable(d, msg)
    /\ Done("saved") => /\ msg.cmd \in {"text", "pause"}
                        /\ seen = {d} => ~Answerable(d, msg)

(* A group member who was no admin at any moment of the dispatch gets no    *)
(* sign of life for a slash command (the strict stealth boundary).          *)
Stealth ==
  /\ pc = "idle" /\ out.verdict # "none"
  /\ IsGroup(msg.chat) /\ IsSlash(msg)
  /\ \A d \in seen : ~IsAdmin(d, msg.user)
  => out.verdict = "skip" /\ ~out.sent

(* Nobody but an admin changes config.yaml by a message.                   *)
EditsByAdmins ==
  [][cfg' # cfg /\ pc' # pc => \E d \in seen : IsAdmin(d, msg.user)]_vars

(* A command lists or unlists nobody but its target: /admin reads the list  *)
(* and writes all of it back, so it undoes what others did to it meanwhile, *)
(* but an admin whom nobody else touched during the dispatch stays what he  *)
(* was (set_admins; the other commands leave the list alone).  Unless the   *)
(* read failed: it then writes back a list without the admins it missed.   *)
AdminsKept ==
  [][cfg' # cfg /\ pc' # pc =>
       \A a \in Jids : (a \in cfg'.extra) # (a \in cfg.extra) =>
         a = msg.target \/ \E d, e \in seen : a \in d.extra /\ a \notin e.extra]_vars

(* While a chat is routed to profiles other than the default and no read     *)
(* fails, the agent answers it as one of them, whatever the gateway booted  *)
(* with and under whichever form of the peer's id the message came (the     *)
(* live stamp).  A failed read leaves the message unstamped.                *)
RoutedProfile ==
  /\ Done("agent") /\ msg.cmd # "keyword-research"
  /\ \A d \in seen : Resolved(d, msg.chat) # "default"
  => \E d \in seen : out.profile = Resolved(d, msg.chat)

(* The route of the chat did not change during the dispatch, nor, if it is  *)
(* the default, since the gateway booted; and a chat that is routed to a    *)
(* profile of its own was not taken for one of the default, by a read that  *)
(* failed.                                                                 *)
StableRoute ==
  \A d, e \in seen :
    /\ Resolved(d, msg.chat) = Resolved(e, msg.chat)
    /\ Resolved(d, msg.chat) = "default" => boot[msg.chat] = "default"

(* With a stable route, no profile that is not group-safe serves a group    *)
(* (the "hard rule"), but for /keyword-research.  A failed read at the      *)
(* safety check fails open, and so is excepted by StableRoute: the profile  *)
(* is taken for the default and passes.                                    *)
GroupSafeWhenStable ==
  Done("agent") /\ IsGroup(msg.chat) /\ msg.cmd # "keyword-research" /\ StableRoute =>
    AllowedInGroup(out.profile, msg.chat)

(* With a stable route, a silently saved message is filed under one profile: *)
(* the session key's namespace and the row's tag are those of the profile   *)
(* that would have answered, and so is the state.db if it has one.          *)
RowMatches ==
  Done("saved") /\ StableRoute =>
    \A d \in seen : LET p == Resolved(d, msg.chat)
                    IN  /\ {out.key, out.tag} = {p}
                        /\ p \in ProfileDirs \cup {"default"} => out.db = p

(* When a pause has ended, the agent starts from a clean context: it is     *)
(* never handed a message in a session that holds messages saved during the *)
(* pause.  For chats with one session, in the default profile, whose pause  *)
(* no restart, failed reset or failed read forgot (the transition detection *)
(* of the hook).                                                           *)
CleanAfterPause ==
  /\ Done("agent") /\ msg.cmd # "keyword-research"
  /\ out.profile = "default" /\ msg.chat \notin lost
  /\ IsGroup(msg.chat) => ~PerUser
  => SessionKey("default", msg.chat, msg.user) \notin muted

-----------------------------------------------------------------------------
(* What the documentation says and the hook does not do.                   *)

(* "An UNRESTRICTED profile must never run in a GROUP" (plugin.py).        *)
GroupSafety ==
  Done("agent") /\ IsGroup(msg.chat) => AllowedInGroup(out.profile, msg.chat)
=============================================================================
