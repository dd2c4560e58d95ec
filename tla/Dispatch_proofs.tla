--------------------------- MODULE Dispatch_proofs ---------------------------
(***************************************************************************)
(* Theorems about the dispatch hook, for any chats, profiles, messages and  *)
(* settings, with config.yaml changed by others any number of times.        *)
(***************************************************************************)
EXTENDS Dispatch, ConfigDoc_proofs

-----------------------------------------------------------------------------
(* Types                                                                   *)

LocalType ==
  [white : BOOLEAN, explicit : BOOLEAN, admin : BOOLEAN, reply : BOOLEAN,
   paused : BOOLEAN, extra : SUBSET Jids, key : Values, db : Values]

OutcomeType ==
  [verdict : {"none", "skip", "agent", "saved"}, sent : BOOLEAN,
   profile : Values, key : Values, db : Values, tag : Values, stored : BOOLEAN]

Steps ==
  {"idle", "identify", "authorize", "usage", "command", "admin-root", "admin-write",
   "whitelist", "research", "gate", "pause", "resolve", "stamp", "key", "db", "append"}

SessionKeys == {SessionKey(p, c, u) : p \in Values, c \in Chats, u \in Jids}

HookTypes ==
  /\ pc \in Steps /\ msg \in Messages
  /\ loc \in LocalType /\ out \in OutcomeType

FileTypes ==
  /\ cfg \in Docs /\ cache \in {"due", "good", "failed"}
  /\ seen \subseteq Docs /\ still \in BOOLEAN
  /\ boot \in [Chats -> Values]

PauseTypes == known \subseteq Chats /\ lost \subseteq Chats /\ muted \subseteq SessionKeys

LEMMA TypeParts == TypeOK <=> HookTypes /\ FileTypes /\ PauseTypes
BY DEF TypeOK, HookTypes, FileTypes, PauseTypes, LocalType, OutcomeType, Steps, SessionKeys

(* The messages are what they are.                                         *)
LEMMA MessageFields ==
  ASSUME NEW m \in Messages
  PROVE  /\ m.chat \in Chats /\ m.user \in Jids /\ m.target \in Chats
         /\ m.mention \in {"none", "bot", "other", "both"}
         /\ m.cmd \in {"text", "login", "wajid", "whitelist", "no-mention", "admin",
                       "keyword-research", "pause"}
         /\ m.cmd = "admin" => m.target \in Jids
BY DispatchAssumption DEF MessageType

LEMMA StartTypes == NoLocals \in LocalType /\ NoOutcome \in OutcomeType
BY ValuesAssumption DEF NoLocals, NoOutcome, LocalType, OutcomeType

(* A field of a document is a value, and so is the profile of a chat.       *)
LEMMA FieldType ==
  ASSUME NEW d \in Docs, NEW c \in Chats, NEW f \in RouteFields
  PROVE  FieldOf(d, c, f) \in Values
BY DEF FieldOf, Docs, Route

LEMMA ResolvedType ==
  ASSUME NEW d \in Docs, NEW c \in Chats
  PROVE  Resolved(d, c) \in Values
<1> DEFINE S == Having(d, c, "profile")
<1>1. "default" \in Values BY ValuesAssumption
<1>2. ASSUME S # {} PROVE First(S) \in 1 .. 3
  <2>1. S \subseteq {1, 2, 3} BY DEF Having
  <2>2. \E i \in S : \A j \in S : i <= j
    <3> HIDE DEF S
    <3>1. CASE 1 \in S BY <2>1, <3>1
    <3>2. CASE 1 \notin S /\ 2 \in S BY <2>1, <3>2
    <3>3. CASE 1 \notin S /\ 2 \notin S
      <4>1. \A j \in S : j = 3 BY <2>1, <3>3
      <4>2. 3 \in S BY <1>2, <4>1
      <4>3. QED BY <4>1, <4>2
    <3>4. QED BY <3>1, <3>2, <3>3
  <2>3. First(S) \in S BY <2>2 DEF First
  <2>4. QED BY <2>1, <2>3
<1>3. ASSUME NEW i \in 1 .. 3 PROVE Candidates(c)[i] \in Chats
  <2>1. Phone[c] \in Chats /\ Lid[c] \in Chats BY DispatchAssumption
  <2>2. i = 1 \/ i = 2 \/ i = 3 BY <1>3
  <2>3. QED BY <2>1, <2>2 DEF Candidates
<1>4. "profile" \in RouteFields BY DEF RouteFields
<1>5. CASE S = {} BY <1>1, <1>5 DEF Resolved, ProfileFor
<1>6. CASE S # {}
  <2>1. Candidates(c)[First(S)] \in Chats BY <1>2, <1>3, <1>6
  <2>2. FieldOf(d, Candidates(c)[First(S)], "profile") \in Values BY <2>1, <1>4, FieldType
  <2>3. QED BY <1>1, <1>6, <2>2 DEF Resolved, ProfileFor
<1>7. QED BY <1>5, <1>6

LEMMA BootType ==
  ASSUME NEW d \in Docs
  PROVE  BootRoutes(d) \in [Chats -> Values]
<1>1. "profile" \in RouteFields /\ "default" \in Values BY ValuesAssumption DEF RouteFields
<1>2. \A c \in Chats : FieldOf(d, c, "profile") \in Values BY <1>1, FieldType
<1>3. QED BY <1>1, <1>2 DEF BootRoutes

(* What the commands write are calls of a writer.                          *)
LEMMA SetFieldType ==
  ASSUME NEW c \in Chats, NEW f \in RouteFields, NEW v \in Values
  PROVE  SetField(c, f, v, TRUE) \in Calls
BY DEF SetField, Calls, RouteArgs

LEMMA SetExtraType ==
  ASSUME NEW S \in SUBSET Jids
  PROVE  [op |-> "set_admins", passed |-> [extra |-> S]] \in Calls
<1>1. [extra |-> S] \in AdminArgs BY DEF AdminArgs
<1>2. QED BY <1>1 DEF Calls

LEMMA FlagType == \A act : Flag(act) \in Values
BY ValuesAssumption DEF Flag

(* Where the hook goes on, its variables stay what they are; where it       *)
(* returns, it has an outcome.                                             *)
LEMMA GotoTypes ==
  ASSUME HookTypes, NEW step \in Steps, Goto(step), loc' \in LocalType
  PROVE  HookTypes'
BY DEF HookTypes, Goto

LEMMA ReturnTypes ==
  ASSUME HookTypes, NEW o \in OutcomeType, Return(o)
  PROVE  HookTypes'
BY StartTypes DEF HookTypes, Return, Steps

LEMMA SkipTypes ==
  ASSUME HookTypes, NEW sent \in BOOLEAN, Skip(sent)
  PROVE  HookTypes'
<1>1. [NoOutcome EXCEPT !.verdict = "skip", !.sent = sent] \in OutcomeType
  BY StartTypes DEF OutcomeType
<1>2. QED BY <1>1, ReturnTypes DEF Skip

LEMMA WriteTypes ==
  ASSUME HookTypes, NEW call, Write(call)
  PROVE  HookTypes'
<1>1. [NoOutcome EXCEPT !.verdict = "skip", !.sent = TRUE] \in OutcomeType
  BY StartTypes DEF OutcomeType
<1>2. QED BY <1>1, ReturnTypes DEF Write

LEMMA AgentTypes ==
  ASSUME TypeOK, NEW stamp \in Values, NEW sent \in BOOLEAN, ToAgent(stamp, sent)
  PROVE  HookTypes'
<1> DEFINE p == IF ~Multiplex THEN "default" ELSE IF stamp # "default" THEN stamp ELSE boot[msg.chat]
<1>1. HookTypes /\ msg.chat \in Chats /\ boot \in [Chats -> Values]
  BY TypeParts, MessageFields DEF HookTypes, FileTypes
<1>2. p \in Values BY <1>1, ValuesAssumption
<1>3. [NoOutcome EXCEPT !.verdict = "agent", !.sent = sent, !.profile = p] \in OutcomeType
  BY <1>2, StartTypes DEF OutcomeType
<1>4. QED BY <1>1, <1>3, ReturnTypes DEF ToAgent

(* The steps of the decision, up to the pause.                             *)
LEMMA DecisionTypes ==
  ASSUME TypeOK, NEW d \in Docs,
         Identify(d) \/ Authorize(d) \/ AdminRead(d) \/ RootCheck(d) \/ ReadWhitelist(d) \/ Gate(d)
  PROVE  HookTypes'
<1>1. HookTypes /\ d.extra \in SUBSET Jids BY TypeParts DEF Docs
<1>2. loc \in LocalType BY <1>1 DEF HookTypes
<1>3. CASE Identify(d)
  BY <1>1, <1>2, <1>3, SkipTypes, GotoTypes DEF Identify, Steps
<1>4. CASE Authorize(d)
  <2>1. [loc EXCEPT !.admin = IsAdmin(d, msg.user)] \in LocalType
    BY <1>2 DEF LocalType, IsAdmin
  <2>2. QED BY <1>1, <1>2, <1>4, <2>1, SkipTypes, GotoTypes DEF Authorize, Steps
<1>5. CASE RootCheck(d)
  BY <1>1, <1>2, <1>5, SkipTypes, GotoTypes DEF RootCheck, Steps
<1>6. CASE AdminRead(d)
  <2>1. [loc EXCEPT !.extra = d.extra] \in LocalType BY <1>1, <1>2 DEF LocalType
  <2>2. QED BY <1>1, <1>6, <2>1, GotoTypes DEF AdminRead, Steps
<1>7. CASE ReadWhitelist(d)
  <2> DEFINE a == msg.chat \in ChatsWith(d, "reply")
             b == a \/ UserIds(msg.user) \cap ChatsWith(d, "reply") # {}
  <2>0. a \in BOOLEAN /\ b \in BOOLEAN OBVIOUS
  <2>4. loc' = [loc EXCEPT !.explicit = a, !.white = b] BY Zenon, <1>7 DEF ReadWhitelist
  <2>1. loc' \in LocalType
    <3> HIDE DEF a, b
    <3> QED BY <1>2, <2>0, <2>4 DEF LocalType
  <2>2. QED BY <1>1, <1>7, <2>1, GotoTypes DEF ReadWhitelist, Steps
<1>9. CASE Gate(d)
  <2>1. loc' \in LocalType BY <1>2, <1>9 DEF Gate, LocalType
  <2>2. QED BY <1>1, <1>9, <2>1, GotoTypes DEF Gate, Steps
<1>10. QED BY <1>3, <1>4, <1>5, <1>6, <1>7, <1>9

(* From the pause on.                                                      *)
LEMMA EndTypes ==
  ASSUME TypeOK, NEW d \in Docs,
         Pause(d) \/ Resolve(d) \/ AllowlistFails(d) \/ Stamp(d) \/ BuildKey(d) \/ ScopedDb(d) \/ Append(d)
  PROVE  HookTypes'
<1>1. HookTypes BY TypeParts
<1>2. loc \in LocalType /\ msg.chat \in Chats
  BY <1>1, TypeParts, MessageFields DEF HookTypes
<1>3. Resolved(d, msg.chat) \in Values BY <1>2, ResolvedType
<1>4. CASE Pause(d)
  <2> DEFINE p == IsPaused(cfg, msg.chat)
  <2>0. p \in BOOLEAN BY DEF IsPaused
  <2>4. loc' = [loc EXCEPT !.paused = p] BY <1>4 DEF Pause
  <2>1. loc' \in LocalType
    <3> HIDE DEF p
    <3> QED BY <1>2, <2>0, <2>4 DEF LocalType
  <2>2. Goto("resolve") \/ Goto("key") BY <1>4 DEF Pause
  <2>3. QED BY <1>1, <2>1, <2>2, GotoTypes DEF Steps
<1>5. CASE Resolve(d) \/ AllowlistFails(d)
  <2>1. Goto("stamp") \/ Goto("key") BY <1>5 DEF Resolve, AllowlistFails
  <2>2. QED BY <1>1, <1>2, <1>5, <2>1, GotoTypes DEF Resolve, AllowlistFails, Steps
<1>6. CASE Stamp(d) BY <1>3, <1>6, AgentTypes DEF Stamp
<1>7. CASE BuildKey(d)
  <2>1. loc' \in LocalType BY <1>2, <1>3, <1>7 DEF BuildKey, LocalType
  <2>2. QED BY <1>1, <1>7, <2>1, GotoTypes DEF BuildKey, Steps
<1>8. CASE ScopedDb(d)
  <2>1. loc' \in LocalType BY <1>2, <1>3, <1>8, ValuesAssumption DEF ScopedDb, LocalType
  <2>2. QED BY <1>1, <1>8, <2>1, GotoTypes DEF ScopedDb, Steps
<1>9. CASE Append(d)
  <2>1. PICK stored \in BOOLEAN :
          Return([NoOutcome EXCEPT !.verdict = "saved", !.key = loc.key, !.db = loc.db,
                                   !.tag = Resolved(d, msg.chat), !.stored = stored])
    BY <1>9 DEF Append
  <2>2. [NoOutcome EXCEPT !.verdict = "saved", !.key = loc.key, !.db = loc.db,
                          !.tag = Resolved(d, msg.chat), !.stored = stored] \in OutcomeType
    BY <1>2, <1>3, StartTypes DEF OutcomeType, LocalType
  <2>3. QED BY <1>1, <2>1, <2>2, ReturnTypes
<1>10. QED BY <1>4, <1>5, <1>6, <1>7, <1>8, <1>9

(* The steps that read nothing.                                            *)
Ends == Usage \/ Research \/ HookFails

LEMMA UnreadTypes ==
  ASSUME TypeOK, Ends
  PROVE  HookTypes'
<1>1. HookTypes /\ "default" \in Values BY TypeParts, ValuesAssumption
<1>2. QED BY <1>1, SkipTypes, AgentTypes DEF Ends, Usage, Research, HookFails

(* The commands write a document; what is written for /admin was named by   *)
(* an /admin.                                                              *)
AdminMeant == pc \in {"admin-root", "admin-write"} => msg.cmd = "admin"

Commands == WhitelistCommand \/ NoMentionCommand \/ AdminWrite

LEMMA CommandCases ==
  ASSUME TypeOK, AdminMeant, Commands
  PROVE  \E call \in Calls : Write(call)
<1>1. msg.target \in Chats /\ (msg.cmd = "admin" => msg.target \in Jids) /\ loc.extra \in SUBSET Jids
  BY TypeParts, MessageFields DEF HookTypes, LocalType
<1>2. {"reply", "no_mention"} \subseteq RouteFields BY DEF RouteFields
<1>3. CASE WhitelistCommand
  BY <1>1, <1>2, <1>3, SetFieldType, FlagType DEF WhitelistCommand
<1>4. CASE NoMentionCommand
  BY <1>1, <1>2, <1>4, SetFieldType, FlagType DEF NoMentionCommand
<1>5. CASE AdminWrite
  <2> DEFINE list == IF msg.act = "add" THEN loc.extra \cup {msg.target} ELSE loc.extra \ {msg.target}
  <2>1. msg.target \in Jids BY <1>1, <1>5 DEF AdminWrite, AdminMeant
  <2>2. list \in SUBSET Jids BY <1>1, <2>1
  <2>3. Write([op |-> "set_admins", passed |-> [extra |-> list]]) BY <1>5 DEF AdminWrite
  <2> HIDE DEF list
  <2>4. QED BY <2>2, <2>3, SetExtraType
<1>6. QED BY <1>3, <1>4, <1>5 DEF Commands

LEMMA CommandTypes ==
  ASSUME TypeOK, AdminMeant, Commands
  PROVE  HookTypes'
BY CommandCases, WriteTypes, TypeParts

(* Every step of the hook but a command's leaves config.yaml alone, and goes *)
(* by the document it read, if it read any.                                *)
ReadSteps(d) ==
  \/ Identify(d) \/ Authorize(d) \/ AdminRead(d) \/ RootCheck(d) \/ ReadWhitelist(d) \/ Gate(d)
  \/ Pause(d) \/ Resolve(d) \/ AllowlistFails(d) \/ Stamp(d) \/ BuildKey(d) \/ ScopedDb(d) \/ Append(d)

Read(d) == CachedRead(d) \/ ProfileRead(d) \/ SafetyUnread(d)

Reads == Ends \/ \E d \in {cfg, EmptyDoc} : Read(d)

LEMMA StepCases == Step <=> Reads \/ Commands
BY Zenon DEF Step, Reads, Read, Ends, Commands

LEMMA ReadSees ==
  ASSUME NEW d, Read(d)
  PROVE  ReadSteps(d) /\ d \in seen' /\ seen \subseteq seen'
BY DEF Read, CachedRead, ProfileRead, SafetyUnread, ReadSteps, Sees

LEMMA ReadStepsOnly ==
  ASSUME NEW d, ReadSteps(d)
  PROVE  UNCHANGED <<cfg, boot, msg, still>>
<1>1. CASE Identify(d) BY <1>1 DEF Identify, Skip, Return, Goto
<1>2. CASE Authorize(d) BY <1>2 DEF Authorize, Skip, Return, Goto
<1>3. CASE RootCheck(d) BY <1>3 DEF RootCheck, Skip, Return, Goto
<1>4. CASE AdminRead(d) \/ ReadWhitelist(d) \/ Gate(d) BY <1>4 DEF AdminRead, ReadWhitelist, Gate, Goto
<1>6. CASE Pause(d) BY <1>6 DEF Pause, Goto
<1>7. CASE Resolve(d) \/ AllowlistFails(d) BY <1>7 DEF Resolve, AllowlistFails, Goto
<1>8. CASE Stamp(d) BY <1>8 DEF Stamp, ToAgent, Return
<1>9. CASE BuildKey(d) \/ ScopedDb(d) BY <1>9 DEF BuildKey, ScopedDb, Goto
<1>10. CASE Append(d) BY <1>10 DEF Append, Return
<1>11. QED BY <1>1, <1>2, <1>3, <1>4, <1>6, <1>7, <1>8, <1>9, <1>10 DEF ReadSteps

LEMMA EndsOnly ==
  ASSUME Ends
  PROVE  UNCHANGED <<cfg, cache, boot, msg, still, seen>>
BY DEF Ends, Usage, Research, HookFails, Skip, ToAgent, Return, Unread

LEMMA ReadsOnly ==
  ASSUME Reads
  PROVE  UNCHANGED <<cfg, boot, msg, still>> /\ seen \subseteq seen'
BY ReadSees, ReadStepsOnly, EndsOnly DEF Reads

LEMMA CommandWrites ==
  ASSUME Commands
  PROVE  /\ pc \in {"command", "admin-write"} /\ pc' = "idle" /\ loc' = NoLocals
         /\ out'.verdict = "skip"
         /\ seen \subseteq seen'
         /\ UNCHANGED <<boot, msg, known, muted, lost>>
<1>1. ASSUME NEW call, Write(call)
      PROVE  /\ pc' = "idle" /\ loc' = NoLocals /\ out'.verdict = "skip" /\ seen \subseteq seen'
             /\ UNCHANGED <<boot, msg, known, muted, lost>>
  BY <1>1 DEF Write, Return, NoOutcome, pauses, Sees
<1>2. QED BY <1>1 DEF Commands, WhitelistCommand, NoMentionCommand, AdminWrite

(* What the others do, and nothing.                                        *)
LEMMA OtherTypes ==
  ASSUME TypeOK, (\E m \in Messages : Arrive(m)) \/ (\E call \in Edits : Edit(call))
                   \/ Touch \/ Restart \/ UNCHANGED vars
  PROVE  HookTypes'
<1>1. HookTypes BY TypeParts
<1>2. ASSUME NEW m \in Messages, Arrive(m) PROVE HookTypes'
  BY <1>1, <1>2, StartTypes DEF HookTypes, Arrive, Steps
<1>3. ASSUME NEW call, Edit(call) \/ Touch PROVE HookTypes'
  BY <1>1, <1>3 DEF HookTypes, Edit, Touch
<1>4. CASE Restart BY <1>1, <1>4, StartTypes DEF HookTypes, Restart, Steps
<1>5. CASE UNCHANGED vars BY <1>1, <1>5 DEF HookTypes, vars
<1>6. QED BY <1>2, <1>3, <1>4, <1>5

LEMMA CacheStep ==
  ASSUME TypeOK, NEW d, Cached(d) \/ CachedOrNot(d)
  PROVE  cache' \in {"due", "good", "failed"}
BY DEF Cached, CachedOrNot, TypeOK

LEMMA FileStep ==
  ASSUME TypeOK, AdminMeant, [Next]_vars
  PROVE  FileTypes'
<1>1. FileTypes /\ EmptyDoc \in Docs BY TypeParts, EmptyDocType
<1>2. ASSUME NEW m \in Messages, Arrive(m) PROVE FileTypes'
  <2>1. cache' \in {"due", "good", "failed"} BY <1>1, <1>2, CacheStep DEF Arrive, FileTypes
  <2>2. seen' \subseteq {cfg, EmptyDoc} /\ still' = TRUE /\ UNCHANGED <<cfg, boot>> BY <1>2 DEF Arrive
  <2>3. QED BY <1>1, <2>1, <2>2 DEF FileTypes
<1>3. CASE Reads
  <2>1. CASE Ends BY <1>1, <2>1, EndsOnly DEF FileTypes
  <2>2. ASSUME NEW d \in {cfg, EmptyDoc}, Read(d) PROVE FileTypes'
    <3>1. cache' \in {"due", "good", "failed"}
      BY <2>2, CacheStep DEF Read, CachedRead, ProfileRead, SafetyUnread
    <3>2. seen' \subseteq seen \cup {d, EmptyDoc}
      BY <2>2 DEF Read, CachedRead, ProfileRead, SafetyUnread, Sees
    <3>3. UNCHANGED <<cfg, boot, still>> BY <1>3, ReadsOnly
    <3>4. QED BY <1>1, <2>2, <3>1, <3>2, <3>3 DEF FileTypes
  <2>3. QED BY <1>3, <2>1, <2>2 DEF Reads
<1>4. CASE Commands
  <2>1. PICK call \in Calls : Write(call) BY <1>4, CommandCases
  <2>2. Apply(cfg, call) \in Docs BY <1>1, ApplyType DEF FileTypes
  <2>3. cfg' \in Docs /\ seen' = seen \cup {cfg'} /\ boot' = boot
    BY <1>1, <2>1, <2>2 DEF Write, Return, Sees, FileTypes
  <2>4. cache' \in {cache, "due"} /\ still' \in BOOLEAN BY <1>1, <2>1 DEF Write, FileTypes
  <2>5. QED BY <1>1, <2>3, <2>4 DEF FileTypes
<1>5. ASSUME NEW call \in Edits, Edit(call) PROVE FileTypes'
  <2>1. cfg' \in Docs BY <1>1, <1>5, ApplyType, DispatchAssumption DEF Edit, FileTypes
  <2>2. seen' \subseteq seen \cup {cfg'} /\ boot' = boot BY <1>5 DEF Edit
  <2>3. cache' = "due" /\ still' \in BOOLEAN BY <1>5 DEF Edit
  <2>4. QED BY <1>1, <2>1, <2>2, <2>3 DEF FileTypes
<1>6. CASE Restart BY <1>1, <1>6, BootType DEF Restart, FileTypes
<1>7. CASE Touch BY <1>1, <1>7 DEF Touch, FileTypes
<1>8. CASE UNCHANGED vars BY <1>1, <1>8 DEF vars, FileTypes
<1>9. QED BY <1>2, <1>3, <1>4, <1>5, <1>6, <1>7, <1>8, StepCases DEF Next

(* The known pauses and the sessions that are muted change at a few steps.  *)
LEMMA PausesKept ==
  ASSUME NEW d, ReadSteps(d), ~Pause(d), ~Append(d)
  PROVE  UNCHANGED <<known, muted, lost>>
<1>1. CASE Identify(d) BY <1>1 DEF Identify, Skip, pauses
<1>2. CASE Authorize(d) BY <1>2 DEF Authorize, Skip, pauses
<1>3. CASE RootCheck(d) BY <1>3 DEF RootCheck, Skip, pauses
<1>4. CASE AdminRead(d) \/ ReadWhitelist(d) \/ Gate(d) BY <1>4 DEF AdminRead, ReadWhitelist, Gate, pauses
<1>6. CASE Resolve(d) \/ AllowlistFails(d) BY <1>6 DEF Resolve, AllowlistFails, pauses
<1>7. CASE Stamp(d) BY <1>7 DEF Stamp, ToAgent, pauses
<1>8. CASE BuildKey(d) \/ ScopedDb(d) BY <1>8 DEF BuildKey, ScopedDb, pauses
<1>10. QED BY <1>1, <1>2, <1>3, <1>4, <1>6, <1>7, <1>8 DEF ReadSteps

LEMMA EndsKeep ==
  ASSUME Ends
  PROVE  UNCHANGED <<known, muted, lost>>
BY DEF Ends, Usage, Research, HookFails, Skip, ToAgent, pauses

LEMMA KeyType ==
  ASSUME TypeOK, NEW p \in Values
  PROVE  SessionKey(p, msg.chat, msg.user) \in SessionKeys
BY TypeParts, MessageFields DEF HookTypes, SessionKeys

LEMMA PauseStep ==
  ASSUME TypeOK, [Next]_vars
  PROVE  PauseTypes'
<1>1. PauseTypes /\ msg.chat \in Chats BY TypeParts, MessageFields DEF HookTypes
<1>2. ASSUME NEW m \in Messages, Arrive(m) PROVE PauseTypes'
  <2>1. \A d \in {cfg, EmptyDoc} : ChatsWith(d, "paused") \subseteq Chats
    BY TypeParts, EmptyDocType DEF FileTypes, Docs, ChatsWith
  <2>2. QED BY <1>1, <1>2, <2>1 DEF Arrive, PauseTypes
<1>3. ASSUME NEW d \in {cfg, EmptyDoc}, Read(d) PROVE PauseTypes'
  <2>1. CASE Pause(d)
    <3>1. known' \subseteq known \cup {msg.chat} /\ lost' \subseteq lost \cup {msg.chat} /\ muted' \subseteq muted
      BY <2>1 DEF Pause, Remember, Resume, NoPause
    <3>2. QED BY <1>1, <3>1 DEF PauseTypes
  <2>2. CASE Append(d)
    <3>1. loc.key \in Values BY TypeParts DEF HookTypes, LocalType
    <3>2. muted' \subseteq muted \cup {SessionKey(loc.key, msg.chat, msg.user)} /\ UNCHANGED <<known, lost>>
      BY <2>2 DEF Append
    <3>3. QED BY <1>1, <3>1, <3>2, KeyType DEF PauseTypes
  <2>3. CASE ~Pause(d) /\ ~Append(d) BY <1>1, <1>3, <2>3, ReadSees, PausesKept DEF PauseTypes
  <2>4. QED BY <2>1, <2>2, <2>3
<1>4. CASE Ends \/ Commands BY <1>1, <1>4, EndsKeep, CommandWrites DEF PauseTypes
<1>6. ASSUME NEW call \in Edits, Edit(call) PROVE PauseTypes'
  BY <1>1, <1>6 DEF Edit, pauses, PauseTypes
<1>7. CASE Restart BY <1>1, <1>7 DEF Restart, PauseTypes
<1>8. CASE Touch BY <1>1, <1>8 DEF Touch, pauses, PauseTypes
<1>9. CASE UNCHANGED vars BY <1>1, <1>9 DEF vars, PauseTypes
<1>10. QED BY <1>2, <1>3, <1>4, <1>6, <1>7, <1>8, <1>9, StepCases DEF Next, Reads

LEMMA MeantStep ==
  ASSUME TypeOK, AdminMeant, [Next]_vars
  PROVE  AdminMeant'
<1>1. ASSUME NEW m, Arrive(m) PROVE AdminMeant' BY <1>1 DEF Arrive, AdminMeant
<1>2. ASSUME NEW d, ReadSteps(d) PROVE AdminMeant'
  <2>1. CASE AdminRead(d) BY <2>1 DEF AdminRead, Goto, AdminMeant
  <2>2. CASE RootCheck(d) BY <2>2 DEF RootCheck, Skip, Return, Goto, AdminMeant
  <2>3. CASE Identify(d) \/ Authorize(d)
    BY <2>3 DEF Identify, Authorize, Skip, Return, Goto, AdminMeant
  <2>4. CASE Stamp(d) \/ Append(d) BY <2>4 DEF Stamp, Append, ToAgent, Return, AdminMeant
  <2>5. CASE ReadWhitelist(d) \/ Gate(d) \/ BuildKey(d) \/ ScopedDb(d)
    BY <2>5 DEF ReadWhitelist, Gate, BuildKey, ScopedDb, Goto, AdminMeant
  <2>6. CASE Pause(d) \/ Resolve(d) \/ AllowlistFails(d)
    BY <2>6 DEF Pause, Resolve, AllowlistFails, Goto, AdminMeant
  <2>7. QED BY <1>2, <2>1, <2>2, <2>3, <2>4, <2>5, <2>6 DEF ReadSteps
<1>3. CASE Commands BY <1>3, CommandWrites DEF AdminMeant
<1>5. CASE Ends BY <1>5 DEF Ends, Usage, Research, HookFails, ToAgent, Skip, Return, AdminMeant
<1>8. ASSUME NEW call, Edit(call) \/ Touch PROVE AdminMeant' BY <1>8 DEF Edit, Touch, AdminMeant
<1>9. CASE Restart BY <1>9 DEF Restart, AdminMeant
<1>10. CASE UNCHANGED vars BY <1>10 DEF vars, AdminMeant
<1>11. QED BY <1>1, <1>2, <1>3, <1>5, <1>8, <1>9, <1>10, StepCases, ReadSees DEF Next, Reads

(* Every variable of the hook keeps its type, whatever config.yaml becomes  *)
(* and whatever fails (plugin.on_pre_gateway_dispatch).                    *)
THEOREM TypeCorrect == Spec => []TypeOK
<1>1. Init => TypeOK /\ AdminMeant
  <2> SUFFICES ASSUME Init PROVE TypeOK /\ AdminMeant
    OBVIOUS
  <2>1. HookTypes BY StartTypes DEF Init, HookTypes, Steps
  <2>2. FileTypes BY BootType, DispatchAssumption DEF Init, FileTypes
  <2>3. PauseTypes /\ AdminMeant BY DEF Init, PauseTypes, AdminMeant
  <2>4. QED BY <2>1, <2>2, <2>3, TypeParts
<1>2. TypeOK /\ AdminMeant /\ [Next]_vars => TypeOK' /\ AdminMeant'
  <2> SUFFICES ASSUME TypeOK, AdminMeant, [Next]_vars PROVE TypeOK' /\ AdminMeant'
    OBVIOUS
  <2>1. FileTypes' /\ PauseTypes' /\ AdminMeant' BY FileStep, PauseStep, MeantStep
  <2>2. HookTypes'
    <3>1. ASSUME NEW d \in {cfg, EmptyDoc}, Read(d) PROVE HookTypes'
      <4>1. d \in Docs BY TypeParts, EmptyDocType DEF FileTypes
      <4>2. QED BY <3>1, <4>1, ReadSees, DecisionTypes, EndTypes DEF ReadSteps
    <3>2. CASE Step BY <3>1, <3>2, StepCases, UnreadTypes, CommandTypes DEF Reads
    <3>3. QED BY <3>2, OtherTypes DEF Next
  <2>3. QED
    BY <2>1, <2>2 DEF TypeOK, HookTypes, FileTypes, PauseTypes, LocalType, OutcomeType, Steps, SessionKeys
<1>3. QED BY <1>1, <1>2, PTL DEF Spec

-----------------------------------------------------------------------------
(* What the hook went by: each of its local findings, and each step it has  *)
(* come to, has a document that config.yaml held since the message arrived, *)
(* or the empty one if a read failed.                                      *)

ReplySeen == \E d \in seen : ReplyAllowed(d, msg)
ChatSeen == \E d \in seen : msg.chat \in ChatsWith(d, "reply")
AdminSeen == \E d \in seen : IsAdmin(d, msg.user)
ExemptSeen == \E d \in seen : msg.chat \in ChatsWith(d, "no_mention")
UnpausedSeen == \E d \in seen : ~IsPaused(d, msg.chat)

Heard ==
  IsGroup(msg.chat) =>
    /\ msg.mention \in {"none", "bot"}
    /\ msg.mention = "bot" \/ (ExemptSeen /\ ChatSeen)

SeenNow == pc # "idle" => cfg \in seen

Deciding == {"gate", "pause", "resolve", "stamp", "key", "db", "append"}

Course ==
  /\ pc = "idle" => loc = NoLocals
  /\ pc = "research" => msg.cmd = "keyword-research"
  /\ pc \in Deciding => msg.cmd # "keyword-research"

Evidence ==
  /\ pc \in {"usage", "command", "admin-root", "admin-write"} \/ loc.admin => AdminSeen
  /\ loc.white => ReplySeen
  /\ loc.explicit => ChatSeen
  /\ loc.reply => ReplySeen /\ Heard
  /\ pc \in {"resolve", "stamp"} => loc.reply /\ UnpausedSeen

Answered == OnlyWhereAllowed /\ NotOverheard /\ PausedSilent

Sound == SeenNow /\ Course /\ Evidence /\ Answered

(* A hook that has returned, but not to the agent, has nothing to account   *)
(* for.                                                                    *)
LEMMA NothingDone ==
  ASSUME pc' = "idle", loc' = NoLocals, out'.verdict # "agent"
  PROVE  Sound'
BY DEF Sound, SeenNow, Course, Deciding, Evidence, NoLocals, Answered, OnlyWhereAllowed, NotOverheard,
       PausedSilent, Done

LEMMA Skipped ==
  ASSUME NEW sent, Skip(sent)
  PROVE  Sound'
<1>1. pc' = "idle" /\ loc' = NoLocals /\ out'.verdict = "skip" BY DEF Skip, Return, NoOutcome
<1>2. QED BY <1>1, NothingDone

(* What was seen once was seen.                                            *)
LEMMA SeenStays ==
  ASSUME seen \subseteq seen', msg' = msg
  PROVE  /\ ReplySeen => ReplySeen'
         /\ ChatSeen => ChatSeen'
         /\ AdminSeen => AdminSeen'
         /\ UnpausedSeen => UnpausedSeen'
         /\ Heard => Heard'
BY Zenon DEF ReplySeen, ChatSeen, AdminSeen, UnpausedSeen, ExemptSeen, Heard

LEMMA NotBack ==
  ASSUME pc' # "idle"
  PROVE  Answered'
BY DEF Answered, OnlyWhereAllowed, NotOverheard, PausedSilent, Done

(* On the way, it is the findings that have to be accounted for.           *)
Onward == seen \subseteq seen' /\ SeenNow' /\ Answered' /\ msg' = msg

LEMMA GoesOn ==
  ASSUME SeenNow, pc # "idle", seen \subseteq seen', NEW step \in Steps \ {"idle"}, Goto(step)
  PROVE  Onward /\ pc' = step
BY NotBack DEF SeenNow, Goto, Onward

LEMMA IdentitySound ==
  ASSUME TypeOK, Sound, NEW d \in seen', seen \subseteq seen',
         Identify(d) \/ Authorize(d) \/ AdminRead(d) \/ RootCheck(d)
  PROVE  Sound'
<1> USE DEF Sound
<1>0. loc \in LocalType BY TypeParts DEF HookTypes
<1>1. CASE Identify(d)
  <2>1. CASE Skip(FALSE) \/ Skip(TRUE) BY <2>1, Skipped
  <2>2. CASE Goto("authorize") /\ UNCHANGED loc
    <3>1. pc = "identify" BY <1>1 DEF Identify
    <3>2. Onward /\ pc' = "authorize" BY <2>2, <3>1, GoesOn DEF Steps
    <3>3. Course' /\ Evidence' BY <2>2, <3>2, SeenStays DEF Course, Evidence, Deciding, Onward
    <3>4. QED BY <3>2, <3>3 DEF Onward
  <2>3. QED BY <1>1, <2>1, <2>2 DEF Identify
<1>2. CASE Authorize(d)
  <2>1. CASE Skip(TRUE) BY <2>1, Skipped
  <2>2. pc = "authorize" BY <1>2 DEF Authorize
  <2>3. ASSUME NEW step \in {"usage", "command"}, Goto(step), UNCHANGED loc, IsAdmin(d, msg.user)
        PROVE  Sound'
    <3>1. Onward /\ pc' = step BY <2>2, <2>3, GoesOn DEF Steps
    <3>2. AdminSeen' BY <2>3, <3>1 DEF AdminSeen, Onward
    <3>3. Course' /\ Evidence' BY <2>3, <3>1, <3>2, SeenStays DEF Course, Evidence, Deciding, Onward
    <3>4. QED BY <3>1, <3>3 DEF Onward
  <2>4. ASSUME Goto("whitelist"), loc' = [loc EXCEPT !.admin = IsAdmin(d, msg.user)]
        PROVE  Sound'
    <3>1. Onward /\ pc' = "whitelist" BY <2>2, <2>4, GoesOn DEF Steps
    <3>2. IsAdmin(d, msg.user) => AdminSeen' BY <3>1 DEF AdminSeen, Onward
    <3>3. /\ loc'.admin = IsAdmin(d, msg.user)
          /\ loc'.white = loc.white /\ loc'.explicit = loc.explicit /\ loc'.reply = loc.reply
      BY <1>0, <2>4 DEF LocalType
    <3>4. Course' /\ Evidence' BY <3>1, <3>2, <3>3, SeenStays DEF Course, Evidence, Deciding, Onward
    <3>5. QED BY <3>1, <3>4 DEF Onward
  <2>5. QED BY <1>2, <2>1, <2>3, <2>4 DEF Authorize
<1>3. CASE AdminRead(d)
  <2>1. pc = "command" BY <1>3 DEF AdminRead
  <2>2. PICK step \in {"admin-root", "admin-write"} : Goto(step) BY <1>3 DEF AdminRead
  <2>3. Onward /\ pc' = step BY <2>1, <2>2, GoesOn DEF Steps
  <2>4. /\ loc'.admin = loc.admin /\ loc'.white = loc.white
        /\ loc'.explicit = loc.explicit /\ loc'.reply = loc.reply
    BY <1>0, <1>3 DEF AdminRead, LocalType
  <2>5. Course' /\ Evidence' BY <2>1, <2>2, <2>3, <2>4, SeenStays DEF Course, Evidence, Deciding, Onward
  <2>6. QED BY <2>3, <2>5 DEF Onward
<1>4. CASE RootCheck(d)
  <2>1. CASE Skip(TRUE) BY <2>1, Skipped
  <2>2. CASE Goto("admin-write") /\ UNCHANGED loc
    <3>1. pc = "admin-root" BY <1>4 DEF RootCheck
    <3>2. Onward /\ pc' = "admin-write" BY <2>2, <3>1, GoesOn DEF Steps
    <3>3. Course' /\ Evidence' BY <2>2, <3>1, <3>2, SeenStays DEF Course, Evidence, Deciding, Onward
    <3>4. QED BY <3>2, <3>3 DEF Onward
  <2>3. QED BY <1>4, <2>1, <2>2 DEF RootCheck
<1>5. QED BY <1>1, <1>2, <1>3, <1>4

LEMMA WhitelistSound ==
  ASSUME TypeOK, Sound, NEW d \in seen', seen \subseteq seen', ReadWhitelist(d)
  PROVE  Sound'
<1> USE DEF Sound
<1> DEFINE a == msg.chat \in ChatsWith(d, "reply")
           b == a \/ UserIds(msg.user) \cap ChatsWith(d, "reply") # {}
<1>1. loc \in LocalType BY TypeParts DEF HookTypes
<1>2. pc = "whitelist" BY DEF ReadWhitelist
<1>3. loc' = [loc EXCEPT !.explicit = a, !.white = b] BY Zenon DEF ReadWhitelist
<1>4. PICK step \in {"research", "gate"} :
        Goto(step) /\ (step = "research" <=> msg.cmd = "keyword-research")
  BY DEF ReadWhitelist
<1>5. Onward /\ pc' = step BY <1>2, <1>4, GoesOn DEF Steps
<1>6. a => ChatSeen' BY <1>5 DEF ChatSeen, Onward
<1>7. b => ReplySeen' BY <1>5 DEF ReplySeen, ReplyAllowed, Onward
<1> HIDE DEF a, b
<1>8. loc'.explicit = a /\ loc'.white = b /\ loc'.admin = loc.admin /\ loc'.reply = loc.reply
  BY <1>1, <1>3 DEF LocalType
<1>9. Course' BY <1>4, <1>5 DEF Course, Deciding, Onward
<1>10. Evidence' BY <1>4, <1>5, <1>6, <1>7, <1>8, SeenStays DEF Evidence, Onward
<1>11. QED BY <1>5, <1>9, <1>10 DEF Onward

LEMMA GateSound ==
  ASSUME TypeOK, Sound, NEW d \in seen', seen \subseteq seen', Gate(d)
  PROVE  Sound'
<1> USE DEF Sound
<1> DEFINE exempt == IsGroup(msg.chat) /\ msg.chat \in ChatsWith(d, "no_mention")
           asked == ~IsGroup(msg.chat) \/ msg.mention \in {"bot", "both"} \/ (exempt /\ loc.explicit)
           others == IsGroup(msg.chat) /\ msg.mention \in {"other", "both"}
           r == loc.white /\ asked /\ ~others
<1>1. loc \in LocalType /\ msg \in Messages BY TypeParts DEF HookTypes
<1>2. pc = "gate" BY DEF Gate
<1>3. Onward /\ pc' = "pause" BY <1>2, GoesOn DEF Gate, Steps
<1>4. loc' = [loc EXCEPT !.reply = r] BY DEF Gate
<1>5. exempt => ExemptSeen' BY <1>3 DEF ExemptSeen, Onward
<1>6. r => ReplySeen BY DEF Evidence
<1>7. ASSUME r, IsGroup(msg.chat)
      PROVE  msg.mention \in {"none", "bot"} /\ (msg.mention = "bot" \/ (ExemptSeen' /\ ChatSeen'))
  <2>1. msg.mention \in {"none", "bot"} BY <1>1, <1>7, MessageFields
  <2>2. msg.mention = "bot" \/ (exempt /\ loc.explicit) BY <1>7, <2>1
  <2>3. loc.explicit => ChatSeen' BY <1>3, SeenStays DEF Evidence, Onward
  <2>4. QED BY <1>5, <2>1, <2>2, <2>3
<1>8. r => Heard' BY <1>3, <1>7 DEF Heard, Onward
<1> HIDE DEF r
<1>9. loc'.reply = r /\ loc'.admin = loc.admin /\ loc'.white = loc.white /\ loc'.explicit = loc.explicit
  BY <1>1, <1>4 DEF LocalType
<1>10. Course' BY <1>2, <1>3 DEF Course, Deciding, Onward
<1>11. Evidence' BY <1>3, <1>6, <1>8, <1>9, SeenStays DEF Evidence, Onward
<1>12. QED BY <1>3, <1>10, <1>11 DEF Onward

LEMMA PauseSound ==
  ASSUME TypeOK, Sound, NEW d \in seen', seen \subseteq seen', Pause(d)
  PROVE  Sound'
<1> USE DEF Sound
<1> DEFINE p == IsPaused(d, msg.chat)
<1>1. loc \in LocalType BY TypeParts DEF HookTypes
<1>2. pc = "pause" BY DEF Pause
<1>3. loc' = [loc EXCEPT !.paused = IsPaused(cfg, msg.chat)] BY DEF Pause
<1>4. /\ loc'.admin = loc.admin /\ loc'.white = loc.white
      /\ loc'.explicit = loc.explicit /\ loc'.reply = loc.reply
  BY <1>1, <1>3 DEF LocalType
<1>5. PICK step \in {"resolve", "key"} : Goto(step) /\ (step = "resolve" => loc.reply /\ ~p)
  BY DEF Pause
<1>6. Onward /\ pc' = step BY <1>2, <1>5, GoesOn DEF Steps
<1>7. ~p => UnpausedSeen' BY <1>6 DEF UnpausedSeen, Onward
<1>8. Course' BY <1>2, <1>5, <1>6 DEF Course, Deciding, Onward
<1>9. Evidence' BY <1>4, <1>5, <1>6, <1>7, SeenStays DEF Evidence, Onward
<1>10. QED BY <1>6, <1>8, <1>9 DEF Onward

LEMMA StampSound ==
  ASSUME TypeOK, Sound, NEW d \in seen', seen \subseteq seen',
         Resolve(d) \/ AllowlistFails(d) \/ Stamp(d)
  PROVE  Sound'
<1> USE DEF Sound
<1>1. pc \in {"resolve", "stamp"} /\ msg' = msg
  BY DEF Resolve, AllowlistFails, Stamp, Goto, ToAgent, Return
<1>2. loc.reply /\ UnpausedSeen' /\ ReplySeen' /\ Heard' BY <1>1, SeenStays DEF Evidence
<1>3. CASE Resolve(d) \/ AllowlistFails(d)
  <2>1. PICK step \in {"stamp", "key"} : Goto(step) BY <1>3 DEF Resolve, AllowlistFails
  <2>2. Onward /\ pc' = step BY <1>1, <2>1, GoesOn DEF Steps
  <2>3. loc' = loc BY <1>3 DEF Resolve, AllowlistFails
  <2>4. Course' BY <1>1, <2>1, <2>2 DEF Course, Deciding, Onward
  <2>5. Evidence' BY <1>2, <2>2, <2>3, <2>1, SeenStays DEF Evidence, Onward
  <2>6. QED BY <2>2, <2>4, <2>5 DEF Onward
<1>4. CASE Stamp(d)
  <2>1. pc' = "idle" /\ loc' = NoLocals BY <1>4 DEF Stamp, ToAgent, Return
  <2>2. OnlyWhereAllowed' BY <1>2 DEF OnlyWhereAllowed, ReplySeen
  <2>3. NotOverheard' BY <1>2 DEF NotOverheard, Heard, ExemptSeen, ChatSeen
  <2>4. PausedSilent' BY <1>2 DEF PausedSilent, UnpausedSeen
  <2>5. SeenNow' /\ Course' /\ Evidence'
    BY <2>1 DEF SeenNow, Course, Deciding, Evidence, NoLocals
  <2>6. QED BY <2>2, <2>3, <2>4, <2>5 DEF Answered
<1>5. QED BY <1>3, <1>4

LEMMA SaveSound ==
  ASSUME TypeOK, Sound, NEW d \in seen', seen \subseteq seen', BuildKey(d) \/ ScopedDb(d) \/ Append(d)
  PROVE  Sound'
<1> USE DEF Sound
<1>1. loc \in LocalType BY TypeParts DEF HookTypes
<1>2. CASE BuildKey(d) \/ ScopedDb(d)
  <2>1. PICK step \in {"db", "append"} : Goto(step) BY <1>2 DEF BuildKey, ScopedDb
  <2>2. pc \in {"key", "db"} BY <1>2 DEF BuildKey, ScopedDb
  <2>3. Onward /\ pc' = step BY <2>1, <2>2, GoesOn DEF Steps
  <2>4. /\ loc'.admin = loc.admin /\ loc'.white = loc.white
        /\ loc'.explicit = loc.explicit /\ loc'.reply = loc.reply
    BY <1>1, <1>2 DEF BuildKey, ScopedDb, LocalType
  <2>5. Course' BY <2>1, <2>2, <2>3 DEF Course, Deciding, Onward
  <2>6. Evidence' BY <2>1, <2>2, <2>3, <2>4, SeenStays DEF Evidence, Onward
  <2>7. QED BY <2>3, <2>5, <2>6 DEF Onward
<1>3. CASE Append(d)
  <2>1. pc' = "idle" /\ loc' = NoLocals /\ out'.verdict = "saved" BY <1>3 DEF Append, Return, NoOutcome
  <2>2. QED BY <2>1, NothingDone
<1>4. QED BY <1>2, <1>3

(* An admin's research, or one in an allowed chat, goes to the agent.       *)
LEMMA EndSound ==
  ASSUME TypeOK, Sound, Ends
  PROVE  Sound'
<1> USE DEF Sound
<1>1. ASSUME NEW sent, Skip(sent) PROVE Sound' BY <1>1, Skipped
<1>2. CASE Research /\ (loc.white \/ loc.admin) /\ ToAgent("default", TRUE)
  <2>1. pc = "research" /\ msg.cmd = "keyword-research" BY <1>2 DEF Research, Course
  <2>2. pc' = "idle" /\ loc' = NoLocals /\ UNCHANGED <<msg, seen, cfg>>
    BY <1>2, EndsOnly DEF ToAgent, Return
  <2>3. ReplySeen \/ AdminSeen BY <1>2 DEF Evidence
  <2>4. OnlyWhereAllowed' BY <2>1, <2>2, <2>3 DEF OnlyWhereAllowed, ReplySeen, AdminSeen
  <2>5. NotOverheard' /\ PausedSilent' BY <2>1, <2>2 DEF NotOverheard, PausedSilent
  <2>6. SeenNow' /\ Course' /\ Evidence'
    BY <2>2 DEF SeenNow, Course, Deciding, Evidence, NoLocals
  <2>7. QED BY <2>4, <2>5, <2>6 DEF Answered
<1>3. QED BY <1>1, <1>2 DEF Ends, Usage, Research, HookFails

LEMMA OthersSound ==
  ASSUME TypeOK, Sound, (\E m \in Messages : Arrive(m)) \/ (\E call \in Edits : Edit(call))
                          \/ Touch \/ Restart \/ UNCHANGED vars
  PROVE  Sound'
<1> USE DEF Sound
<1>1. ASSUME NEW m \in Messages, Arrive(m) PROVE Sound'
  <2>1. pc = "idle" /\ pc' = "identify" /\ loc' = NoLocals /\ cfg' \in seen'
    BY <1>1 DEF Arrive, Course
  <2>2. SeenNow' /\ Answered' BY <2>1, NotBack DEF SeenNow
  <2>3. Course' /\ Evidence' BY <2>1 DEF Course, Evidence, Deciding, NoLocals
  <2>4. QED BY <2>2, <2>3
<1>2. ASSUME NEW call, Edit(call) \/ Touch PROVE Sound'
  <2>1. seen \subseteq seen' /\ UNCHANGED <<pc, msg, loc, out>> /\ SeenNow'
    BY <1>2 DEF Edit, Touch, SeenNow
  <2>2. Course' /\ Evidence' BY <2>1, SeenStays DEF Course, Evidence
  <2>3. CASE pc = "idle"
    <3>1. seen' = seen BY <1>2, <2>3 DEF Edit, Touch
    <3>2. Answered' BY <2>1, <3>1 DEF Answered, OnlyWhereAllowed, NotOverheard, PausedSilent, Done
    <3>3. QED BY <2>1, <2>2, <3>2
  <2>4. CASE pc # "idle" BY <2>1, <2>2, <2>4, NotBack
  <2>5. QED BY <2>3, <2>4
<1>3. CASE Restart
  <2>1. pc' = "idle" /\ loc' = NoLocals /\ out'.verdict = "none" BY <1>3 DEF Restart, NoOutcome
  <2>2. QED BY <2>1, NothingDone
<1>4. CASE UNCHANGED vars
  <2>1. UNCHANGED <<cfg, pc, msg, loc, out, seen>> BY <1>4 DEF vars
  <2>2. SeenNow' /\ Course' /\ Evidence' BY <2>1, SeenStays DEF SeenNow, Course, Evidence
  <2>3. Answered' BY <2>1 DEF Answered, OnlyWhereAllowed, NotOverheard, PausedSilent, Done
  <2>4. QED BY <2>2, <2>3
<1>5. QED BY <1>1, <1>2, <1>3, <1>4

LEMMA SoundStep ==
  ASSUME TypeOK, Sound, [Next]_vars
  PROVE  Sound'
<1>1. CASE Commands
  <2>1. pc' = "idle" /\ loc' = NoLocals /\ out'.verdict # "agent" BY <1>1, CommandWrites
  <2>2. QED BY <2>1, NothingDone
<1>2. ASSUME NEW d, Read(d) PROVE Sound'
  <2>1. ReadSteps(d) /\ d \in seen' /\ seen \subseteq seen' BY <1>2, ReadSees
  <2>2. QED
    BY <2>1, IdentitySound, WhitelistSound, GateSound, PauseSound, StampSound, SaveSound DEF ReadSteps
<1>3. QED BY <1>1, <1>2, EndSound, OthersSound, StepCases DEF Next, Reads

LEMMA SoundInvariant == Spec => []Sound
<1>1. Init => Sound
  BY DEF Init, Sound, SeenNow, Course, Deciding, Evidence, NoLocals, NoOutcome,
         Answered, OnlyWhereAllowed, NotOverheard, PausedSilent, Done
<1>2. QED BY <1>1, SoundStep, TypeCorrect, PTL DEF Spec

(* The bot "only replies where you allow", except that an admin's           *)
(* /keyword-research is let through (the whitelist of the hook).           *)
THEOREM RepliesWhereAllowed == Spec => []OnlyWhereAllowed
<1>1. Sound => OnlyWhereAllowed BY DEF Sound, Answered
<1>2. QED BY <1>1, SoundInvariant, PTL

(* In a group, the agent gets what is meant for the bot (the mention gate). *)
THEOREM HearsItsOwn == Spec => []NotOverheard
<1>1. Sound => NotOverheard BY DEF Sound, Answered
<1>2. QED BY <1>1, SoundInvariant, PTL

(* A chat that is paused all along gets no reply (is_manually_paused).      *)
THEOREM PausesHold == Spec => []PausedSilent
<1>1. Sound => PausedSilent BY DEF Sound, Answered
<1>2. QED BY <1>1, SoundInvariant, PTL

(* Nobody but an admin changes config.yaml by a message (the commands).     *)
THEOREM AdminsEdit == Spec => EditsByAdmins
<1>1. TypeOK /\ Sound /\ [Next]_vars
        => [cfg' # cfg /\ pc' # pc => \E d \in seen : IsAdmin(d, msg.user)]_vars
  <2> SUFFICES ASSUME TypeOK, Sound, Next, cfg' # cfg, pc' # pc
               PROVE  \E d \in seen : IsAdmin(d, msg.user)
    BY DEF vars
  <2>1. ASSUME NEW m \in Messages, Arrive(m) PROVE FALSE BY <2>1 DEF Arrive
  <2>2. CASE Reads BY <2>2, ReadsOnly
  <2>3. CASE Commands
    <3>1. pc \in {"command", "admin-write"} BY <2>3, CommandWrites
    <3>2. QED BY <3>1 DEF Sound, Evidence, AdminSeen
  <2>4. ASSUME NEW call, Edit(call) \/ Touch PROVE FALSE BY <2>4 DEF Edit, Touch
  <2>5. CASE Restart BY <2>5 DEF Restart
  <2>6. QED BY <2>1, <2>2, <2>3, <2>4, <2>5, StepCases DEF Next
<1>2. QED BY <1>1, SoundInvariant, TypeCorrect, PTL DEF Spec, EditsByAdmins

-----------------------------------------------------------------------------
(* /admin writes back a list it has read: one that config.yaml held during   *)
(* the dispatch, or the empty one of a failed read.                         *)

ListRead == pc \in {"admin-root", "admin-write"} => \E d \in seen : loc.extra = d.extra

LEMMA ListReadStep ==
  ASSUME TypeOK, SeenNow, ListRead, [Next]_vars
  PROVE  ListRead'
<1>1. ASSUME NEW m, Arrive(m) PROVE ListRead' BY <1>1 DEF Arrive, ListRead
<1>2. ASSUME NEW d \in seen', seen \subseteq seen', ReadSteps(d) PROVE ListRead'
  <2>1. CASE AdminRead(d)
    <3>1. loc \in LocalType BY TypeParts DEF HookTypes
    <3>2. loc'.extra = d.extra BY <2>1, <3>1 DEF AdminRead, LocalType
    <3>3. QED BY <1>2, <3>2 DEF ListRead
  <2>2. CASE RootCheck(d)
    <3>1. CASE pc = "admin-root" /\ loc' = loc BY <1>2, <3>1 DEF ListRead
    <3>2. CASE Skip(TRUE) BY <3>2 DEF Skip, Return, ListRead
    <3>3. QED BY <2>2, <3>1, <3>2 DEF RootCheck
  <2>3. CASE Identify(d) \/ Authorize(d)
    BY <2>3 DEF Identify, Authorize, Skip, Return, Goto, ListRead
  <2>4. CASE Stamp(d) \/ Append(d) BY <2>4 DEF Stamp, Append, ToAgent, Return, ListRead
  <2>5. CASE ReadWhitelist(d) \/ Gate(d) \/ BuildKey(d) \/ ScopedDb(d)
    BY <2>5 DEF ReadWhitelist, Gate, BuildKey, ScopedDb, Goto, ListRead
  <2>6. CASE Pause(d) \/ Resolve(d) \/ AllowlistFails(d)
    BY <2>6 DEF Pause, Resolve, AllowlistFails, Goto, ListRead
  <2>7. QED BY <1>2, <2>1, <2>2, <2>3, <2>4, <2>5, <2>6 DEF ReadSteps
<1>3. CASE Commands BY <1>3, CommandWrites DEF ListRead
<1>5. CASE Ends BY <1>5 DEF Ends, Usage, Research, HookFails, ToAgent, Skip, Return, ListRead
<1>8. ASSUME NEW call, Edit(call) \/ Touch PROVE ListRead'
  <2>1. seen \subseteq seen' /\ pc' = pc /\ loc' = loc BY <1>8 DEF Edit, Touch
  <2>2. QED BY <2>1 DEF ListRead
<1>9. CASE Restart BY <1>9 DEF Restart, ListRead
<1>10. CASE UNCHANGED vars BY <1>10 DEF vars, ListRead
<1>11. QED BY <1>1, <1>2, <1>3, <1>5, <1>8, <1>9, <1>10, StepCases, ReadSees DEF Next, Reads

(* The chat commands leave the admins alone.                               *)
LEMMA FieldKeepsAdmins ==
  ASSUME NEW d, NEW c, NEW f, NEW v, NEW create \in BOOLEAN
  PROVE  Apply(d, SetField(c, f, v, create)).extra = d.extra
BY DEF Apply, SetField, SetRouteFields, WithRoutes

LEMMA ListWritten ==
  ASSUME NEW d, NEW list
  PROVE  Apply(d, [op |-> "set_admins", passed |-> [extra |-> list]]).extra = list
BY DEF Apply, SetAdmins

(* What a command makes of the admin list: itself, or the list it read with *)
(* the target put in or taken out.                                         *)
LEMMA CommandLists ==
  ASSUME Commands
  PROVE  \/ cfg'.extra = cfg.extra
         \/ pc = "admin-write" /\ cfg'.extra \in {loc.extra \cup {msg.target}, loc.extra \ {msg.target}}
<1>1. CASE WhitelistCommand \/ NoMentionCommand
  <2>1. ASSUME NEW f, Write(SetField(msg.target, f, Flag(msg.act), TRUE))
        PROVE  cfg'.extra = cfg.extra
    <3>1. Apply(cfg, SetField(msg.target, f, Flag(msg.act), TRUE)).extra = cfg.extra
      BY FieldKeepsAdmins
    <3>2. cfg' \in {Apply(cfg, SetField(msg.target, f, Flag(msg.act), TRUE)), cfg}
      BY <2>1 DEF Write
    <3>3. QED BY <3>1, <3>2
  <2>2. QED BY <1>1, <2>1 DEF WhitelistCommand, NoMentionCommand
<1>2. CASE AdminWrite
  <2> DEFINE list == IF msg.act = "add" THEN loc.extra \cup {msg.target} ELSE loc.extra \ {msg.target}
  <2>1. Write([op |-> "set_admins", passed |-> [extra |-> list]]) BY <1>2 DEF AdminWrite
  <2>2. cfg'.extra \in {cfg.extra, list}
    <3> HIDE DEF list
    <3> QED BY <2>1, ListWritten DEF Write
  <2>3. QED BY <1>2, <2>2 DEF AdminWrite
<1>3. QED BY <1>1, <1>2 DEF Commands

(* /admin lists or unlists nobody whom the others left alone meanwhile      *)
(* (set_admins, as the hook calls it).                                     *)
THEOREM AdminsStay == Spec => AdminsKept
<1> DEFINE kept ==
      cfg' # cfg /\ pc' # pc =>
        \A a \in Jids : (a \in cfg'.extra) # (a \in cfg.extra) =>
          a = msg.target \/ \E d, e \in seen : a \in d.extra /\ a \notin e.extra
<1>1. TypeOK /\ Sound /\ ListRead /\ [Next]_vars => [kept]_vars
  <2> SUFFICES ASSUME TypeOK, Sound, ListRead, Next, cfg' # cfg, pc' # pc,
                      NEW a \in Jids, (a \in cfg'.extra) # (a \in cfg.extra), a # msg.target
               PROVE  \E d, e \in seen : a \in d.extra /\ a \notin e.extra
    BY DEF vars
  <2>1. ASSUME NEW m \in Messages, Arrive(m) PROVE FALSE BY <2>1 DEF Arrive
  <2>2. CASE Reads BY <2>2, ReadsOnly
  <2>3. CASE Commands
    <3>1. pc = "admin-write" /\ cfg'.extra \in {loc.extra \cup {msg.target}, loc.extra \ {msg.target}}
      BY <2>3, CommandLists
    <3>2. (a \in cfg'.extra) <=> (a \in loc.extra) BY <3>1
    <3>3. PICK read \in seen : loc.extra = read.extra BY <3>1 DEF ListRead
    <3>4. cfg \in seen BY <3>1 DEF Sound, SeenNow
    <3>5. (a \in read.extra) # (a \in cfg.extra) BY <3>2, <3>3
    <3>6. QED BY <3>3, <3>4, <3>5
  <2>4. ASSUME NEW call, Edit(call) \/ Touch PROVE FALSE BY <2>4 DEF Edit, Touch
  <2>5. CASE Restart BY <2>5 DEF Restart
  <2>6. QED BY <2>1, <2>2, <2>3, <2>4, <2>5, StepCases DEF Next
<1>2. Sound => SeenNow BY DEF Sound
<1>3. Init => ListRead BY DEF Init, ListRead
<1>4. QED BY <1>1, <1>2, <1>3, ListReadStep, SoundInvariant, TypeCorrect, PTL DEF Spec, AdminsKept

-----------------------------------------------------------------------------
(* A group member who is no admin is turned away at the first step.         *)

Outsider ==
  /\ IsGroup(msg.chat) /\ IsSlash(msg)
  /\ \A d \in seen : ~IsAdmin(d, msg.user)

Unnoticed ==
  Outsider => /\ pc \in {"idle", "identify"}
              /\ pc = "idle" => out.verdict = "none" \/ (out.verdict = "skip" /\ ~out.sent)

LEMMA OutsiderBefore ==
  ASSUME seen \subseteq seen', msg' = msg, Outsider'
  PROVE  Outsider
BY Zenon DEF Outsider

LEMMA UnnoticedStep ==
  ASSUME Sound, Unnoticed, [Next]_vars
  PROVE  Unnoticed'
<1>1. ASSUME NEW m, Arrive(m) PROVE Unnoticed' BY <1>1 DEF Arrive, Unnoticed
<1>2. CASE Step
  <2> SUFFICES ASSUME Outsider' PROVE Unnoticed'
    BY DEF Unnoticed
  <2>1. seen \subseteq seen' /\ msg' = msg
    BY <1>2, StepCases, ReadsOnly, CommandWrites
  <2>2. Outsider BY <2>1, OutsiderBefore
  <2>3. pc \in {"idle", "identify"} BY <2>2 DEF Unnoticed
  <2>4. CASE Ends
    <3>1. HookFails BY <2>3, <2>4 DEF Ends, Usage, Research
    <3>2. QED BY <3>1 DEF HookFails, Skip, Return, NoOutcome, Unnoticed
  <2>5. ASSUME NEW d \in seen', ReadSteps(d) PROVE Unnoticed'
    <3>1. Identify(d)
      BY <2>3, <2>5 DEF ReadSteps, Identify, Authorize, AdminRead, RootCheck, ReadWhitelist, Gate, Pause,
         Resolve, AllowlistFails, Stamp, BuildKey, ScopedDb, Append
    <3>2. ~IsAdmin(d, msg.user) BY <2>1, <2>5 DEF Outsider
    <3>3. Skip(FALSE) BY <2>2, <3>1, <3>2 DEF Identify, Outsider
    <3>4. QED BY <3>3 DEF Skip, Return, NoOutcome, Unnoticed
  <2>6. CASE Commands BY <2>3, <2>6, CommandWrites
  <2>7. QED BY <1>2, <2>4, <2>5, <2>6, StepCases, ReadSees DEF Reads
<1>3. ASSUME NEW call, Edit(call) \/ Touch PROVE Unnoticed'
  <2>1. seen \subseteq seen' /\ UNCHANGED <<pc, msg, out>> BY <1>3 DEF Edit, Touch
  <2>2. QED BY <2>1, OutsiderBefore DEF Unnoticed
<1>4. CASE Restart BY <1>4 DEF Restart, NoOutcome, Unnoticed
<1>5. CASE UNCHANGED vars
  <2>1. seen' = seen /\ UNCHANGED <<pc, msg, out>> BY <1>5 DEF vars
  <2>2. QED BY <2>1, OutsiderBefore DEF Unnoticed
<1>6. QED BY <1>1, <1>2, <1>3, <1>4, <1>5 DEF Next

(* A group member who is no admin gets no sign of life for a slash command  *)
(* (the strict stealth boundary).                                          *)
THEOREM StaysStealthy == Spec => []Stealth
<1>1. Init => Unnoticed BY DEF Init, NoOutcome, Unnoticed
<1>2. Unnoticed => Stealth BY DEF Unnoticed, Outsider, Stealth
<1>3. QED BY <1>1, <1>2, UnnoticedStep, SoundInvariant, PTL DEF Spec

-----------------------------------------------------------------------------
(* A plain message that the settings let through passes every gate.         *)

Welcome ==
  /\ msg.cmd = "text"
  /\ \A d \in seen : ReplyAllowed(d, msg) /\ ~IsPaused(d, msg.chat)
  /\ IsGroup(msg.chat) =>
       /\ msg.mention = "bot"
       /\ \A d \in seen : AllowedInGroup(Resolved(d, msg.chat), msg.chat)

LetIn ==
  Welcome => /\ pc = "gate" => loc.white
             /\ pc = "pause" => loc.reply
             /\ pc \notin {"key", "db", "append"}
             /\ ~Done("saved")

LEMMA WelcomeBefore ==
  ASSUME seen \subseteq seen', msg' = msg, Welcome'
  PROVE  Welcome
BY Zenon DEF Welcome

LEMMA EmptyAllowsNone ==
  \A m, u, f : /\ ~ReplyAllowed(EmptyDoc, m) /\ ~IsAdmin(EmptyDoc, u)
               /\ ChatsWith(EmptyDoc, f) = {}
BY DEF ReplyAllowed, IsAdmin, Admins, ChatsWith, EmptyDoc

LEMMA GatesOpen ==
  ASSUME TypeOK, Sound, LetIn, Welcome, Welcome', NEW d, Read(d)
  PROVE  LetIn'
<1>0. ReadSteps(d) /\ d \in seen' /\ msg' = msg BY ReadSees, ReadStepsOnly
<1>1. loc \in LocalType BY TypeParts DEF HookTypes
<1>4. /\ ReplyAllowed(d, msg) /\ ~IsPaused(d, msg.chat) /\ msg.cmd = "text"
      /\ IsGroup(msg.chat) => msg.mention = "bot" /\ AllowedInGroup(Resolved(d, msg.chat), msg.chat)
  BY <1>0 DEF Welcome
<1>5. ASSUME NEW sent, Skip(sent) PROVE LetIn'
  BY <1>5 DEF Skip, Return, NoOutcome, LetIn, Done
<1>6. ASSUME NEW stamp, NEW sent, ToAgent(stamp, sent) PROVE LetIn'
  BY <1>6 DEF ToAgent, Return, NoOutcome, LetIn, Done
<1>7. CASE Identify(d) \/ Authorize(d) \/ RootCheck(d)
  BY <1>5, <1>7 DEF Identify, Authorize, RootCheck, Goto, LetIn, Done
<1>8. CASE AdminRead(d) BY <1>8 DEF AdminRead, Goto, LetIn, Done
<1>9. CASE ReadWhitelist(d)
  <2> DEFINE a == msg.chat \in ChatsWith(d, "reply")
             b == a \/ UserIds(msg.user) \cap ChatsWith(d, "reply") # {}
  <2>1. loc' = [loc EXCEPT !.explicit = a, !.white = b] /\ pc' = "gate"
    BY <1>4, <1>9 DEF ReadWhitelist, Goto
  <2>2. b BY <1>4 DEF ReplyAllowed
  <2> HIDE DEF a, b
  <2>3. loc'.white BY <1>1, <2>1, <2>2 DEF LocalType
  <2>4. QED BY <2>1, <2>3 DEF LetIn, Done
<1>11. CASE Gate(d)
  <2>1. loc.white BY <1>11 DEF LetIn, Gate
  <2>2. pc' = "pause" /\ loc'.reply BY <1>1, <1>4, <1>11, <2>1 DEF Gate, Goto, LocalType
  <2>3. QED BY <2>2 DEF LetIn, Done
<1>12. CASE Pause(d)
  <2>1. loc.reply BY <1>12 DEF LetIn, Pause
  <2>2. pc' = "resolve" BY <1>4, <1>12, <2>1 DEF Pause, Goto
  <2>3. QED BY <2>2 DEF LetIn, Done
<1>13. CASE Resolve(d)
  <2>1. pc' = "stamp" BY <1>4, <1>13 DEF Resolve, Goto
  <2>2. QED BY <2>1 DEF LetIn, Done
<1>14. CASE Stamp(d) BY <1>6, <1>14 DEF Stamp
<1>15. CASE BuildKey(d) \/ ScopedDb(d) \/ Append(d)
  BY <1>15 DEF BuildKey, ScopedDb, Append, LetIn
<1>16. CASE SafetyUnread(d)
  <2>1. EmptyDoc \in seen' BY <1>16 DEF SafetyUnread, Sees
  <2>2. ReplyAllowed(EmptyDoc, msg) BY <1>0, <2>1 DEF Welcome
  <2>3. QED BY <2>2, EmptyAllowsNone
<1>17. QED
  BY <1>7, <1>8, <1>9, <1>11, <1>12, <1>13, <1>14, <1>15, <1>16 DEF Read, CachedRead, ProfileRead

LEMMA LetInStep ==
  ASSUME TypeOK, Sound, LetIn, [Next]_vars
  PROVE  LetIn'
<1>1. ASSUME NEW m, Arrive(m) PROVE LetIn' BY <1>1 DEF Arrive, LetIn, Done
<1>2. ASSUME NEW d, Read(d) PROVE LetIn'
  <2>1. seen \subseteq seen' /\ msg' = msg BY <1>2, ReadSees, ReadStepsOnly
  <2>2. CASE Welcome' BY <1>2, <2>1, <2>2, WelcomeBefore, GatesOpen
  <2>3. CASE ~Welcome' BY <2>3 DEF LetIn
  <2>4. QED BY <2>2, <2>3
<1>3. CASE Commands BY <1>3, CommandWrites DEF LetIn, Done
<1>7. CASE Ends
  <2>1. ASSUME NEW sent, Skip(sent) PROVE LetIn' BY <2>1 DEF Skip, Return, NoOutcome, LetIn, Done
  <2>2. ASSUME ToAgent("default", TRUE) PROVE LetIn'
    BY <2>2 DEF ToAgent, Return, NoOutcome, LetIn, Done
  <2>3. QED BY <1>7, <2>1, <2>2 DEF Ends, Usage, Research, HookFails
<1>4. ASSUME NEW call, Edit(call) \/ Touch PROVE LetIn'
  <2>1. seen \subseteq seen' /\ UNCHANGED <<pc, msg, out, loc>> BY <1>4 DEF Edit, Touch
  <2>2. QED BY <2>1, WelcomeBefore DEF LetIn, Done
<1>5. CASE Restart BY <1>5 DEF Restart, NoOutcome, LetIn, Done
<1>6. CASE UNCHANGED vars
  <2>1. seen' = seen /\ UNCHANGED <<pc, msg, out, loc>> BY <1>6 DEF vars
  <2>2. QED BY <2>1, WelcomeBefore DEF LetIn, Done
<1>8. QED BY <1>1, <1>2, <1>3, <1>4, <1>5, <1>6, <1>7, StepCases DEF Next, Reads

(* A plain message that every config.yaml of its dispatch let through is    *)
(* never kept silent about (the gates of the hook).                        *)
THEOREM NeverIgnores == Spec => []NotIgnored
<1>1. Init => LetIn BY DEF Init, NoOutcome, LetIn, Done
<1>2. LetIn => NotIgnored BY DEF LetIn, Welcome, NotIgnored
<1>3. QED BY <1>1, <1>2, LetInStep, SoundInvariant, TypeCorrect, PTL DEF Spec

-----------------------------------------------------------------------------
(* While config.yaml holds still, each finding of the hook is what its one   *)
(* document says, if no read fails.                                        *)

Plain == msg.cmd \in {"text", "pause"}

Agented == Done("agent") /\ msg.cmd # "keyword-research"

Findings(d) ==
  /\ pc = "gate" => /\ loc.white = ReplyAllowed(d, msg)
                    /\ loc.explicit = (msg.chat \in ChatsWith(d, "reply"))
  /\ pc \in {"pause", "resolve", "stamp"} => loc.reply = (ReplyAllowed(d, msg) /\ ForTheBot(d, msg))
  /\ pc \in {"resolve", "stamp"} => loc.reply /\ ~IsPaused(d, msg.chat)
  /\ pc = "stamp" \/ Agented => Answerable(d, msg)
  /\ pc \in {"key", "db", "append"} \/ Done("saved") => ~Answerable(d, msg)

Untouched == \A d \in seen : seen = {d} => Findings(d)

(* Which commands come how far.                                            *)
Kinds ==
  /\ pc \in {"whitelist", "research"} => msg.cmd \notin AdminCommands \cup {"wajid", "login"}
  /\ pc = "authorize" => msg.cmd \notin {"wajid", "login"}
  /\ pc \in Deciding \/ Agented \/ Done("saved") => Plain

LEMMA KindsStep ==
  ASSUME TypeOK, Sound, Kinds, [Next]_vars
  PROVE  Kinds'
<1> USE DEF Kinds, Plain, AdminCommands, Deciding, Agented, Done
<1>0. msg \in Messages BY TypeParts DEF HookTypes
<1>1. ASSUME NEW m, Arrive(m) PROVE Kinds' BY <1>1 DEF Arrive
<1>2. ASSUME NEW sent, Skip(sent) PROVE Kinds' BY <1>2 DEF Skip, Return, NoOutcome
<1>3. ASSUME NEW d, ReadSteps(d) PROVE Kinds'
  <2>1. CASE Identify(d) \/ Authorize(d) \/ RootCheck(d)
    BY <1>2, <2>1 DEF Identify, Authorize, RootCheck, Goto
  <2>2. CASE AdminRead(d) BY <2>2 DEF AdminRead, Goto
  <2>3. CASE ReadWhitelist(d) BY <1>0, <2>3, MessageFields DEF ReadWhitelist, Goto
  <2>4. CASE Gate(d) \/ BuildKey(d) \/ ScopedDb(d) BY <2>4 DEF Gate, BuildKey, ScopedDb, Goto
  <2>5. CASE Pause(d) \/ Resolve(d) \/ AllowlistFails(d)
    BY <2>5 DEF Pause, Resolve, AllowlistFails, Goto
  <2>6. CASE Stamp(d) \/ Append(d) BY <2>6 DEF Stamp, Append, ToAgent, Return
  <2>7. QED BY <1>3, <2>1, <2>2, <2>3, <2>4, <2>5, <2>6 DEF ReadSteps
<1>4. CASE Commands BY <1>4, CommandWrites
<1>5. CASE Ends
  <2>1. CASE Research /\ ToAgent("default", TRUE)
    BY <2>1 DEF Research, ToAgent, Return, NoOutcome, Sound, Course
  <2>2. QED BY <1>2, <1>5, <2>1 DEF Ends, Usage, Research, HookFails
<1>6. ASSUME NEW call, Edit(call) \/ Touch PROVE Kinds' BY <1>6 DEF Edit, Touch
<1>7. CASE Restart BY <1>7 DEF Restart, NoOutcome
<1>8. CASE UNCHANGED vars BY <1>8 DEF vars
<1>9. QED BY <1>1, <1>3, <1>4, <1>5, <1>6, <1>7, <1>8, StepCases, ReadSees DEF Next, Reads

(* A hook that skips, and one that is at a step before the reply decision.  *)
LEMMA FindingsSkipped ==
  ASSUME NEW d, pc' = "idle", out'.verdict \in {"none", "skip"}
  PROVE  Findings(d)'
BY DEF Findings, Done, Agented

LEMMA FindingsEarly ==
  ASSUME NEW d, pc' \in {"identify", "authorize", "usage", "command", "admin-root", "admin-write",
                         "whitelist", "research"}
  PROVE  Findings(d)'
BY DEF Findings, Done, Agented

LEMMA GateFindings ==
  ASSUME TypeOK, NEW d, Findings(d), Gate(d)
  PROVE  Findings(d)'
<1>1. loc \in LocalType /\ msg \in Messages BY TypeParts DEF HookTypes
<1>2. pc = "gate" BY DEF Gate
<1> DEFINE exempt == IsGroup(msg.chat) /\ msg.chat \in ChatsWith(d, "no_mention")
           asked == ~IsGroup(msg.chat) \/ msg.mention \in {"bot", "both"} \/ (exempt /\ loc.explicit)
           others == IsGroup(msg.chat) /\ msg.mention \in {"other", "both"}
           r == loc.white /\ asked /\ ~others
<1>3. loc' = [loc EXCEPT !.reply = r] BY DEF Gate
<1>4. loc.white = ReplyAllowed(d, msg) /\ loc.explicit = (msg.chat \in ChatsWith(d, "reply"))
  BY <1>2 DEF Findings
<1>5. msg.mention \in {"none", "bot", "other", "both"} BY <1>1, MessageFields
<1>6. r = (ReplyAllowed(d, msg) /\ ForTheBot(d, msg)) BY <1>4, <1>5 DEF ForTheBot
<1> HIDE DEF r
<1>7. loc'.reply = r BY <1>1, <1>3 DEF LocalType
<1>8. pc' = "pause" /\ msg' = msg BY DEF Gate, Goto
<1>9. QED BY <1>6, <1>7, <1>8 DEF Findings, Done, Agented, ReplyAllowed, ForTheBot

LEMMA PauseFindings ==
  ASSUME TypeOK, NEW d, Findings(d), Pause(d) \/ Resolve(d)
  PROVE  Findings(d)'
<1>1. loc \in LocalType BY TypeParts DEF HookTypes
<1>2. pc \in {"pause", "resolve"} BY DEF Pause, Resolve
<1>3. loc'.reply = loc.reply BY <1>1 DEF Pause, Resolve, LocalType
<1>4. loc.reply = (ReplyAllowed(d, msg) /\ ForTheBot(d, msg)) BY <1>2 DEF Findings
<1>5. msg' = msg BY DEF Pause, Resolve, Goto
<1>6. CASE Pause(d)
  <2>1. pc' = (IF loc.reply /\ ~IsPaused(d, msg.chat) THEN "resolve" ELSE "key")
    BY <1>6 DEF Pause, Goto
  <2>2. pc' = "key" => ~Answerable(d, msg) BY <1>4, <2>1 DEF Answerable, LetsIn
  <2>3. QED BY <1>3, <1>4, <1>5, <2>1, <2>2 DEF Findings, Done, Agented
<1>7. CASE Resolve(d)
  <2>1. loc.reply /\ ~IsPaused(d, msg.chat) BY <1>7 DEF Findings, Resolve
  <2>2. pc' = (IF IsGroup(msg.chat) /\ ~AllowedInGroup(Resolved(d, msg.chat), msg.chat)
               THEN "key" ELSE "stamp")
    BY <1>7 DEF Resolve, Goto
  <2>3. pc' = "stamp" <=> Answerable(d, msg) BY <1>4, <2>1, <2>2 DEF Answerable, LetsIn
  <2>4. QED BY <1>3, <1>4, <1>5, <2>1, <2>2, <2>3 DEF Findings, Done, Agented
<1>8. QED BY <1>6, <1>7

(* The empty document routes nothing.                                      *)
LEMMA EmptyRoutes ==
  ASSUME NEW c \in Chats
  PROVE  Resolved(EmptyDoc, c) = "default"
<1>1. ASSUME NEW i \in 1 .. 3 PROVE Candidates(c)[i] \in Chats
  <2>1. Phone[c] \in Chats /\ Lid[c] \in Chats BY DispatchAssumption
  <2>2. i = 1 \/ i = 2 \/ i = 3 BY <1>1
  <2>3. QED BY <2>1, <2>2 DEF Candidates
<1>2. "profile" \in RouteFields BY DEF RouteFields
<1>3. \A i \in 1 .. 3 : FieldOf(EmptyDoc, Candidates(c)[i], "profile") = "unset"
  BY <1>1, <1>2 DEF FieldOf, EmptyDoc, Blank
<1>4. Having(EmptyDoc, c, "profile") = {} BY <1>3 DEF Having
<1>5. QED BY <1>4 DEF Resolved, ProfileFor

LEMMA Busy ==
  ASSUME NEW d, ReadSteps(d)
  PROVE  pc # "idle"
BY DEF ReadSteps, Identify, Authorize, AdminRead, RootCheck, ReadWhitelist, Gate, Pause, Resolve,
       AllowlistFails, Stamp, BuildKey, ScopedDb, Append

LEMMA ReadFindings ==
  ASSUME TypeOK, Sound, Kinds, NEW d, seen' = {d}, Findings(d), Read(d)
  PROVE  Findings(d)'
<1>1. ReadSteps(d) /\ msg' = msg BY ReadSees, ReadStepsOnly
<1>2. ASSUME NEW sent, Skip(sent) PROVE Findings(d)'
  BY <1>2, FindingsSkipped DEF Skip, Return, NoOutcome
<1>3. CASE Identify(d) \/ Authorize(d) \/ RootCheck(d)
  <2>1. ASSUME NEW step \in {"authorize", "usage", "command", "admin-write", "whitelist"}, Goto(step)
        PROVE  Findings(d)'
    BY <2>1, FindingsEarly DEF Goto
  <2>2. CASE Identify(d) BY <1>2, <2>1, <2>2 DEF Identify
  <2>3. CASE Authorize(d) BY <1>2, <2>1, <2>3 DEF Authorize
  <2>4. CASE RootCheck(d) BY <1>2, <2>1, <2>4 DEF RootCheck
  <2>5. QED BY <1>3, <2>2, <2>3, <2>4
<1>4. CASE AdminRead(d) BY <1>4, FindingsEarly DEF AdminRead, Goto
<1>5. CASE ReadWhitelist(d)
  <2> DEFINE a == msg.chat \in ChatsWith(d, "reply")
             b == a \/ UserIds(msg.user) \cap ChatsWith(d, "reply") # {}
  <2>1. loc \in LocalType BY TypeParts DEF HookTypes
  <2>2. loc' = [loc EXCEPT !.explicit = a, !.white = b] /\ pc' \in {"research", "gate"}
    BY <1>5 DEF ReadWhitelist, Goto
  <2>3. a = (msg.chat \in ChatsWith(d, "reply")) /\ b = ReplyAllowed(d, msg) BY DEF ReplyAllowed
  <2> HIDE DEF a, b
  <2>4. loc'.explicit = a /\ loc'.white = b BY <2>1, <2>2 DEF LocalType
  <2>5. QED BY <1>1, <2>2, <2>3, <2>4 DEF Findings, Done, Agented
<1>6. CASE SafetyUnread(d)
  <2>1. d = EmptyDoc BY <1>6 DEF SafetyUnread, Sees
  <2>2. Resolved(EmptyDoc, msg.chat) # "default" BY <1>6, <2>1 DEF SafetyUnread, AllowlistFails
  <2>3. msg.chat \in Chats BY TypeParts, MessageFields DEF HookTypes
  <2>4. QED BY <2>2, <2>3, EmptyRoutes
<1>7. CASE Stamp(d)
  <2>1. Answerable(d, msg) BY <1>7 DEF Stamp, Findings
  <2>2. pc' = "idle" /\ out'.verdict = "agent" BY <1>7 DEF Stamp, ToAgent, Return, NoOutcome
  <2>3. QED BY <1>1, <2>1, <2>2 DEF Findings, Done, Agented
<1>8. CASE BuildKey(d) \/ ScopedDb(d) \/ Append(d)
  <2>1. ~Answerable(d, msg) BY <1>8 DEF BuildKey, ScopedDb, Append, Findings
  <2>2. \/ pc' \in {"db", "append"}
        \/ pc' = "idle" /\ out'.verdict = "saved"
    BY <1>8 DEF BuildKey, ScopedDb, Append, Goto, Return, NoOutcome
  <2>3. QED BY <1>1, <2>1, <2>2 DEF Findings, Done, Agented
<1>9. QED
  BY <1>3, <1>4, <1>5, <1>6, <1>7, <1>8, GateFindings, PauseFindings DEF Read, CachedRead, ProfileRead

LEMMA UntouchedStep ==
  ASSUME TypeOK, Sound, Kinds, Untouched, [Next]_vars
  PROVE  Untouched'
<1> SUFFICES ASSUME NEW d \in seen', seen' = {d} PROVE Findings(d)'
  BY DEF Untouched
<1>1. ASSUME NEW m, Arrive(m) PROVE Findings(d)' BY <1>1, FindingsEarly DEF Arrive
<1>2. ASSUME NEW e, Read(e) PROVE Findings(d)'
  <2>1. e = d /\ seen \subseteq {d} /\ pc # "idle" BY <1>2, ReadSees, Busy
  <2>2. seen = {d} BY <2>1 DEF Sound, SeenNow
  <2>3. QED BY <1>2, <2>1, <2>2, ReadFindings DEF Untouched
<1>3. CASE Commands BY <1>3, CommandWrites, FindingsSkipped
<1>4. CASE Ends
  <2>1. ASSUME NEW sent, Skip(sent) PROVE Findings(d)'
    BY <2>1, FindingsSkipped DEF Skip, Return, NoOutcome
  <2>2. CASE Research /\ ToAgent("default", TRUE)
    BY <2>2 DEF Research, ToAgent, Return, NoOutcome, Sound, Course, Findings, Done, Agented
  <2>3. QED BY <1>4, <2>1, <2>2 DEF Ends, Usage, Research, HookFails
<1>5. ASSUME NEW call, Edit(call) PROVE Findings(d)'
  <2>1. pc = "idle"
    <3>1. SUFFICES ASSUME pc # "idle" PROVE FALSE
      OBVIOUS
    <3>2. cfg \in seen' /\ cfg' \in seen' /\ cfg' # cfg BY <1>5, <3>1 DEF Edit, Sound, SeenNow
    <3>3. QED BY <3>2
  <2>2. seen = {d} /\ UNCHANGED <<pc, msg, loc, out>> BY <1>5, <2>1 DEF Edit
  <2>3. QED BY <2>2 DEF Untouched, Findings, Done, Agented
<1>6. CASE Restart BY <1>6 DEF Restart
<1>7. CASE Touch \/ UNCHANGED vars
  <2>1. seen = {d} /\ UNCHANGED <<pc, msg, loc, out>> BY <1>7 DEF Touch, vars
  <2>2. QED BY <2>1 DEF Untouched, Findings, Done, Agented
<1>8. QED BY <1>1, <1>2, <1>3, <1>4, <1>5, <1>6, <1>7, StepCases DEF Next, Reads

(* What a failed read leaves standing while config.yaml holds still: who is  *)
(* whitelisted was read from the file, so the cache holds the document from  *)
(* then on, and the pause is read from it too.                             *)
Held ==
  /\ still /\ pc # "idle" => seen \subseteq {cfg, EmptyDoc}
  /\ still /\ pc \in {"gate", "pause"} /\ loc.white => cache = "good"
  /\ pc = "pause" /\ loc.reply => loc.white
  /\ still /\ (pc \in {"resolve", "stamp"} \/ Agented) => \A d \in seen : ~IsPaused(d, msg.chat)

LEMMA HeldElsewhere ==
  ASSUME pc' \notin {"gate", "pause", "resolve", "stamp"}, ~Agented',
         still' /\ pc' # "idle" => seen' \subseteq {cfg', EmptyDoc}
  PROVE  Held'
BY DEF Held

LEMMA HeldRead ==
  ASSUME TypeOK, Sound, Held, NEW d \in {cfg, EmptyDoc}, Read(d)
  PROVE  Held'
<1>1. ReadSteps(d) /\ UNCHANGED <<cfg, msg, still>> /\ pc # "idle" BY ReadSees, ReadStepsOnly, Busy
<1>2. still => seen \subseteq {cfg, EmptyDoc} BY <1>1 DEF Held
<1>3. seen' \subseteq seen \cup {d, EmptyDoc} BY DEF Read, CachedRead, ProfileRead, SafetyUnread, Sees
<1>4. still' /\ pc' # "idle" => seen' \subseteq {cfg', EmptyDoc} BY <1>1, <1>2, <1>3
<1>5. ASSUME NEW sent, Skip(sent) PROVE Held'
  BY <1>4, <1>5, HeldElsewhere DEF Skip, Return, NoOutcome, Agented, Done
<1>6. loc \in LocalType BY TypeParts DEF HookTypes
<1>7. CASE Identify(d) \/ Authorize(d) \/ RootCheck(d)
  BY <1>4, <1>5, <1>7, HeldElsewhere DEF Identify, Authorize, RootCheck, Goto, Agented, Done
<1>8. CASE AdminRead(d) BY <1>4, <1>8, HeldElsewhere DEF AdminRead, Goto, Agented, Done
<1>9. CASE Cached(d) /\ ReadWhitelist(d)
  <2> DEFINE a == msg.chat \in ChatsWith(d, "reply")
             b == a \/ UserIds(msg.user) \cap ChatsWith(d, "reply") # {}
  <2>1. loc' = [loc EXCEPT !.explicit = a, !.white = b] /\ pc' \in {"research", "gate"}
    BY <1>9 DEF ReadWhitelist, Goto
  <2>2. b => cache' = "good"
    <3>1. b => d # EmptyDoc BY EmptyAllowsNone DEF ReplyAllowed
    <3>2. QED BY <1>9, <3>1 DEF Cached
  <2> HIDE DEF a, b
  <2>3. loc'.white = b BY <1>6, <2>1 DEF LocalType
  <2>4. QED BY <1>4, <2>1, <2>2, <2>3 DEF Held, Agented, Done
<1>10. CASE Cached(d) /\ Gate(d)
  <2> DEFINE exempt == IsGroup(msg.chat) /\ msg.chat \in ChatsWith(d, "no_mention")
             asked == ~IsGroup(msg.chat) \/ msg.mention \in {"bot", "both"} \/ (exempt /\ loc.explicit)
             others == IsGroup(msg.chat) /\ msg.mention \in {"other", "both"}
             r == loc.white /\ asked /\ ~others
  <2>1. pc = "gate" /\ pc' = "pause" /\ loc' = [loc EXCEPT !.reply = r] BY <1>10 DEF Gate, Goto
  <2>2. r => loc.white OBVIOUS
  <2> HIDE DEF r
  <2>3. loc'.reply = r /\ loc'.white = loc.white BY <1>6, <2>1 DEF LocalType
  <2>4. still /\ loc.white => cache' = "good" BY <1>10, <2>1 DEF Held, Cached
  <2>5. QED BY <1>1, <1>4, <2>1, <2>2, <2>3, <2>4 DEF Held, Agented, Done
<1>11. CASE Cached(d) /\ Pause(d)
  <2>1. pc = "pause" /\ pc' \in {"resolve", "key"} /\ (pc' = "resolve" => loc.reply /\ ~IsPaused(d, msg.chat))
    BY <1>11 DEF Pause, Goto
  <2>2. ASSUME still, pc' = "resolve" PROVE \A e \in seen' : ~IsPaused(e, msg.chat)
    <3>1. cache = "good" BY <2>1, <2>2 DEF Held
    <3>2. ~IsPaused(cfg, msg.chat) BY <1>11, <2>1, <2>2, <3>1 DEF Cached
    <3>3. ~IsPaused(EmptyDoc, msg.chat) BY EmptyAllowsNone DEF IsPaused
    <3>4. QED BY <1>2, <1>3, <2>2, <3>2, <3>3
  <2>3. QED BY <1>1, <1>4, <2>1, <2>2 DEF Held, Agented, Done
<1>12. CASE Resolve(d) \/ Stamp(d)
  <2>1. pc \in {"resolve", "stamp"} BY <1>12 DEF Resolve, Stamp
  <2>2. pc' \in {"stamp", "key", "idle"} BY <1>12 DEF Resolve, Stamp, Goto, ToAgent, Return
  <2>3. ASSUME still PROVE \A e \in seen' : ~IsPaused(e, msg.chat)
    <3>1. cfg \in seen BY <2>1 DEF Sound, SeenNow
    <3>2. ~IsPaused(cfg, msg.chat) BY <2>1, <2>3, <3>1 DEF Held
    <3>3. ~IsPaused(EmptyDoc, msg.chat) BY EmptyAllowsNone DEF IsPaused
    <3>4. QED BY <1>2, <1>3, <2>3, <3>2, <3>3
  <2>4. QED BY <1>1, <1>4, <2>2, <2>3 DEF Held
<1>13. CASE BuildKey(d) \/ ScopedDb(d) \/ Append(d) \/ AllowlistFails(d)
  BY <1>4, <1>13, HeldElsewhere
  DEF BuildKey, ScopedDb, Append, AllowlistFails, Goto, Return, NoOutcome, Agented, Done
<1>14. QED
  BY <1>7, <1>8, <1>9, <1>10, <1>11, <1>12, <1>13 DEF Read, CachedRead, ProfileRead, SafetyUnread

LEMMA HeldStep ==
  ASSUME TypeOK, Sound, Held, [Next]_vars
  PROVE  Held'
<1>1. ASSUME NEW m, Arrive(m) PROVE Held'
  <2>1. pc' = "identify" /\ seen' \subseteq {cfg, EmptyDoc} /\ cfg' = cfg BY <1>1 DEF Arrive
  <2>2. QED BY <2>1, HeldElsewhere DEF Agented, Done
<1>2. CASE Commands BY <1>2, CommandWrites, HeldElsewhere DEF Agented, Done
<1>3. CASE Ends
  <2>1. pc' = "idle" /\ ~Agented'
    BY <1>3 DEF Ends, Usage, Research, HookFails, Skip, ToAgent, Return, NoOutcome, Agented, Done,
                Sound, Course
  <2>2. QED BY <2>1, HeldElsewhere
<1>4. ASSUME NEW call, Edit(call) \/ Touch PROVE Held'
  <2>1. UNCHANGED <<pc, msg, loc, out>> /\ (pc # "idle" => still' = FALSE)
    BY <1>4 DEF Edit, Touch
  <2>2. pc = "idle" => still' = still /\ seen' = seen BY <1>4, TypeParts DEF Edit, Touch, FileTypes
  <2>3. QED BY <2>1, <2>2 DEF Held, Agented, Done
<1>5. CASE Restart BY <1>5, HeldElsewhere DEF Restart, NoOutcome, Agented, Done
<1>6. CASE UNCHANGED vars
  <2>1. UNCHANGED <<cfg, cache, pc, msg, loc, out, seen, still>> BY <1>6 DEF vars
  <2>2. QED BY <2>1 DEF Held, Agented, Done
<1>7. QED BY <1>1, <1>2, <1>3, <1>4, <1>5, <1>6, HeldRead, StepCases DEF Next, Reads

(* With config.yaml untouched during its dispatch, a message is answered or *)
(* saved by one question, and no failed read lets it past the whitelist, the *)
(* mention rule and the pause (on_pre_gateway_dispatch).                    *)
THEOREM DecidesAsConfigured == Spec => []AsConfigured
<1>1. Init => Kinds /\ Untouched /\ Held
  BY DEF Init, Kinds, Untouched, Held, Deciding, Agented, Done, NoOutcome
<1>2. TypeOK /\ Sound /\ Kinds /\ Untouched /\ Held => AsConfigured
  <2> SUFFICES ASSUME TypeOK, Sound, Kinds, Untouched, Held,
                      NEW d \in seen, still, seen \subseteq {d, EmptyDoc}
               PROVE  /\ Done("agent") => IF msg.cmd = "keyword-research"
                                          THEN ReplyAllowed(d, msg) \/ IsAdmin(d, msg.user)
                                          ELSE /\ Plain /\ LetsIn(d, msg)
                                               /\ seen = {d} => Answerable(d, msg)
                      /\ Done("saved") => Plain /\ (seen = {d} => ~Answerable(d, msg))
    BY DEF AsConfigured, Plain
  <2>1. seen = {d} => Findings(d) BY DEF Untouched
  <2>2. CASE Done("saved")
    <3>1. ~Done("agent") BY <2>2 DEF Done
    <3>2. QED BY <2>1, <2>2, <3>1 DEF Kinds, Findings
  <2>3. CASE Done("agent") /\ msg.cmd = "keyword-research"
    <3>1. ~Done("saved") BY <2>3 DEF Done
    <3>2. \/ \E e \in seen : ReplyAllowed(e, msg)
          \/ \E e \in seen : IsAdmin(e, msg.user)
      BY <2>3 DEF Sound, Answered, OnlyWhereAllowed
    <3>3. QED BY <2>3, <3>1, <3>2, EmptyAllowsNone
  <2>4. CASE Agented
    <3>1. ~Done("saved") /\ Plain BY <2>4 DEF Done, Agented, Kinds
    <3>2. ReplyAllowed(d, msg)
      <4>1. \E e \in seen : ReplyAllowed(e, msg)
        BY <2>4 DEF Agented, Sound, Answered, OnlyWhereAllowed
      <4>2. QED BY <4>1, EmptyAllowsNone
    <3>3. ForTheBot(d, msg)
      <4>1. IsGroup(msg.chat) =>
              /\ msg.mention \in {"none", "bot"}
              /\ \/ msg.mention = "bot"
                 \/ /\ \E e \in seen : msg.chat \in ChatsWith(e, "no_mention")
                    /\ \E e \in seen : msg.chat \in ChatsWith(e, "reply")
        BY <2>4 DEF Agented, Sound, Answered, NotOverheard
      <4>2. QED BY <4>1, EmptyAllowsNone DEF ForTheBot
    <3>4. ~IsPaused(d, msg.chat) BY <2>4 DEF Held
    <3>5. seen = {d} => Answerable(d, msg) BY <2>1, <2>4 DEF Findings
    <3>6. QED BY <2>4, <3>1, <3>2, <3>3, <3>4, <3>5 DEF Agented, LetsIn
  <2>5. QED BY <2>2, <2>3, <2>4 DEF Agented
<1>3. QED
  BY <1>1, <1>2, KindsStep, UntouchedStep, HeldStep, SoundInvariant, TypeCorrect, PTL DEF Spec

-----------------------------------------------------------------------------
(* The profiles the hook went by: each is the profile of the chat's route   *)
(* in a document that config.yaml held since the message arrived, or in the *)
(* empty one if a read failed.                                             *)

RouteSeen(p) == \E d \in seen : p = Resolved(d, msg.chat)

SafeSeen ==
  IsGroup(msg.chat) => \E d \in seen : AllowedInGroup(Resolved(d, msg.chat), msg.chat)

Served(p) == IF ~Multiplex THEN "default" ELSE IF p # "default" THEN p ELSE boot[msg.chat]

ServedSeen(p) == \E d \in seen : p = Served(Resolved(d, msg.chat))

DbOf(p) == IF p \in ProfileDirs THEN p ELSE "default"

DbSeen(b) == \E d \in seen : b = DbOf(Resolved(d, msg.chat))

Routing ==
  /\ pc = "stamp" \/ Agented => SafeSeen
  /\ Agented => ServedSeen(out.profile)
  /\ pc \in {"db", "append"} => RouteSeen(loc.key)
  /\ pc = "append" => DbSeen(loc.db)
  /\ Done("saved") => RouteSeen(out.key) /\ DbSeen(out.db) /\ RouteSeen(out.tag)

LEMMA NoRouting ==
  ASSUME pc' \notin {"stamp", "db", "append"}, pc' = "idle" => out'.verdict \in {"none", "skip"}
  PROVE  Routing'
BY DEF Routing, Agented, Done

LEMMA RoutesStay ==
  ASSUME seen \subseteq seen', UNCHANGED <<msg, boot>>
  PROVE  /\ SafeSeen => SafeSeen'
         /\ \A p : (RouteSeen(p) => RouteSeen(p)') /\ (DbSeen(p) => DbSeen(p)')
         /\ \A p : ServedSeen(p) => ServedSeen(p)'
BY Zenon DEF SafeSeen, RouteSeen, DbSeen, ServedSeen, Served

LEMMA RoutingRead ==
  ASSUME TypeOK, Sound, Routing, NEW d, Read(d)
  PROVE  Routing'
<1>1. loc \in LocalType BY TypeParts DEF HookTypes
<1>2. /\ ReadSteps(d) /\ d \in seen' /\ seen \subseteq seen' /\ pc # "idle"
      /\ UNCHANGED <<msg, boot>>
  BY ReadSees, ReadStepsOnly, Busy
<1>5. RouteSeen(Resolved(d, msg.chat))' BY <1>2 DEF RouteSeen, Resolved
<1>6. ASSUME NEW sent, Skip(sent) PROVE Routing'
  BY <1>6, NoRouting DEF Skip, Return, NoOutcome
<1>7. CASE Identify(d) \/ Authorize(d) \/ RootCheck(d)
  <2>1. ASSUME NEW step \in {"authorize", "usage", "command", "admin-write", "whitelist"}, Goto(step)
        PROVE  Routing'
    BY <2>1, NoRouting DEF Goto
  <2>2. CASE Identify(d) BY <1>6, <2>1, <2>2 DEF Identify
  <2>3. CASE Authorize(d) BY <1>6, <2>1, <2>3 DEF Authorize
  <2>4. CASE RootCheck(d) BY <1>6, <2>1, <2>4 DEF RootCheck
  <2>5. QED BY <1>7, <2>2, <2>3, <2>4
<1>8. CASE AdminRead(d) \/ ReadWhitelist(d) \/ Gate(d) \/ Pause(d) \/ AllowlistFails(d)
  BY <1>8, NoRouting DEF AdminRead, ReadWhitelist, Gate, Pause, AllowlistFails, Goto
<1>10. CASE Resolve(d)
  <2>1. CASE Goto("key") BY <2>1, NoRouting DEF Goto
  <2>2. CASE Goto("stamp") /\ (IsGroup(msg.chat) => AllowedInGroup(Resolved(d, msg.chat), msg.chat))
    <3>1. SafeSeen' BY <1>2, <2>2 DEF SafeSeen
    <3>2. QED BY <1>2, <2>2, <3>1 DEF Goto, Routing, Agented, Done
  <2>3. QED BY <1>10, <2>1, <2>2 DEF Resolve
<1>11. CASE Stamp(d)
  <2>1. SafeSeen' BY <1>2, <1>11, RoutesStay DEF Stamp, Routing
  <2>2. pc' = "idle" /\ out'.verdict = "agent" /\ out'.profile = Served(Resolved(d, msg.chat))
    BY <1>11 DEF Stamp, ToAgent, Return, NoOutcome, Served
  <2>3. ServedSeen(out.profile)' BY <1>2, <2>2 DEF ServedSeen, Served
  <2>4. QED BY <2>1, <2>2, <2>3 DEF Routing, Agented, Done
<1>12. CASE BuildKey(d)
  <2>1. pc' = "db" /\ loc'.key = Resolved(d, msg.chat) BY <1>1, <1>12 DEF BuildKey, Goto, LocalType
  <2>2. QED BY <1>2, <1>5, <2>1 DEF Routing, Agented, Done
<1>13. CASE ScopedDb(d)
  <2>1. pc' = "append" /\ loc'.key = loc.key /\ loc'.db = DbOf(Resolved(d, msg.chat))
    BY <1>1, <1>13 DEF ScopedDb, Goto, LocalType, DbOf
  <2>2. RouteSeen(loc.key)' BY <1>2, <1>13, <2>1, RoutesStay DEF ScopedDb, Routing
  <2>3. DbSeen(loc.db)' BY <1>2, <2>1 DEF DbSeen
  <2>4. QED BY <2>1, <2>2, <2>3 DEF Routing, Agented, Done
<1>14. CASE Append(d)
  <2>1. RouteSeen(loc.key) /\ DbSeen(loc.db) BY <1>14 DEF Append, Routing
  <2>2. /\ pc' = "idle" /\ out'.verdict = "saved"
        /\ out'.key = loc.key /\ out'.db = loc.db /\ out'.tag = Resolved(d, msg.chat)
    BY <1>14 DEF Append, Return, NoOutcome
  <2>3. QED BY <1>2, <1>5, <2>1, <2>2, RoutesStay DEF Routing, Agented, Done
<1>15. QED BY <1>2, <1>7, <1>8, <1>10, <1>11, <1>12, <1>13, <1>14 DEF ReadSteps

LEMMA RoutingStep ==
  ASSUME TypeOK, Sound, Routing, [Next]_vars
  PROVE  Routing'
<1>1. ASSUME NEW m, Arrive(m) PROVE Routing' BY <1>1, NoRouting DEF Arrive
<1>2. CASE Commands BY <1>2, CommandWrites, NoRouting
<1>3. CASE Ends
  <2>1. ASSUME NEW sent, Skip(sent) PROVE Routing'
    BY <2>1, NoRouting DEF Skip, Return, NoOutcome
  <2>2. CASE Research /\ ToAgent("default", TRUE)
    BY <2>2 DEF Research, ToAgent, Return, NoOutcome, Routing, Agented, Done, Sound, Course
  <2>3. QED BY <1>3, <2>1, <2>2 DEF Ends, Usage, Research, HookFails
<1>4. ASSUME NEW call, Edit(call) \/ Touch PROVE Routing'
  <2>1. seen \subseteq seen' /\ UNCHANGED <<pc, msg, out, loc, boot>> BY <1>4 DEF Edit, Touch
  <2>2. QED BY <2>1, RoutesStay DEF Routing, Agented, Done
<1>5. CASE Restart BY <1>5, NoRouting DEF Restart, NoOutcome
<1>6. CASE UNCHANGED vars
  <2>1. seen' = seen /\ UNCHANGED <<pc, msg, out, loc, boot>> BY <1>6 DEF vars
  <2>2. QED BY <2>1, RoutesStay DEF Routing, Agented, Done
<1>7. QED BY <1>1, <1>2, <1>3, <1>4, <1>5, <1>6, RoutingRead, StepCases DEF Next, Reads

LEMMA RoutingInvariant == Spec => []Routing
<1>1. Init => Routing BY DEF Init, NoOutcome, Routing, Agented, Done
<1>2. QED BY <1>1, RoutingStep, SoundInvariant, TypeCorrect, PTL DEF Spec

(* A chat that is routed to profiles of its own in all that the hook read    *)
(* is answered by one of them (the live stamp).                            *)
THEOREM StampsTheRoute == Spec => []RoutedProfile
<1>1. Routing => RoutedProfile
  <2> SUFFICES ASSUME Routing, Agented, \A d \in seen : Resolved(d, msg.chat) # "default"
               PROVE  \E d \in seen : out.profile = Resolved(d, msg.chat)
    BY DEF RoutedProfile, Agented
  <2>1. PICK d \in seen : out.profile = Served(Resolved(d, msg.chat)) BY DEF Routing, ServedSeen
  <2>2. Resolved(d, msg.chat) # "default" OBVIOUS
  <2>3. Multiplex BY <2>2 DEF Resolved
  <2>4. QED BY <2>1, <2>2, <2>3 DEF Served
<1>2. QED BY <1>1, RoutingInvariant, PTL

(* With a stable route, no profile that is not group-safe serves a group    *)
(* (the "hard rule").                                                      *)
THEOREM GroupsAreSafe == Spec => []GroupSafeWhenStable
<1>1. Routing => GroupSafeWhenStable
  <2> SUFFICES ASSUME Routing, Agented, IsGroup(msg.chat), StableRoute
               PROVE  AllowedInGroup(out.profile, msg.chat)
    BY DEF GroupSafeWhenStable, Agented
  <2>1. PICK d \in seen : out.profile = Served(Resolved(d, msg.chat)) BY DEF Routing, ServedSeen
  <2>2. PICK e \in seen : AllowedInGroup(Resolved(e, msg.chat), msg.chat) BY DEF Routing, SafeSeen
  <2>3. /\ Resolved(d, msg.chat) = Resolved(e, msg.chat)
        /\ Resolved(d, msg.chat) = "default" => boot[msg.chat] = "default"
    BY DEF StableRoute
  <2>4. out.profile = "default" \/ out.profile = Resolved(e, msg.chat) BY <2>1, <2>3 DEF Served
  <2>5. QED BY <2>2, <2>4 DEF AllowedInGroup
<1>2. QED BY <1>1, RoutingInvariant, PTL

(* With a stable route, a silently saved message is filed under one profile *)
(* (the silent save).                                                      *)
THEOREM RowsMatch == Spec => []RowMatches
<1>1. Routing => RowMatches
  <2> SUFFICES ASSUME Routing, Done("saved"), StableRoute, NEW d \in seen
               PROVE  /\ {out.key, out.tag} = {Resolved(d, msg.chat)}
                      /\ Resolved(d, msg.chat) \in ProfileDirs \cup {"default"}
                           => out.db = Resolved(d, msg.chat)
    BY DEF RowMatches
  <2>1. \A e \in seen : Resolved(e, msg.chat) = Resolved(d, msg.chat) BY DEF StableRoute
  <2>2. out.key = Resolved(d, msg.chat) /\ out.tag = Resolved(d, msg.chat)
    BY <2>1 DEF Routing, RouteSeen
  <2>3. out.db = DbOf(Resolved(d, msg.chat)) BY <2>1 DEF Routing, DbSeen
  <2>4. QED BY <2>2, <2>3 DEF DbOf
<1>2. QED BY <1>1, RoutingInvariant, PTL

-----------------------------------------------------------------------------
(* What is known of pauses.  The key that a resume resets is, for a chat    *)
(* with one session, the only one with messages of the pause in the default *)
(* namespace.                                                              *)

OneSession(m) == IsGroup(m.chat) => ~PerUser

DefaultKey(m) == SessionKey("default", m.chat, m.user)

MutedKnown ==
  \A m \in Messages : OneSession(m) /\ DefaultKey(m) \in muted => m.chat \in known \cup lost

PauseCourse ==
  /\ pc \in {"resolve", "stamp", "key", "db", "append"} /\ loc.paused => msg.chat \in known \cup lost
  /\ pc \in {"resolve", "stamp"} \/ Agented => msg.chat \notin known

(* Two messages of one chat share its session.                             *)
LEMMA SameKey ==
  ASSUME NEW m \in Messages, NEW n \in Messages, m.chat = n.chat, OneSession(m)
  PROVE  DefaultKey(m) = DefaultKey(n)
<1>1. CASE IsGroup(m.chat) BY <1>1 DEF OneSession, DefaultKey, SessionKey
<1>2. CASE ~IsGroup(m.chat)
  <2>1. m.user = n.user BY <1>2, DispatchAssumption DEF IsGroup
  <2>2. QED BY <2>1 DEF DefaultKey
<1>3. QED BY <1>1, <1>2

(* A key names its chat.                                                   *)
LEMMA KeyNamesChat ==
  ASSUME NEW m, NEW n, NEW p, DefaultKey(m) = SessionKey(p, n.chat, n.user)
  PROVE  m.chat = n.chat
BY DEF DefaultKey, SessionKey

LEMMA MutedStep ==
  ASSUME TypeOK, PauseCourse, MutedKnown, [Next]_vars
  PROVE  MutedKnown'
<1>1. ASSUME muted' \subseteq muted, known \cup lost \subseteq known' \cup lost' PROVE MutedKnown'
  BY <1>1 DEF MutedKnown
<1>2. msg \in Messages BY TypeParts DEF HookTypes
<1>3. ASSUME NEW m, Arrive(m) PROVE MutedKnown'
  <2>1. muted' = muted /\ known \cup lost \subseteq known' \cup lost' BY <1>3 DEF Arrive
  <2>2. QED BY <1>1, <2>1
<1>4. ASSUME NEW d, Pause(d) PROVE MutedKnown'
  <2>1. CASE Remember BY <1>1, <2>1 DEF Remember
  <2>2. ASSUME NEW fact, NoPause(fact) PROVE MutedKnown' BY <1>1, <2>2 DEF NoPause
  <2>3. ASSUME NEW fact, Resume(fact) PROVE MutedKnown'
    <3>1. CASE lost' = lost \cup {msg.chat} /\ muted' = muted
      BY <1>1, <2>3, <3>1 DEF Resume
    <3>2. CASE lost \subseteq lost' /\ muted' = muted \ {DefaultKey(msg)}
      <4> SUFFICES ASSUME NEW m \in Messages, OneSession(m), DefaultKey(m) \in muted'
                   PROVE  m.chat \in known' \cup lost'
        BY DEF MutedKnown
      <4>1. m.chat \in known \cup lost BY <3>2 DEF MutedKnown
      <4>2. DefaultKey(m) # DefaultKey(msg) BY <3>2
      <4>3. m.chat # msg.chat BY <1>2, <4>2, SameKey
      <4>4. QED BY <2>3, <3>2, <4>1, <4>3 DEF Resume
    <3>3. QED BY <2>3, <3>1, <3>2 DEF Resume, DefaultKey
  <2>4. QED BY <1>4, <2>1, <2>2, <2>3 DEF Pause
<1>5. ASSUME NEW d, Append(d) PROVE MutedKnown'
  <2>1. CASE loc.paused /\ muted' = muted \cup {SessionKey(loc.key, msg.chat, msg.user)}
    <3> SUFFICES ASSUME NEW m \in Messages, OneSession(m), DefaultKey(m) \in muted'
                 PROVE  m.chat \in known \cup lost
      BY <1>5 DEF MutedKnown, Append
    <3>1. CASE DefaultKey(m) \in muted BY <3>1 DEF MutedKnown
    <3>2. CASE DefaultKey(m) = SessionKey(loc.key, msg.chat, msg.user)
      <4>1. m.chat = msg.chat BY <3>2, KeyNamesChat
      <4>2. msg.chat \in known \cup lost BY <1>5, <2>1 DEF Append, PauseCourse
      <4>3. QED BY <4>1, <4>2
    <3>3. QED BY <2>1, <3>1, <3>2
  <2>2. CASE muted' = muted BY <1>1, <1>5, <2>2 DEF Append
  <2>3. QED BY <1>5, <2>1, <2>2 DEF Append
<1>6. ASSUME UNCHANGED <<known, muted, lost>> PROVE MutedKnown' BY <1>1, <1>6
<1>7. ASSUME NEW d, Read(d) PROVE MutedKnown'
  BY <1>4, <1>5, <1>6, <1>7, ReadSees, PausesKept
<1>8. CASE Commands \/ Ends BY <1>6, <1>8, CommandWrites, EndsKeep
<1>9. ASSUME NEW call, Edit(call) \/ Touch PROVE MutedKnown'
  BY <1>6, <1>9 DEF Edit, Touch, pauses
<1>10. CASE Restart BY <1>1, <1>10 DEF Restart
<1>11. CASE UNCHANGED vars BY <1>6, <1>11 DEF vars
<1>12. QED BY <1>3, <1>7, <1>8, <1>9, <1>10, <1>11, StepCases DEF Next, Reads

LEMMA PauseCourseElsewhere ==
  ASSUME pc' \notin {"resolve", "stamp", "key", "db", "append"}, ~Agented'
  PROVE  PauseCourse'
BY DEF PauseCourse

LEMMA PauseCourseRead ==
  ASSUME TypeOK, PauseCourse, NEW d, Read(d)
  PROVE  PauseCourse'
<1>0. ReadSteps(d) /\ msg' = msg BY ReadSees, ReadStepsOnly
<1>1. loc \in LocalType BY TypeParts DEF HookTypes
<1>2. ASSUME NEW sent, Skip(sent) PROVE PauseCourse'
  BY <1>2, PauseCourseElsewhere DEF Skip, Return, NoOutcome, Agented, Done
<1>3. CASE Identify(d) \/ Authorize(d) \/ RootCheck(d)
  <2>1. ASSUME NEW step \in {"authorize", "usage", "command", "admin-write", "whitelist"}, Goto(step)
        PROVE  PauseCourse'
    BY <2>1, PauseCourseElsewhere DEF Goto, Agented, Done
  <2>2. CASE Identify(d) BY <1>2, <2>1, <2>2 DEF Identify
  <2>3. CASE Authorize(d) BY <1>2, <2>1, <2>3 DEF Authorize
  <2>4. CASE RootCheck(d) BY <1>2, <2>1, <2>4 DEF RootCheck
  <2>5. QED BY <1>3, <2>2, <2>3, <2>4
<1>4. CASE AdminRead(d) \/ ReadWhitelist(d) \/ Gate(d)
  BY <1>4, PauseCourseElsewhere DEF AdminRead, ReadWhitelist, Gate, Goto, Agented, Done
<1>5. CASE Pause(d)
  <2> DEFINE p == IsPaused(d, msg.chat)
             fact == IsPaused(cfg, msg.chat)
  <2>1. loc' = [loc EXCEPT !.paused = fact] /\ fact \in BOOLEAN BY <1>5 DEF Pause, IsPaused
  <2>2. pc' \in {"resolve", "key"} /\ (pc' = "resolve" => ~p) BY <1>5 DEF Pause, Goto
  <2>3. fact => msg.chat \in known' \cup lost' BY <1>5 DEF Pause, Remember, Resume, NoPause
  <2>4. ~p => msg.chat \notin known' BY <1>5 DEF Pause, Resume, NoPause
  <2> HIDE DEF p, fact
  <2>5. loc'.paused = fact BY <1>1, <2>1 DEF LocalType
  <2>6. QED BY <1>0, <2>2, <2>3, <2>4, <2>5 DEF PauseCourse, Agented, Done
<1>6. CASE Resolve(d) \/ AllowlistFails(d)
  <2>1. pc = "resolve" /\ pc' \in {"stamp", "key"} /\ UNCHANGED <<loc, known, lost>>
    BY <1>6 DEF Resolve, AllowlistFails, Goto, pauses
  <2>2. QED BY <1>0, <2>1 DEF PauseCourse, Agented, Done
<1>7. CASE Stamp(d)
  <2>1. pc = "stamp" /\ pc' = "idle" /\ known' = known
    BY <1>7 DEF Stamp, ToAgent, Return, pauses
  <2>2. QED BY <1>0, <2>1 DEF PauseCourse
<1>8. CASE BuildKey(d) \/ ScopedDb(d)
  <2>1. /\ pc \in {"key", "db"} /\ pc' \in {"db", "append"} /\ UNCHANGED <<known, lost>>
        /\ loc'.paused = loc.paused
    BY <1>1, <1>8 DEF BuildKey, ScopedDb, Goto, pauses, LocalType
  <2>2. QED BY <1>0, <2>1 DEF PauseCourse, Agented, Done
<1>9. CASE Append(d)
  BY <1>9, PauseCourseElsewhere DEF Append, Return, NoOutcome, Agented, Done
<1>10. QED BY <1>0, <1>3, <1>4, <1>5, <1>6, <1>7, <1>8, <1>9 DEF ReadSteps

LEMMA PauseCourseStep ==
  ASSUME TypeOK, Sound, PauseCourse, [Next]_vars
  PROVE  PauseCourse'
<1>1. ASSUME NEW m, Arrive(m) PROVE PauseCourse'
  BY <1>1, PauseCourseElsewhere DEF Arrive, Agented, Done
<1>2. CASE Commands BY <1>2, CommandWrites, PauseCourseElsewhere DEF Agented, Done
<1>3. CASE Ends
  <2>1. pc' = "idle" /\ ~Agented'
    BY <1>3 DEF Ends, Usage, Research, HookFails, Skip, ToAgent, Return, NoOutcome, Agented, Done,
                Sound, Course
  <2>2. QED BY <2>1, PauseCourseElsewhere
<1>4. ASSUME NEW call, Edit(call) \/ Touch PROVE PauseCourse'
  BY <1>4 DEF Edit, Touch, pauses, PauseCourse, Agented, Done
<1>5. CASE Restart BY <1>5, PauseCourseElsewhere DEF Restart, NoOutcome, Agented, Done
<1>6. CASE UNCHANGED vars BY <1>6 DEF vars, PauseCourse, Agented, Done
<1>7. QED BY <1>1, <1>2, <1>3, <1>4, <1>5, <1>6, PauseCourseRead, StepCases DEF Next, Reads

(* After a pause, the agent starts from a clean context (the transition     *)
(* detection of the hook).                                                 *)
THEOREM PausesEndClean == Spec => []CleanAfterPause
<1>1. Init => MutedKnown /\ PauseCourse
  BY DEF Init, NoOutcome, NoLocals, MutedKnown, PauseCourse, Agented, Done
<1>2. TypeOK /\ MutedKnown /\ PauseCourse => CleanAfterPause
  <2> SUFFICES ASSUME TypeOK, MutedKnown, PauseCourse, Agented, msg.chat \notin lost, OneSession(msg)
               PROVE  DefaultKey(msg) \notin muted
    BY DEF CleanAfterPause, Agented, OneSession, DefaultKey
  <2>1. msg \in Messages BY TypeParts DEF HookTypes
  <2>2. msg.chat \notin known BY DEF PauseCourse
  <2>3. QED BY <2>1, <2>2 DEF MutedKnown
<1>3. QED BY <1>1, <1>2, MutedStep, PauseCourseStep, SoundInvariant, TypeCorrect, PTL DEF Spec

=============================================================================
