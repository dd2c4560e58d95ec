------------------------ MODULE RelinkWatcher_proofs ------------------------
(***************************************************************************)
(* Theorems about RelinkWatcher, for any grace period and number of faults. *)
(***************************************************************************)
EXTENDS RelinkWatcher, TLAPS

(* TypeOK in two parts, what is counted and the rest.                      *)
Counters == gone \in 0 .. GracePolls /\ since \in 0 .. Heartbeat /\ faults \in 0 .. MaxFaults

Places == {"poll", "present", "stop", "check", "refuse", "restart", "clear", "move",
           "evict", "pair", "launch", "confirm"}

Others ==
  /\ pc \in Places
  /\ connected \in BOOLEAN
  /\ reported \in {"none", "connected", "unlinked", "disconnected"}
  /\ session \in {"none", "stale", "valid"}
  /\ bridge \in {"absent", "deaf", "trying", "connected"} /\ known \in BOOLEAN
  /\ net \subseteq Reports /\ hub \in Reports \cup {Report("none", FALSE)}
  /\ stopping \in BOOLEAN /\ paired \in BOOLEAN /\ late \in BOOLEAN

LEMMA SecondsInRange ==
  ASSUME NEW t \in 0 .. Heartbeat, NEW status
  PROVE  Sleep(status) \in 0 .. Heartbeat /\ Later(t, Sleep(status)) \in 0 .. Heartbeat
BY DEF Sleep, Later, Heartbeat, UnlinkedInterval, BadPollInterval

LEMMA CountersInductive ==
  ASSUME Counters, [Next]_vars
  PROVE  Counters'
<1> USE WatcherAssumption DEF Counters
<1>1. CASE Judge
  <2>1. gone' \in 0 .. GracePolls
    BY <1>1 DEF Judge, Count
  <2>2. since' \in {Sleep(Status(gone')), Later(since, Sleep(Status(gone')))} /\ UNCHANGED faults
    BY <1>1 DEF Judge
  <2> QED
    BY <2>1, <2>2, SecondsInRange
<1>2. CASE RelinkAborts
  BY <1>2 DEF RelinkAborts, Fault
<1>3. CASE Restart \/ Launch
  BY <1>3 DEF Restart, Launch, StartBridge, Fault
<1>4. CASE PairEnds
  BY <1>4 DEF PairEnds, Heartbeat
<1>5. CASE Confirm
  BY <1>5 DEF Confirm, Heartbeat, UnlinkedInterval
<1>6. CASE Fail \/ Logout \/ PairElsewhere
  <2>1. Fault /\ UNCHANGED watcher
    BY <1>6 DEF Fail, Logout, PairElsewhere
  <2> QED
    BY <2>1 DEF Fault, watcher
<1>7. CASE PollHealth \/ StopBridge \/ CheckCreds \/ ClearSession \/ Scan
  BY <1>7 DEF PollHealth, StopBridge, CheckCreds, ClearSession, Scan
<1>11. CASE MoveSession
  BY <1>11 DEF MoveSession, Fault
<1>8. CASE ShowQr \/ Boot \/ Connect \/ Exit \/ DeleteSession \/ Shutdown
  <2>1. UNCHANGED watcher /\ UNCHANGED faults
    BY <1>8 DEF ShowQr, Boot, Connect, Exit, DeleteSession, Shutdown
  <2> QED
    BY <2>1 DEF watcher
<1>9. CASE \E post \in Reports : Deliver(post) \/ Lose(post)
  BY <1>9 DEF Deliver, Lose, watcher
<1>10. CASE UNCHANGED vars
  BY <1>10 DEF vars, watcher
<1> QED
  BY <1>1, <1>2, <1>3, <1>4, <1>5, <1>6, <1>7, <1>8, <1>9, <1>10, <1>11 DEF Next, Watch

LEMMA ReportTypes ==
  /\ \A status \in {"connected", "unlinked", "disconnected"} : Report(status, FALSE) \in Reports
  /\ Report("unlinked", TRUE) \in Reports
BY DEF Report, Reports

LEMMA OthersInductive ==
  ASSUME Others, [Next]_vars
  PROVE  Others'
<1> USE DEF Others
<1>1. CASE PollHealth
  BY <1>1, Zenon DEF PollHealth, Places, world, feed, history
<1>2. CASE Judge
  <2> DEFINE status == Status(gone')
  <2>1. status \in {"connected", "unlinked", "disconnected"}
    BY DEF Status
  <2>2. net' \in {net, net \cup {Report(status, FALSE)}} /\ reported' \in {reported, status}
    BY <1>2 DEF Judge
  <2>3. pc' \in {"stop", "poll"}
    BY <1>2 DEF Judge
  <2>4. UNCHANGED <<connected, world, hub, stopping, history>>
    BY <1>2, Zenon DEF Judge
  <2> HIDE DEF status
  <2>5. net' \subseteq Reports /\ reported' \in {"none", "connected", "unlinked", "disconnected"}
    BY <2>1, <2>2, ReportTypes
  <2> QED
    BY <2>3, <2>4, <2>5, Zenon DEF world, history, Places
<1>3. CASE RelinkAborts \/ PairEnds
  BY <1>3, Zenon DEF RelinkAborts, PairEnds, Places, world, feed, history
<1>4. CASE StopBridge
  <2>1. bridge' \in {"absent", bridge}
    BY <1>4 DEF StopBridge
  <2> QED
    BY <1>4, <2>1, Zenon DEF StopBridge, Places, feed
<1>5. CASE CheckCreds
  <2>1. pc' \in {"refuse", "clear"}
    BY <1>5 DEF CheckCreds
  <2> QED
    BY <1>5, <2>1, Zenon DEF CheckCreds, Places, world, feed, history
<1>17. CASE ClearSession
  <2>1. pc' \in {"move", "evict", "pair", "restart"}
    BY <1>17 DEF ClearSession
  <2> QED
    BY <1>17, <2>1, Zenon DEF ClearSession, Places, world, feed
<1>18. CASE MoveSession
  <2>1. pc' \in {"pair", "restart"} /\ session' \in {"none", session} /\ known' \in {FALSE, known}
    BY <1>18 DEF MoveSession
  <2> QED
    BY <1>18, <2>1, Zenon DEF MoveSession, Places, feed, history
<1>6. CASE Restart
  BY <1>6, Zenon DEF Restart, StartBridge, Places, feed, history
<1>7. CASE Launch
  BY <1>7, Zenon DEF Launch, StartBridge, Places, feed, history
<1>8. CASE ShowQr
  BY <1>8, ReportTypes, Zenon DEF ShowQr, watcher, world, history
<1>9. CASE Confirm
  BY <1>9, ReportTypes, Zenon DEF Confirm, Places, world, history
<1>10. CASE Scan
  BY <1>10, Zenon DEF Scan, Places, feed, history
<1>11. CASE Boot \/ Connect \/ Exit
  BY <1>11, Zenon DEF Boot, Connect, Exit, watcher, feed, history
<1>12. CASE Fail
  <2>1. /\ pc' = pc /\ connected' = connected /\ reported' = reported /\ session' = session
        /\ known' = known /\ net' = net /\ hub' = hub
        /\ stopping' = stopping /\ paired' = paired /\ late' = late
    BY <1>12 DEF Fail, watcher, feed, history
  <2>2. bridge' \in {"absent", "trying", "deaf"}
    BY <1>12 DEF Fail
  <2> QED
    BY <2>1, <2>2, Zenon
<1>13. CASE DeleteSession \/ PairElsewhere
  <2>1. late' \in BOOLEAN
    BY <1>13 DEF DeleteSession, PairElsewhere, history
  <2> QED
    BY <1>13, <2>1, Zenon DEF DeleteSession, PairElsewhere, watcher, feed, history
<1>19. CASE Logout
  <2>1. session' \in {"stale", session}
    BY <1>19 DEF Logout
  <2> QED
    BY <1>19, <2>1, Zenon DEF Logout, watcher, feed, history
<1>14. CASE \E post \in Reports : Deliver(post) \/ Lose(post)
  <2>1. /\ pc' = pc /\ connected' = connected /\ reported' = reported /\ session' = session
        /\ bridge' = bridge /\ known' = known
        /\ stopping' = stopping /\ paired' = paired /\ late' = late
    BY <1>14 DEF Deliver, Lose, watcher, world, history
  <2>2. net' \subseteq Reports /\ hub' \in Reports \cup {hub}
    BY <1>14, Zenon DEF Deliver, Lose
  <2> QED
    BY <2>1, <2>2, Zenon
<1>15. CASE Shutdown
  <2>1. /\ pc' = pc /\ connected' = connected /\ reported' = reported /\ session' = session
        /\ bridge' = bridge /\ known' = known /\ net' = net /\ hub' = hub
        /\ stopping' = TRUE /\ paired' = paired /\ late' = late
    BY <1>15 DEF Shutdown, watcher, world, feed, history
  <2> QED
    BY <2>1, Zenon
<1>16. CASE UNCHANGED vars
  <2>1. /\ pc' = pc /\ connected' = connected /\ reported' = reported /\ session' = session
        /\ bridge' = bridge /\ known' = known /\ net' = net /\ hub' = hub
        /\ stopping' = stopping /\ paired' = paired /\ late' = late
    BY <1>16 DEF vars, watcher, world, feed, history
  <2> QED
    BY <2>1, Zenon
<1> QED
  BY <1>1, <1>2, <1>3, <1>4, <1>5, <1>6, <1>7, <1>8, <1>9, <1>10, <1>11, <1>12, <1>13,
     <1>14, <1>15, <1>16, <1>17, <1>18, <1>19 DEF Next, Watch

(* Every variable of the watcher and its world keeps its type              *)
(* (relink_watcher.py).                                                    *)
THEOREM TypeCorrect == Spec => []TypeOK
<1>1. Init => Counters
  BY WatcherAssumption DEF Init, Counters, Heartbeat
<1>2. Init => Others
  <2> SUFFICES ASSUME Init PROVE Others
    OBVIOUS
  <2>1. session \in {"none", "stale", "valid"} /\ bridge \in {"absent", "deaf", "trying", "connected"}
    BY DEF Init
  <2> QED
    BY <2>1, Zenon DEF Init, Others, Places
<1>3. Counters /\ [Next]_vars => Counters'
  BY CountersInductive
<1>4. Others /\ [Next]_vars => Others'
  BY OthersInductive
<1>5. Counters /\ Others => TypeOK
  BY DEF Counters, Others, Places, TypeOK
<1> QED
  BY <1>1, <1>2, <1>3, <1>4, <1>5, PTL DEF Spec

-----------------------------------------------------------------------------
(* What the directory holds when it is moved aside was not there when it    *)
(* was looked at, just before.                                             *)
MovesBareOrLate == pc \in {"move", "evict"} /\ session # "none" => late

LEMMA MovesInductive ==
  ASSUME MovesBareOrLate, [Next]_vars
  PROVE  MovesBareOrLate'
<1> USE DEF MovesBareOrLate
<1>1. CASE PollHealth \/ Judge \/ RelinkAborts \/ StopBridge \/ CheckCreds
  BY <1>1 DEF PollHealth, Judge, RelinkAborts, StopBridge, CheckCreds
<1>2. CASE ClearSession \/ MoveSession
  BY <1>2 DEF ClearSession, MoveSession, world
<1>3. CASE Restart \/ Launch \/ Confirm \/ PairEnds \/ Scan
  BY <1>3 DEF Restart, Launch, Confirm, PairEnds, Scan
<1>4. CASE ShowQr
  BY <1>4 DEF ShowQr, watcher, world, history
<1>5. CASE Boot \/ Connect \/ Exit \/ Fail
  BY <1>5 DEF Boot, Connect, Exit, Fail, watcher, history
<1>6. CASE Logout \/ DeleteSession
  BY <1>6 DEF Logout, DeleteSession, watcher, history
<1>7. CASE PairElsewhere
  BY <1>7 DEF PairElsewhere, watcher
<1>8. CASE (\E post \in Reports : Deliver(post) \/ Lose(post)) \/ Shutdown
  BY <1>8 DEF Deliver, Lose, Shutdown, watcher, world, history
<1>9. CASE UNCHANGED vars
  BY <1>9 DEF vars, watcher, world, history
<1> QED
  BY <1>1, <1>2, <1>3, <1>4, <1>5, <1>6, <1>7, <1>8, <1>9 DEF Next, Watch

(* Whatever the watcher and the world do, a valid pairing is ended by a     *)
(* log-out, which leaves the session stale, not gone, or by the move of a    *)
(* directory in which it was made after the last look into it, and by       *)
(* nothing else (_backup_and_clear_session).                                *)
THEOREM WatcherKeepsCreds == Spec => CredsKept
<1>1. MovesBareOrLate /\ [Next]_vars => [session = "valid" => session' # "none" \/ late]_session
  <2> SUFFICES ASSUME MovesBareOrLate, Next, session = "valid", session' # session
               PROVE  session' # "none" \/ late
    BY DEF vars, world
  <2>1. CASE PollHealth \/ Judge \/ RelinkAborts \/ StopBridge \/ CheckCreds \/ ClearSession
    BY <2>1 DEF PollHealth, Judge, RelinkAborts, StopBridge, CheckCreds, ClearSession, world
  <2>2. CASE MoveSession
    BY <2>2 DEF MoveSession, MovesBareOrLate
  <2>3. CASE Restart \/ Launch \/ Confirm \/ ShowQr \/ PairEnds \/ Scan
    BY <2>3 DEF Restart, Launch, Confirm, ShowQr, PairEnds, Scan, world
  <2>4. CASE Boot \/ Connect \/ Exit \/ Fail \/ Logout \/ DeleteSession \/ PairElsewhere
    BY <2>4 DEF Boot, Connect, Exit, Fail, Logout, DeleteSession, PairElsewhere
  <2>5. CASE (\E post \in Reports : Deliver(post) \/ Lose(post)) \/ Shutdown
    BY <2>5 DEF Deliver, Lose, Shutdown, world
  <2> QED
    BY <2>1, <2>2, <2>3, <2>4, <2>5 DEF Next, Watch
<1>2. Init => MovesBareOrLate
  BY DEF Init, MovesBareOrLate
<1>3. MovesBareOrLate /\ [Next]_vars => MovesBareOrLate'
  BY MovesInductive
<1> QED
  BY <1>1, <1>2, <1>3, PTL DEF Spec, CredsKept

-----------------------------------------------------------------------------
(* From the check to the end of pair-only, credentials are there only if    *)
(* somebody paired the session in the meantime.                             *)
BareOrPaired == pc \in {"clear", "move", "pair"} /\ session # "none" => paired

LEMMA BareInductive ==
  ASSUME BareOrPaired, [Next]_vars
  PROVE  BareOrPaired'
<1> USE DEF BareOrPaired
<1>1. CASE PollHealth \/ Judge \/ RelinkAborts \/ StopBridge
  BY <1>1 DEF PollHealth, Judge, RelinkAborts, StopBridge
<1>2. CASE CheckCreds \/ ClearSession
  BY <1>2 DEF CheckCreds, ClearSession, world, history
<1>10. CASE MoveSession
  BY <1>10 DEF MoveSession, history
<1>3. CASE Restart \/ Launch \/ Confirm \/ PairEnds \/ Scan
  BY <1>3 DEF Restart, Launch, Confirm, PairEnds, Scan
<1>4. CASE ShowQr
  BY <1>4 DEF ShowQr, watcher, world, history
<1>5. CASE Boot \/ Connect \/ Exit \/ Fail
  BY <1>5 DEF Boot, Connect, Exit, Fail, watcher, history
<1>6. CASE Logout \/ DeleteSession
  BY <1>6 DEF Logout, DeleteSession, watcher, history
<1>7. CASE PairElsewhere
  <2>1. paired' = TRUE
    BY <1>7, Zenon DEF PairElsewhere
  <2> QED
    BY <2>1, Zenon
<1>8. CASE (\E post \in Reports : Deliver(post) \/ Lose(post)) \/ Shutdown
  BY <1>8 DEF Deliver, Lose, Shutdown, watcher, world, history
<1>9. CASE UNCHANGED vars
  BY <1>9 DEF vars, watcher, world, history
<1> QED
  BY <1>1, <1>2, <1>3, <1>4, <1>5, <1>6, <1>7, <1>8, <1>9, <1>10 DEF Next, Watch

(* pair-only runs over credentials only if they came up after the relink    *)
(* started (_run_relink).                                                   *)
THEOREM PairingIsBare == Spec => []PairsOnlyBare
<1>1. Init => BareOrPaired
  BY DEF Init, BareOrPaired
<1>2. BareOrPaired /\ [Next]_vars => BareOrPaired'
  BY BareInductive
<1>3. BareOrPaired => PairsOnlyBare
  BY DEF BareOrPaired, PairsOnlyBare
<1> QED
  BY <1>1, <1>2, <1>3, PTL DEF Spec

-----------------------------------------------------------------------------
LEMMA SlowInductive ==
  ASSUME TypeOK, SlowNotStopped, [Next]_vars
  PROVE  SlowNotStopped'
<1> USE DEF SlowNotStopped
<1>1. CASE Judge
  <2> SUFFICES ASSUME pc' = "stop", known PROVE bridge = "absent"
    BY <1>1 DEF Judge, world
  <2>1. Status(gone') = "unlinked" /\ gone' = Count(Present)
    BY <1>1 DEF Judge
  <2>2. gone' = GracePolls /\ ~connected
    BY <2>1 DEF Status
  <2>3. ~Present
    BY <2>1, <2>2, WatcherAssumption DEF Count
  <2> QED
    BY <2>3 DEF Present, TypeOK
<1>2. CASE PollHealth \/ RelinkAborts \/ StopBridge \/ CheckCreds \/ ClearSession \/ MoveSession
  BY <1>2 DEF PollHealth, RelinkAborts, StopBridge, CheckCreds, ClearSession, MoveSession
<1>3. CASE Restart \/ Launch \/ Confirm \/ PairEnds \/ Scan
  BY <1>3 DEF Restart, Launch, Confirm, PairEnds, Scan
<1>4. CASE ShowQr
  BY <1>4 DEF ShowQr, watcher, world
<1>5. CASE Boot \/ Connect \/ Exit \/ Fail
  BY <1>5 DEF Boot, Connect, Exit, Fail, watcher
<1>6. CASE Logout \/ DeleteSession \/ PairElsewhere
  BY <1>6 DEF Logout, DeleteSession, PairElsewhere, watcher
<1>7. CASE (\E post \in Reports : Deliver(post) \/ Lose(post)) \/ Shutdown
  BY <1>7 DEF Deliver, Lose, Shutdown, watcher, world
<1>8. CASE UNCHANGED vars
  BY <1>8 DEF vars, watcher, world
<1> QED
  BY <1>1, <1>2, <1>3, <1>4, <1>5, <1>6, <1>7, <1>8 DEF Next, Watch

(* A bridge whose PID is in the pidfile is never stopped for being slow, for *)
(* any grace period (_bridge_process_present, _watch_loop).                  *)
THEOREM SlowIsSafe == Spec => []SlowNotStopped
<1>1. Init => SlowNotStopped
  BY DEF Init, SlowNotStopped
<1>2. TypeOK /\ SlowNotStopped /\ [Next]_vars => SlowNotStopped'
  BY SlowInductive
<1> QED
  BY <1>1, <1>2, TypeCorrect, PTL DEF Spec
=============================================================================
