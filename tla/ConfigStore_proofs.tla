------------------------- MODULE ConfigStore_proofs -------------------------
(***************************************************************************)
(* Theorems about ConfigStore, for any chats, threads, processes and calls. *)
(***************************************************************************)
EXTENDS ConfigStore, ConfigDoc_proofs, TLAPS

-----------------------------------------------------------------------------
(* Every variable of the store keeps its type (the writers and the cache of *)
(* config_routes.py and plugin._refresh_routes_cache).                      *)
THEOREM TypeCorrect == Spec => []TypeOK
<1>1. Init => TypeOK
  <2> SUFFICES ASSUME Init PROVE TypeOK
    OBVIOUS
  <2>1. (CHOOSE c \in Requests : TRUE) \in Requests
    BY StoreAssumption
  <2>2. NoKey \in Nat \cup {NoKey} /\ EmptyDoc \in Docs
    BY EmptyDocType
  <2> QED
    BY <2>1, <2>2, StoreAssumption DEF Init, TypeOK
<1>2. TypeOK /\ [Next]_vars => TypeOK'
  <2> SUFFICES ASSUME TypeOK, [Next]_vars PROVE TypeOK'
    OBVIOUS
  <2> USE DEF TypeOK, writers, readers
  <2>1. ASSUME NEW t \in Threads, NEW c \in Requests, Load(t, c) PROVE TypeOK'
    <3>1. file.doc \in Docs /\ clock \in Nat /\ Process[t] \in Procs
      BY StoreAssumption
    <3> QED
      BY <2>1, <3>1, StoreAssumption DEF Load
  <2>2. ASSUME NEW t \in Threads, Keep(t) PROVE TypeOK'
    BY <2>2, StoreAssumption DEF Keep, Release
  <2>3. ASSUME NEW t \in Threads, Raise(t) PROVE TypeOK'
    BY <2>3, StoreAssumption DEF Raise, Release
  <2>4. ASSUME NEW t \in Threads, Dump(t) PROVE TypeOK'
    <3>1. PICK tick \in {clock, clock + 1} :
            tick <= MaxTicks /\ clock' = tick /\ stamp' = [stamp EXCEPT ![t] = tick]
      BY <2>4 DEF Dump
    <3>2. tick \in 0 .. MaxTicks
      BY <3>1, StoreAssumption
    <3> QED
      BY <2>4, <3>1, <3>2, StoreAssumption DEF Dump
  <2>5. ASSUME NEW t \in Threads, Replace(t) PROVE TypeOK'
    <3>1. base[t] \in Docs /\ req[t] \in Calls /\ stamp[t] \in Nat
      BY StoreAssumption
    <3>2. Apply(base[t], req[t]) \in Docs
      BY <3>1, ApplyType
    <3>3. file' \in [doc : Docs, mtime : Nat]
      BY <2>5, <3>1, <3>2 DEF Replace
    <3> QED
      BY <2>5, <3>3, StoreAssumption DEF Replace, Release
  <2>6. ASSUME NEW r \in Readers, Stat(r) PROVE TypeOK'
    BY <2>6 DEF Stat
  <2>7. ASSUME NEW r \in Readers, NEW d \in Docs, Fill(r, d) PROVE TypeOK'
    BY <2>7 DEF Fill
  <2>8. ASSUME NEW p \in Procs, Crash(p) PROVE TypeOK'
    BY <2>8, EmptyDocType DEF Crash
  <2>9. CASE UNCHANGED vars
    BY <2>9 DEF vars
  <2>10. ASSUME NEW r \in Readers, Parse(r) \/ ParseFails(r) PROVE TypeOK'
    BY <2>7, <2>10, EmptyDocType DEF Parse, ParseFails
  <2> QED
    BY <2>1, <2>2, <2>3, <2>4, <2>5, <2>6, <2>8, <2>9, <2>10 DEF Next, Finish
<1> QED
  BY <1>1, <1>2, PTL DEF Spec

-----------------------------------------------------------------------------
(* Locks.  A step changes where at most one writer is; it leaves "idle"     *)
(* only with the lock of its process, which was free: so no other thread of *)
(* that process was out of "idle".                                          *)
LEMMA LockInductive ==
  ASSUME TypeOK, LockHeld, [Next]_vars
  PROVE  LockHeld'
<1> USE DEF TypeOK, LockHeld
<1>1. ASSUME NEW t \in Threads, NEW c \in Requests, Load(t, c) PROVE LockHeld'
  <2> SUFFICES ASSUME NEW u \in Threads, pc'[u] # "idle"
               PROVE  lock'[Process[u]] = u
    OBVIOUS
  <2>1. CASE u = t
    BY <1>1, <2>1, StoreAssumption DEF Load
  <2>2. CASE u # t
    <3>1. pc[u] # "idle" /\ lock[Process[u]] = u
      BY <1>1, <2>2 DEF Load
    <3>2. Process[u] # Process[t]
      BY <1>1, <3>1, StoreAssumption DEF Load
    <3> QED
      BY <1>1, <3>1, <3>2, StoreAssumption DEF Load
  <2> QED
    BY <2>1, <2>2
<1>2. ASSUME NEW t \in Threads, pc[t] # "idle", pc' = [pc EXCEPT ![t] = "idle"], Release(t)
      PROVE  LockHeld'
  <2> SUFFICES ASSUME NEW u \in Threads, pc'[u] # "idle"
               PROVE  lock'[Process[u]] = u
    OBVIOUS
  <2>1. u # t /\ lock[Process[u]] = u /\ lock[Process[t]] = t
    BY <1>2
  <2>2. Process[u] # Process[t]
    BY <2>1
  <2> QED
    BY <1>2, <2>1, <2>2, StoreAssumption DEF Release
<1>3. ASSUME NEW t \in Threads, Dump(t) PROVE LockHeld'
  BY <1>3 DEF Dump
<1>4. ASSUME NEW r \in Readers, Stat(r) \/ Parse(r) \/ ParseFails(r) PROVE LockHeld'
  BY <1>4 DEF Stat, Parse, ParseFails, Fill, writers
<1>5. ASSUME NEW p \in Procs, Crash(p) PROVE LockHeld'
  BY <1>5, StoreAssumption DEF Crash
<1>6. CASE UNCHANGED vars
  BY <1>6 DEF vars, writers
<1> QED
  BY <1>1, <1>2, <1>3, <1>4, <1>5, <1>6 DEF Next, Finish, Keep, Raise, Replace

(* Only the thread a process's lock names is inside a writer, for any       *)
(* number of threads and processes (config_routes._WRITE_LOCK).             *)
THEOREM LockSafe == Spec => []LockHeld
<1>1. Init => LockHeld
  BY DEF Init, LockHeld
<1> QED
  BY <1>1, TypeCorrect, LockInductive, PTL DEF Spec

-----------------------------------------------------------------------------
(* Mtimes.  A temporary file that waits for its rename carries a stamp that  *)
(* nobody has seen: not the file, no reader, no other temporary file.        *)
FreshStamps ==
  /\ file.mtime <= clock
  /\ \A r \in Readers : key[r] <= clock /\ rstat[r] <= clock
  /\ \A t \in Threads :
       /\ stamp[t] <= clock
       /\ pc[t] = "dumped" =>
            /\ stamp[t] # file.mtime
            /\ \A r \in Readers : stamp[t] # key[r] /\ stamp[t] # rstat[r]
            /\ \A u \in Threads : u # t /\ pc[u] = "dumped" => stamp[t] # stamp[u]

LEMMA StampsInductive ==
  ASSUME DistinctStamps, TypeOK, FreshStamps, [Next]_vars
  PROVE  FreshStamps'
<1> USE DEF TypeOK, FreshStamps, NoKey
<1>1. ASSUME NEW t \in Threads, NEW c \in Requests, Load(t, c) PROVE FreshStamps'
  BY <1>1 DEF Load, readers
<1>2. ASSUME NEW t \in Threads, Keep(t) \/ Raise(t) PROVE FreshStamps'
  BY <1>2 DEF Keep, Raise, readers
<1>3. ASSUME NEW t \in Threads, Dump(t) PROVE FreshStamps'
  <2>1. clock' = clock + 1 /\ stamp' = [stamp EXCEPT ![t] = clock + 1]
    BY <1>3 DEF Dump
  <2>2. pc' = [pc EXCEPT ![t] = "dumped"] /\ UNCHANGED <<file, readers>>
    BY <1>3 DEF Dump
  <2>3. file.mtime \in Nat /\ clock \in Nat
    BY StoreAssumption
  <2> QED
    BY <2>1, <2>2, <2>3 DEF readers
<1>4. ASSUME NEW t \in Threads, Replace(t) PROVE FreshStamps'
  <2>1. file'.mtime = stamp[t] /\ pc[t] = "dumped"
    BY <1>4 DEF Replace
  <2>2. pc' = [pc EXCEPT ![t] = "idle"] /\ UNCHANGED <<clock, stamp, readers>>
    BY <1>4 DEF Replace
  <2> QED
    BY <2>1, <2>2 DEF readers
<1>5. ASSUME NEW r \in Readers, Stat(r) PROVE FreshStamps'
  BY <1>5 DEF Stat, writers
<1>6. ASSUME NEW r \in Readers, Parse(r) \/ ParseFails(r) PROVE FreshStamps'
  BY <1>6 DEF Parse, ParseFails, Fill, writers
<1>7. ASSUME NEW p \in Procs, Crash(p) PROVE FreshStamps'
  BY <1>7, StoreAssumption DEF Crash
<1>8. CASE UNCHANGED vars
  BY <1>8 DEF vars, writers, readers
<1> QED
  BY <1>1, <1>2, <1>3, <1>4, <1>5, <1>6, <1>7, <1>8 DEF Next, Finish

LEMMA StaleInductive ==
  ASSUME TypeOK, FreshStamps, NeverStale, [Next]_vars
  PROVE  NeverStale'
<1> USE DEF TypeOK, NeverStale, Hit
<1>1. ASSUME NEW t \in Threads, Replace(t) PROVE NeverStale'
  <2>1. file'.mtime = stamp[t] /\ pc[t] = "dumped" /\ UNCHANGED readers
    BY <1>1 DEF Replace
  <2> QED
    BY <2>1 DEF FreshStamps, readers
<1>2. ASSUME NEW t \in Threads, file' = file, UNCHANGED readers PROVE NeverStale'
  BY <1>2 DEF readers
<1>3. ASSUME NEW r \in Readers, Stat(r) PROVE NeverStale'
  BY <1>3 DEF Stat
<1>4. ASSUME NEW r \in Readers, Parse(r) \/ ParseFails(r) PROVE NeverStale'
  BY <1>4 DEF Parse, ParseFails, Fill
<1>5. ASSUME NEW p \in Procs, Crash(p) PROVE NeverStale'
  <2>1. file.mtime # NoKey
    BY DEF NoKey
  <2> QED
    BY <1>5, <2>1 DEF Crash
<1>6. CASE UNCHANGED vars
  BY <1>6 DEF vars, readers
<1>7. ASSUME NEW t \in Threads, NEW c \in Requests, Load(t, c) \/ Keep(t) \/ Raise(t) \/ Dump(t)
      PROVE  file' = file /\ UNCHANGED readers
  BY <1>7 DEF Load, Keep, Raise, Dump
<1> QED
  BY <1>1, <1>2, <1>3, <1>4, <1>5, <1>6, <1>7, StoreAssumption DEF Next, Finish

(* If no two dumps share a tick of the mtime clock, the listener's mtime     *)
(* gate never hides a document from it: any number of processes may write,   *)
(* die and rename in any order (plugin._refresh_routes_cache).               *)
THEOREM CacheNeverStale ==
  ASSUME DistinctStamps
  PROVE  Spec => []NeverStale
<1>1. Init => FreshStamps /\ NeverStale
  BY DEF Init, FreshStamps, NeverStale, Hit, NoKey
<1>2. TypeOK /\ FreshStamps /\ [Next]_vars => FreshStamps'
  BY StampsInductive
<1>3. TypeOK /\ FreshStamps /\ NeverStale /\ [Next]_vars => NeverStale'
  BY StaleInductive
<1> QED
  BY <1>1, <1>2, <1>3, TypeCorrect, PTL DEF Spec

-----------------------------------------------------------------------------
(* Refinement.  Nobody renames between a writer's load and its own rename:  *)
(* not the threads of its process, and of other processes if Undisturbed.   *)
BaseCurrent == \A t \in Threads : pc[t] # "idle" => base[t] = file.doc

(* No rename falls between another process's load and its rename.           *)
Undisturbed ==
  \A t, u \in Threads : Replace(t) /\ pc[u] # "idle" => Process[u] = Process[t]

LEMMA BaseInductive ==
  ASSUME TypeOK, LockHeld, BaseCurrent, [Next]_vars, [Undisturbed]_vars
  PROVE  BaseCurrent'
<1> USE DEF TypeOK, BaseCurrent
<1>1. ASSUME NEW t \in Threads, NEW c \in Requests, Load(t, c) PROVE BaseCurrent'
  BY <1>1 DEF Load
<1>2. ASSUME NEW t \in Threads, Keep(t) \/ Raise(t) \/ Dump(t) PROVE BaseCurrent'
  BY <1>2 DEF Keep, Raise, Dump
<1>3. ASSUME NEW t \in Threads, Replace(t) PROVE BaseCurrent'
  <2> SUFFICES ASSUME NEW u \in Threads, pc'[u] # "idle"
               PROVE  base'[u] = file'.doc
    OBVIOUS
  <2>1. u # t /\ pc[u] # "idle" /\ pc[t] # "idle"
    BY <1>3 DEF Replace
  <2>2. lock[Process[u]] = u /\ lock[Process[t]] = t
    BY <2>1 DEF LockHeld
  <2>3. vars' # vars
    BY <1>3, <2>1 DEF Replace, vars, writers
  <2>4. Process[u] = Process[t]
    BY <1>3, <2>1, <2>3 DEF Undisturbed
  <2> QED
    BY <2>1, <2>2, <2>4
<1>4. ASSUME NEW r \in Readers, Stat(r) \/ Parse(r) \/ ParseFails(r) PROVE BaseCurrent'
  BY <1>4 DEF Stat, Parse, ParseFails, Fill, writers
<1>5. ASSUME NEW p \in Procs, Crash(p) PROVE BaseCurrent'
  BY <1>5 DEF Crash
<1>6. CASE UNCHANGED vars
  BY <1>6 DEF vars, writers
<1> QED
  BY <1>1, <1>2, <1>3, <1>4, <1>5, <1>6 DEF Next, Finish

(* The abstract specification reads the calls as the store does.            *)
LEMMA SameApply ==
  ASSUME NEW d, NEW c
  PROVE  Atomic!Apply(d, c) = Apply(d, c)
<1> USE DEF Atomic!WithRoutes, WithRoutes, Atomic!NewRoute, NewRoute, Atomic!Blank, Blank,
            Atomic!RouteFields, RouteFields
<1>1. ASSUME NEW e, NEW a PROVE Atomic!Merge(e, a) = Merge(e, a)
  BY DEF Atomic!Merge, Merge
<1>2. ASSUME NEW e, NEW a, NEW b PROVE Atomic!SetRouteFields(d, e, a, b) = SetRouteFields(d, e, a, b)
  BY <1>1 DEF Atomic!SetRouteFields, SetRouteFields
<1>3. ASSUME NEW e PROVE Atomic!RemoveRoute(d, e) = RemoveRoute(d, e)
  BY DEF Atomic!RemoveRoute, RemoveRoute
<1>4. ASSUME NEW a PROVE Atomic!SetAdmins(d, a) = SetAdmins(d, a)
  BY DEF Atomic!SetAdmins, SetAdmins
<1>5. ASSUME NEW a PROVE Atomic!SetSkillsDisabled(d, a) = SetSkillsDisabled(d, a)
  BY DEF Atomic!SetSkillsDisabled, SetSkillsDisabled
<1> QED
  BY <1>2, <1>3, <1>4, <1>5 DEF Atomic!Apply, Apply

LEMMA StepRefines ==
  ASSUME TypeOK, BaseCurrent, [Next]_vars
  PROVE  [Atomic!Next]_(file.doc)
<1> USE DEF TypeOK, BaseCurrent
<1>1. ASSUME NEW t \in Threads, Replace(t) PROVE Atomic!Next
  <2>1. file'.doc = Apply(file.doc, req[t]) /\ req[t] \in Requests
    BY <1>1 DEF Replace
  <2> QED
    BY <2>1, SameApply DEF Atomic!Next, Atomic!Commit
<1>2. ASSUME NEW t \in Threads, NEW c \in Requests, Load(t, c) \/ Keep(t) \/ Raise(t) \/ Dump(t)
      PROVE  file' = file
  BY <1>2 DEF Load, Keep, Raise, Dump
<1>3. ASSUME NEW r \in Readers, Stat(r) \/ Parse(r) \/ ParseFails(r) PROVE file' = file
  BY <1>3 DEF Stat, Parse, ParseFails, Fill
<1>4. ASSUME NEW p \in Procs, Crash(p) PROVE file' = file
  BY <1>4 DEF Crash
<1>5. CASE UNCHANGED vars
  BY <1>5 DEF vars
<1> QED
  BY <1>1, <1>2, <1>3, <1>4, <1>5, StoreAssumption DEF Next, Finish

(* What a lock across processes would have to give: if no rename falls       *)
(* between another process's load and its rename, the file goes through what *)
(* the calls make of it one at a time, whatever the processes, threads,      *)
(* failed writes and crashes (set_route_fields and its like; _WRITE_LOCK).  *)
THEOREM UndisturbedIsAtomic == Spec /\ [][Undisturbed]_vars => AtomicSpec
<1>1. Init => BaseCurrent /\ Atomic!Init
  BY DEF Init, BaseCurrent, Atomic!Init
<1>2. TypeOK /\ LockHeld /\ BaseCurrent /\ [Next]_vars /\ [Undisturbed]_vars => BaseCurrent'
  BY BaseInductive
<1>3. TypeOK /\ BaseCurrent /\ [Next]_vars => [Atomic!Next]_(file.doc)
  BY StepRefines
<1> QED
  BY <1>1, <1>2, <1>3, TypeCorrect, LockSafe, PTL DEF Spec, AtomicSpec, Atomic!Spec

(* With all the writers in one process there is no other to fear:           *)
(* config_routes.py keeps the promise of its doc-strings.                   *)
THEOREM OneProcessAtomic ==
  ASSUME NEW P, Procs = {P}
  PROVE  Spec => AtomicSpec
<1>1. [Next]_vars => [Undisturbed]_vars
  BY StoreAssumption DEF Undisturbed
<1> QED
  BY <1>1, UndisturbedIsAtomic, PTL DEF Spec
=============================================================================
