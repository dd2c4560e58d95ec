----------------------------- MODULE ConfigStore -----------------------------
(***************************************************************************)
(* config.yaml, the threads that change it through config_routes.py and    *)
(* the listener's mtime-gated cache of it (plugin._refresh_routes_cache).   *)
(*                                                                         *)
(* A writer takes the lock of its own process, loads the file, changes the *)
(* loaded copy, dumps it to a temporary file and renames that over         *)
(* config.yaml.  The lock is a threading.Lock: it says nothing to another  *)
(* process.  The gateway and the hub pull (a cron job) both write.         *)
(*                                                                         *)
(* A reader stats the file, compares the mtime with the one its cache was  *)
(* filled under, and parses the file only if they differ.                  *)
(***************************************************************************)
EXTENDS ConfigDoc, Integers

CONSTANTS Threads,         \* the threads that call the writers
          Readers,         \* the processes' caches
          Procs,           \* the processes
          Process,         \* the process of each thread and each reader
          NoThread,        \* the holder of a free lock
          Requests,        \* the calls the threads make
          InitDoc,         \* the document of the first start
          DistinctStamps,  \* TRUE: no two dumps fall into one tick of the mtime clock
          ReadsFail,       \* TRUE: a reader's open or parse may fail
          MaxTicks         \* bound: the last tick of the mtime clock

ASSUME StoreAssumption ==
  /\ Process \in [Threads \cup Readers -> Procs]
  /\ NoThread \notin Threads
  /\ Requests \subseteq Calls /\ Requests # {}
  /\ InitDoc \in Docs
  /\ DistinctStamps \in BOOLEAN
  /\ ReadsFail \in BOOLEAN
  /\ MaxTicks \in Nat

VARIABLES file,    \* config.yaml: its document and its mtime
          clock,   \* the last tick at which a temporary file was dumped
          lock,    \* _WRITE_LOCK of each process
          pc,      \* where each writer is
          req,     \* the call a writer executes
          base,    \* the document it loaded
          stamp,   \* the clock at its load, then the mtime of its temporary file
          rpc,     \* where each reader is
          rstat,   \* the mtime its stat returned
          key,     \* the mtime its cache was filled under, -1: never
          cached   \* the document in its cache

writers == <<lock, pc, req, base, stamp>>
readers == <<rpc, rstat, key, cached>>
vars == <<file, clock, writers, readers>>

NoKey == -1

Init ==
  /\ file = [doc |-> InitDoc, mtime |-> 0]
  /\ clock = 0
  /\ lock = [p \in Procs |-> NoThread]
  /\ pc = [t \in Threads |-> "idle"]
  /\ req = [t \in Threads |-> CHOOSE c \in Requests : TRUE]
  /\ base = [t \in Threads |-> InitDoc]
  /\ stamp = [t \in Threads |-> 0]
  /\ rpc = [r \in Readers |-> "idle"]
  /\ rstat = [r \in Readers |-> NoKey]
  /\ key = [r \in Readers |-> NoKey]
  /\ cached = [r \in Readers |-> EmptyDoc]

-----------------------------------------------------------------------------
(* Writers                                                                 *)

Release(t) == lock' = [lock EXCEPT ![Process[t]] = NoThread]

(* Mutant: the file is loaded without waiting for the lock.                *)
LoadUnlocked(t, c) ==
  /\ pc[t] = "idle"
  /\ lock' = [lock EXCEPT ![Process[t]] = t]
  /\ pc' = [pc EXCEPT ![t] = "loaded"]
  /\ req' = [req EXCEPT ![t] = c]
  /\ base' = [base EXCEPT ![t] = file.doc]
  /\ stamp' = [stamp EXCEPT ![t] = clock]
  /\ UNCHANGED <<file, clock, readers>>

(* "with _WRITE_LOCK": acquire, and read the whole file.                   *)
Load(t, c) ==
  /\ pc[t] = "idle"
  /\ lock[Process[t]] = NoThread
  /\ lock' = [lock EXCEPT ![Process[t]] = t]
  /\ pc' = [pc EXCEPT ![t] = "loaded"]
  /\ req' = [req EXCEPT ![t] = c]
  /\ base' = [base EXCEPT ![t] = file.doc]
  /\ stamp' = [stamp EXCEPT ![t] = clock]
  /\ UNCHANGED <<file, clock, readers>>

(* Mutant: an early return that does not give the lock back.               *)
KeepLocked(t) ==
  /\ pc[t] = "loaded"
  /\ Apply(base[t], req[t]) = base[t]
  /\ pc' = [pc EXCEPT ![t] = "idle"]
  /\ UNCHANGED <<file, clock, lock, req, base, stamp, readers>>

(* Nothing to change: return False and leave the file alone.               *)
Keep(t) ==
  /\ pc[t] = "loaded"
  /\ Apply(base[t], req[t]) = base[t]
  /\ pc' = [pc EXCEPT ![t] = "idle"]
  /\ Release(t)
  /\ UNCHANGED <<file, clock, req, base, stamp, readers>>

(* The load or the dump raised: the lock is released, the temporary file    *)
(* removed, the exception goes to the caller.                              *)
Raise(t) ==
  /\ pc[t] \in {"loaded", "dumped"}
  /\ pc' = [pc EXCEPT ![t] = "idle"]
  /\ Release(t)
  /\ UNCHANGED <<file, clock, req, base, stamp, readers>>

(* The temporary file is complete.  Its mtime is a tick of the file         *)
(* system's clock.  Loading and dumping a YAML file takes longer than a     *)
(* tick, so the tick is a later one than that of the load, but two          *)
(* processes that both loaded may dump in the same one, unless              *)
(* DistinctStamps.                                                          *)
Dump(t) ==
  /\ pc[t] = "loaded"
  /\ Apply(base[t], req[t]) # base[t]
  /\ \E tick \in {clock, clock + 1} :
       /\ DistinctStamps => tick = clock + 1
       /\ stamp[t] < tick /\ tick <= MaxTicks
       /\ clock' = tick
       /\ stamp' = [stamp EXCEPT ![t] = tick]
  /\ pc' = [pc EXCEPT ![t] = "dumped"]
  /\ UNCHANGED <<file, lock, req, base, readers>>

(* os.replace, and the lock is released.                                   *)
Replace(t) ==
  /\ pc[t] = "dumped"
  /\ file' = [doc |-> Apply(base[t], req[t]), mtime |-> stamp[t]]
  /\ pc' = [pc EXCEPT ![t] = "idle"]
  /\ Release(t)
  /\ UNCHANGED <<clock, req, base, stamp, readers>>

-----------------------------------------------------------------------------
(* Readers: one refresh of the cache                                       *)

(* The mtime gate: the cache is used as it is.                             *)
Hit(r) == file.mtime = key[r]

Stat(r) ==
  /\ rpc[r] = "idle"
  /\ ~Hit(r)
  /\ rstat' = [rstat EXCEPT ![r] = file.mtime]
  /\ rpc' = [rpc EXCEPT ![r] = "parse"]
  /\ UNCHANGED <<file, clock, writers, key, cached>>

(* The cache is filled from the file as it is now, under the earlier mtime. *)
Fill(r, d) ==
  /\ rpc[r] = "parse"
  /\ key' = [key EXCEPT ![r] = rstat[r]]
  /\ cached' = [cached EXCEPT ![r] = d]
  /\ rpc' = [rpc EXCEPT ![r] = "idle"]
  /\ UNCHANGED <<file, clock, writers, rstat>>

Parse(r) == Fill(r, file.doc)

(* Mutant: the routes of the last good parse, under the new mtime.         *)
ParseFailsKept(r) == ReadsFail /\ Fill(r, cached[r])

(* The "except Exception": no routes and no admins, under that mtime.      *)
ParseFails(r) == ReadsFail /\ Fill(r, EmptyDoc)

-----------------------------------------------------------------------------
(* A process dies, with its lock and its cache, and is started again.      *)
Crash(p) ==
  /\ lock' = [lock EXCEPT ![p] = NoThread]
  /\ pc' = [t \in Threads |-> IF Process[t] = p THEN "idle" ELSE pc[t]]
  /\ rpc' = [r \in Readers |-> IF Process[r] = p THEN "idle" ELSE rpc[r]]
  /\ key' = [r \in Readers |-> IF Process[r] = p THEN NoKey ELSE key[r]]
  /\ cached' = [r \in Readers |-> IF Process[r] = p THEN EmptyDoc ELSE cached[r]]
  /\ UNCHANGED <<file, clock, req, base, stamp, rstat>>

Finish(t) == Keep(t) \/ Dump(t) \/ Replace(t) \/ Raise(t)

Next ==
  \/ \E t \in Threads :
       \/ \E c \in Requests : Load(t, c)
       \/ Finish(t)
  \/ \E r \in Readers : Stat(r) \/ Parse(r) \/ ParseFails(r)
  \/ \E p \in Procs : Crash(p)

Spec == Init /\ [][Next]_vars

(* A thread that holds the lock keeps running.                             *)
FairSpec == Spec /\ \A t \in Threads : WF_vars(Finish(t))

-----------------------------------------------------------------------------
(* The types of the variables.                                             *)
TypeOK ==
  /\ file \in [doc : Docs, mtime : Nat]
  /\ clock \in 0 .. MaxTicks
  /\ lock \in [Procs -> Threads \cup {NoThread}]
  /\ pc \in [Threads -> {"idle", "loaded", "dumped"}]
  /\ req \in [Threads -> Requests]
  /\ base \in [Threads -> Docs]
  /\ stamp \in [Threads -> Nat]
  /\ rpc \in [Readers -> {"idle", "parse"}]
  /\ rstat \in [Readers -> Nat \cup {NoKey}]
  /\ key \in [Readers -> Nat \cup {NoKey}]
  /\ cached \in [Readers -> Docs]

(* One thread of a process is between the load and the rename at a time,   *)
(* and it is the one the process's lock names (the "with _WRITE_LOCK" of    *)
(* every writer of config_routes.py).                                       *)
LockHeld ==
  \A t \in Threads : pc[t] # "idle" => lock[Process[t]] = t

(* A reader that does not reparse, because the mtime it sees is the one its *)
(* cache was filled under, holds the document that is in the file, or       *)
(* nothing at all if its last parse failed (plugin._refresh_routes_cache).  *)
NeverStale ==
  \A r \in Readers :
    rpc[r] = "idle" /\ Hit(r) => cached[r] \in {file.doc, EmptyDoc}

(* A lock that is taken is given back, whichever way the writer leaves.    *)
LockReleased == \A p \in Procs : lock[p] # NoThread ~> lock[p] = NoThread

(* The writers of config_routes.py implement the atomic document.          *)
Atomic == INSTANCE AtomicConfig WITH config <- file.doc
AtomicSpec == Atomic!Spec
=============================================================================
