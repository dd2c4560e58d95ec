------------------------------ MODULE EventFeed ------------------------------
(***************************************************************************)
(* What the live push promises its hub ("A bounded offline queue buffers    *)
(* events while disconnected [...] so a brief blip doesn't drop             *)
(* notifications", hub_push.py): a feed of what the producers make.  As     *)
(* long as all is calm, nothing is given up, and the events of a producer   *)
(* arrive once each and in the order they were made.  After that an event   *)
(* that waits may be given up, overtaken, or arrive and still wait.         *)
(***************************************************************************)
EXTENDS Naturals, Sequences

CONSTANTS Producers,  \* the threads that enqueue
          MaxEvents   \* bound: the events of each producer

VARIABLES made,     \* the events of each producer so far
          waiting,  \* the events that are yet to arrive
          got,      \* what arrived, in order
          calm      \* no socket broke, and the queue was never too small

vars == <<made, waiting, got, calm>>

Init ==
  /\ made = [p \in Producers |-> 0]
  /\ waiting = {} /\ got = <<>> /\ calm = TRUE

Make(p) ==
  /\ made[p] < MaxEvents
  /\ made' = [made EXCEPT ![p] = @ + 1]
  /\ waiting' = waiting \cup {<<p, made[p] + 1>>}
  /\ got' = got

(* Nothing of the same producer waits longer.                              *)
Oldest(e) == \A o \in waiting : o[1] = e[1] => o[2] >= e[2]

Arrive(e) ==
  /\ got' = Append(got, e)
  /\ IF calm' THEN Oldest(e) /\ waiting' = waiting \ {e}
              ELSE waiting' \in {waiting, waiting \ {e}}
  /\ made' = made

GiveUp(e) == ~calm' /\ waiting' = waiting \ {e} /\ UNCHANGED <<made, got>>

Upset == ~calm' /\ UNCHANGED <<made, waiting, got>>

Next ==
  /\ calm' => calm
  /\ \/ \E p \in Producers : Make(p)
     \/ \E e \in waiting : Arrive(e) \/ GiveUp(e)
     \/ Upset

Spec == Init /\ [][Next]_vars
=============================================================================
