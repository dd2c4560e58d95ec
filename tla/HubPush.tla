-------------------------------- MODULE HubPush --------------------------------
(***************************************************************************)
(* The live push to the hub, hub_push.py: threads that have something to    *)
(* say put an event into one bounded queue, and a thread of its own pumps   *)
(* the queue into a WebSocket, which it dials again when it is gone.        *)
(*                                                                         *)
(* An enqueue is three calls of a thread-safe queue and not one, so other   *)
(* threads come in between: put; if that finds the queue full, get the      *)
(* oldest; put again.  An event is named by its producer and a number.      *)
(*                                                                         *)
(* The socket is external: a broken one may still take an event, which is   *)
(* then gone, or raise; and a send may raise although the event arrived.    *)
(***************************************************************************)
EXTENDS Integers, Sequences, FiniteSets

CONSTANTS Producers,  \* the threads that enqueue
          Capacity,   \* _MAX_QUEUE
          MaxEvents,  \* bound: the events of each producer
          MaxBreaks   \* bound: how often the socket breaks

ASSUME PushAssumption ==
  /\ IsFiniteSet(Producers)
  /\ Capacity \in Nat \ {0}
  /\ MaxEvents \in Nat /\ MaxBreaks \in Nat

VARIABLES made,     \* the events of each producer so far
          adding,   \* what each producer is about to do with its latest event
          q,        \* the queue
          hand,     \* the event the pump is sending, if any
          pump,     \* what the pump does
          wire,     \* the socket still reaches the hub
          up,       \* the hub can be dialled
          breaks,   \* how often the socket broke
          stopping, \* HERMES_GATEWAY_SHUTTING_DOWN
          got,      \* what arrived at the hub, in order
          sunk,     \* history: events a broken socket took
          again,    \* history: events that were put back, and whether they had arrived
          peak      \* history: the most events that were on their way at once

vars == <<made, adding, q, hand, pump, wire, up, breaks, stopping, got, sunk, again, peak>>
link == <<pump, wire, up, breaks, stopping>>
past == <<got, sunk, again>>

Event == Producers \X (1 .. MaxEvents)
Latest(p) == <<p, made[p]>>
Elements(s) == {s[i] : i \in 1 .. Len(s)}

Init ==
  /\ made = [p \in Producers |-> 0] /\ adding = [p \in Producers |-> "nothing"]
  /\ q = <<>> /\ hand = <<>> /\ got = <<>>
  /\ pump = "dialling" /\ wire = FALSE /\ up \in BOOLEAN /\ breaks = 0
  /\ stopping = FALSE
  /\ sunk = {} /\ again = {} /\ peak = 0

-----------------------------------------------------------------------------
(* The producers                                                           *)

Adding == {p \in Producers : adding[p] # "nothing"}
OnTheWay == Len(q) + Len(hand) + Cardinality(Adding)
Higher(m, n) == IF n > m THEN n ELSE m

Make(p) ==
  /\ adding[p] = "nothing" /\ made[p] < MaxEvents
  /\ made' = [made EXCEPT ![p] = @ + 1]
  /\ adding' = [adding EXCEPT ![p] = "put"]
  /\ peak' = Higher(peak, OnTheWay + 1)
  /\ UNCHANGED <<q, hand, link, past>>

(* Mutants: a queue without a limit; a stack for a queue; a queue that is   *)
(* full with one event less.                                               *)
PutAlways(p, otherwise) ==
  /\ q' = Append(q, Latest(p))
  /\ adding' = [adding EXCEPT ![p] = "nothing"]
PutOnTop(p, otherwise) ==
  \/ /\ Len(q) < Capacity
     /\ q' = <<Latest(p)>> \o q
     /\ adding' = [adding EXCEPT ![p] = "nothing"]
  \/ /\ Len(q) = Capacity
     /\ q' = q
     /\ adding' = [adding EXCEPT ![p] = otherwise]

PutEarly(p, otherwise) ==
  \/ /\ Len(q) < Capacity - 1
     /\ q' = Append(q, Latest(p))
     /\ adding' = [adding EXCEPT ![p] = "nothing"]
  \/ /\ Len(q) >= Capacity - 1
     /\ q' = q
     /\ adding' = [adding EXCEPT ![p] = otherwise]

(* put_nowait: full or not.                                                *)
PutNowait(p, otherwise) ==
  \/ /\ Len(q) < Capacity
     /\ q' = Append(q, Latest(p))
     /\ adding' = [adding EXCEPT ![p] = "nothing"]
  \/ /\ Len(q) = Capacity
     /\ q' = q
     /\ adding' = [adding EXCEPT ![p] = otherwise]

Put(p) ==
  /\ adding[p] = "put"
  /\ PutNowait(p, "evict")
  /\ UNCHANGED <<made, hand, link, past, peak>>

(* The oldest goes, if the pump has not emptied the queue meanwhile.       *)
Evict(p) ==
  /\ adding[p] = "evict"
  /\ q' = IF q = <<>> THEN q ELSE Tail(q)
  /\ adding' = [adding EXCEPT ![p] = "retry"]
  /\ UNCHANGED <<made, hand, link, past, peak>>

(* If another producer has filled the gap, the new event goes.             *)
Retry(p) ==
  /\ adding[p] = "retry"
  /\ PutNowait(p, "nothing")
  /\ UNCHANGED <<made, hand, link, past, peak>>

Enqueue(p) == Put(p) \/ Evict(p) \/ Retry(p)

-----------------------------------------------------------------------------
(* The pump                                                                *)

(* A connect that fails is tried again after a while (the back-off is not  *)
(* modelled: it has no bound but the 30 s between two tries).              *)
Dial ==
  /\ pump = "dialling" /\ ~stopping /\ up
  /\ pump' = "getting" /\ wire' = TRUE
  /\ UNCHANGED <<made, adding, q, hand, up, breaks, stopping, past, peak>>

Get ==
  /\ pump = "getting" /\ q # <<>>
  /\ hand' = <<Head(q)>> /\ q' = Tail(q)
  /\ pump' = "sending"
  /\ UNCHANGED <<made, adding, wire, up, breaks, stopping, past, peak>>

(* What the pump does next: it looks at the shutdown flag between events.  *)
Unless(stop, other) == IF stop THEN "done" ELSE other

(* A send returns: the event arrived, or went into a broken socket.        *)
SendReturns(back) ==
  /\ pump = "sending"
  /\ hand' = <<>> /\ pump' = Unless(stopping, "getting")
  /\ IF wire THEN got' = got \o hand /\ UNCHANGED sunk
             ELSE sunk' = sunk \cup Elements(hand) /\ UNCHANGED got
  /\ q' = IF Len(q) < Capacity THEN q \o back ELSE q
  /\ wire' = (wire /\ ~stopping)
  /\ UNCHANGED <<made, adding, up, breaks, stopping, again, peak>>

(* Mutant: put back in a finally, not in an except.                        *)
SentAndBack == SendReturns(hand)

Sent == SendReturns(<<>>)

(* A send raises, after the event arrived or not, and the socket is given   *)
(* up; back is what is put at the end of the queue if there is room.  On a  *)
(* good socket this is a break in a send that had done its work.            *)
SendRaises(arrived, back, next) ==
  /\ pump = "sending"
  /\ wire = arrived
  /\ arrived => breaks < MaxBreaks
  /\ breaks' = IF arrived THEN breaks + 1 ELSE breaks
  /\ got' = IF arrived THEN got \o hand ELSE got
  /\ hand' = <<>>
  /\ q' = IF Len(q) < Capacity THEN q \o back ELSE q
  /\ again' = again \cup {[event |-> e, arrived |-> arrived] : e \in Elements(hand)}
  /\ pump' = next /\ wire' = FALSE
  /\ UNCHANGED <<made, adding, up, stopping, sunk, peak>>

(* Mutants: the event is not put back; the exception ends the thread.      *)
RaisedGone(arrived) == SendRaises(arrived, <<>>, Unless(stopping, "dialling"))
RaisedOut(arrived) == SendRaises(arrived, hand, "done")

Raised(arrived) == SendRaises(arrived, hand, Unless(stopping, "dialling"))

(* The ping of an idle socket raises.                                      *)
PingFails ==
  /\ pump = "getting" /\ ~wire
  /\ pump' = Unless(stopping, "dialling")
  /\ UNCHANGED <<made, adding, q, hand, wire, up, breaks, stopping, past, peak>>

(* Nothing to send for a second, or nobody to dial, and the gateway stops. *)
Leave ==
  /\ stopping
  /\ pump = "dialling" \/ (pump = "getting" /\ q = <<>>)
  /\ pump' = "done" /\ wire' = FALSE
  /\ UNCHANGED <<made, adding, q, hand, up, breaks, stopping, past, peak>>

-----------------------------------------------------------------------------
(* The world                                                               *)

Break ==
  /\ wire /\ breaks < MaxBreaks
  /\ breaks' = breaks + 1 /\ wire' = FALSE /\ up' \in BOOLEAN
  /\ UNCHANGED <<made, adding, q, hand, pump, stopping, past, peak>>

HubBack ==
  /\ ~up /\ up' = TRUE
  /\ UNCHANGED <<made, adding, q, hand, pump, wire, breaks, stopping, past, peak>>

Shutdown ==
  /\ ~stopping /\ stopping' = TRUE
  /\ UNCHANGED <<made, adding, q, hand, pump, wire, up, breaks, past, peak>>

Pump == Dial \/ Get \/ Sent \/ (\E arrived \in BOOLEAN : Raised(arrived)) \/ PingFails \/ Leave
World == Break \/ HubBack \/ Shutdown

Next == (\E p \in Producers : Make(p) \/ Enqueue(p)) \/ Pump \/ World

(* Threads run; nothing says that the hub comes back.                      *)
Fairness == WF_vars(Pump) /\ \A p \in Producers : WF_vars(Enqueue(p))

Spec == Init /\ [][Next]_vars /\ Fairness

-----------------------------------------------------------------------------
(* The types of the variables: the queue never holds more than it may, and *)
(* the pump has an event in its hand while it sends and at no other time.  *)
TypeOK ==
  /\ made \in [Producers -> 0 .. MaxEvents]
  /\ adding \in [Producers -> {"nothing", "put", "evict", "retry"}]
  /\ q \in Seq(Event) /\ Len(q) <= Capacity
  /\ hand \in Seq(Event) /\ Len(hand) = IF pump = "sending" THEN 1 ELSE 0
  /\ pump \in {"dialling", "getting", "sending", "done"}
  /\ wire \in BOOLEAN /\ up \in BOOLEAN /\ stopping \in BOOLEAN
  /\ wire => pump \in {"getting", "sending"}
  /\ breaks \in 0 .. MaxBreaks
  /\ got \in Seq(Event) /\ sunk \subseteq Event
  /\ again \subseteq [event : Event, arrived : BOOLEAN]
  /\ peak \in Nat

(* "A bounded offline queue buffers events while disconnected [...] so a    *)
(* brief blip doesn't drop notifications" (hub_push.py): every event is     *)
(* still on its way, has arrived, or went into a socket that was dead       *)
(* already, as long as there were never more of them on their way at once   *)
(* than the queue holds.                                                    *)
Pending(p) == IF adding[p] = "nothing" THEN {} ELSE {Latest(p)}
Kept == Elements(q) \cup Elements(hand) \cup Elements(got) \cup sunk \cup UNION {Pending(p) : p \in Producers}

BlipDropsNothing ==
  peak <= Capacity => \A p \in Producers : \A n \in 1 .. made[p] : <<p, n>> \in Kept

(* An event is never in the queue twice, nor in the queue and in the hand,  *)
(* and arrives a second time only if a send of it raised after the fact:    *)
(* what the ids of the events are for.                                      *)
NoDuplicates ==
  /\ \A i, j \in 1 .. Len(q \o hand) : (q \o hand)[i] = (q \o hand)[j] => i = j
  /\ \A i, j \in 1 .. Len(got) : got[i] = got[j] => i = j \/ [event |-> got[i], arrived |-> TRUE] \in again
  /\ \A e \in Elements(q \o hand) : e \notin sunk /\ (e \in Elements(got) => [event |-> e, arrived |-> TRUE] \in again)

(* The events of one producer arrive in the order it made them, except that *)
(* one which was put back comes later.                                      *)
InOrder ==
  \A i, j \in 1 .. Len(got) :
     i < j /\ got[i][1] = got[j][1] /\ got[i][2] > got[j][2]
       => \E r \in again : r.event = got[j]

(* The live push is the feed that it is meant to be, whatever the pump, the *)
(* producers and the socket do in between: while no socket broke and there  *)
(* was always room for all, exactly what is made arrives, in order.         *)
Waiting == Elements(q) \cup Elements(hand) \cup UNION {Pending(p) : p \in Producers}
Calm == peak <= Capacity /\ breaks = 0

Feed == INSTANCE EventFeed WITH waiting <- Waiting, calm <- Calm
FeedSpec == Feed!Spec

(* "Flushed on connect": once the hub can be dialled and stays so, what is  *)
(* queued goes out (the pump comes back from every broken socket).          *)
Drains == <>[](up /\ ~stopping) => <>[](q = <<>> /\ hand = <<>>)
=============================================================================
