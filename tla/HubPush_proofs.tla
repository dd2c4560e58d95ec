---------------------------- MODULE HubPush_proofs ----------------------------
(***************************************************************************)
(* Theorems about the live push, for any capacity, number of producers,     *)
(* events and breaks.  Those about the queue are proved of HubPush alone, of *)
(* which each step of ProfilePush is a step or a stutter.                  *)
(***************************************************************************)
EXTENDS ProfilePush, FiniteSetTheorems, SequenceTheorems, TLAPS

-----------------------------------------------------------------------------
(* What the operations on sequences do to the elements.                    *)

LEMMA AppendElements ==
  ASSUME NEW S, NEW s \in Seq(S), NEW e \in S
  PROVE  /\ Append(s, e) \in Seq(S) /\ Len(Append(s, e)) = Len(s) + 1
         /\ Elements(Append(s, e)) = Elements(s) \cup {e}
<1>1. Append(s, e) \in Seq(S) /\ Len(Append(s, e)) = Len(s) + 1
  OBVIOUS
<1>2. \A i \in 1 .. Len(s) : Append(s, e)[i] = s[i]
  OBVIOUS
<1>3. Append(s, e)[Len(s) + 1] = e
  OBVIOUS
<1>4. Elements(Append(s, e)) = Elements(s) \cup {e}
  BY <1>1, <1>2, <1>3 DEF Elements
<1>5. QED BY <1>1, <1>4

LEMMA TailElements ==
  ASSUME NEW S, NEW s \in Seq(S), s # <<>>
  PROVE  /\ Tail(s) \in Seq(S) /\ Len(Tail(s)) = Len(s) - 1 /\ Head(s) \in S
         /\ Elements(s) = {Head(s)} \cup Elements(Tail(s))
<1>1. Tail(s) \in Seq(S) /\ Len(Tail(s)) = Len(s) - 1 /\ Len(s) \in Nat /\ Len(s) > 0
  OBVIOUS
<1>2. \A i \in 1 .. Len(s) - 1 : Tail(s)[i] = s[i + 1]
  OBVIOUS
<1>3. Head(s) = s[1] /\ Head(s) \in S
  OBVIOUS
<1>4. ASSUME NEW x \in Elements(s) PROVE x \in {Head(s)} \cup Elements(Tail(s))
  <2>1. PICK i \in 1 .. Len(s) : x = s[i] BY DEF Elements
  <2>2. CASE i = 1 BY <2>1, <2>2, <1>3
  <2>3. CASE i # 1
    <3>1. i - 1 \in 1 .. Len(s) - 1 /\ (i - 1) + 1 = i BY <2>3, <1>1
    <3>2. Tail(s)[i - 1] = x BY <3>1, <2>1, <1>2
    <3>3. QED BY <3>1, <3>2, <1>1 DEF Elements
  <2>4. QED BY <2>2, <2>3
<1>5. ASSUME NEW x \in {Head(s)} \cup Elements(Tail(s)) PROVE x \in Elements(s)
  <2>1. CASE x = Head(s) BY <2>1, <1>1, <1>3 DEF Elements
  <2>2. CASE x \in Elements(Tail(s))
    <3>1. PICK i \in 1 .. Len(s) - 1 : x = Tail(s)[i] BY <2>2, <1>1 DEF Elements
    <3>2. i + 1 \in 1 .. Len(s) /\ x = s[i + 1] BY <3>1, <1>1, <1>2
    <3>3. QED BY <3>2 DEF Elements
  <2>3. QED BY <2>1, <2>2
<1>6. QED BY <1>1, <1>3, <1>4, <1>5

LEMMA OneElement ==
  ASSUME NEW S, NEW e \in S
  PROVE  <<e>> \in Seq(S) /\ Len(<<e>>) = 1 /\ Elements(<<e>>) = {e}
BY DEF Elements

LEMMA NoElement ==
  ASSUME NEW S
  PROVE  <<>> \in Seq(S) /\ Len(<<>>) = 0 /\ Elements(<<>>) = {}
BY DEF Elements

(* What is put back or has arrived is one event at the end, or nothing.     *)
LEMMA OneOrNone ==
  ASSUME NEW S, NEW h \in Seq(S), Len(h) \in {0, 1}
  PROVE  \/ h = <<>>
         \/ \E e \in S : h = <<e>>
<1>1. CASE Len(h) = 0 BY <1>1
<1>2. CASE Len(h) = 1
  <2>1. h[1] \in S /\ h = <<h[1]>> BY <1>2
  <2>2. QED BY <2>1
<1>3. QED BY <1>1, <1>2

LEMMA ConcatOne ==
  ASSUME NEW S, NEW s \in Seq(S), NEW h \in Seq(S), Len(h) \in {0, 1}
  PROVE  /\ s \o h \in Seq(S) /\ Len(s \o h) = Len(s) + Len(h)
         /\ Elements(s \o h) = Elements(s) \cup Elements(h)
<1>1. CASE h = <<>>
  <2>1. s \o h = s BY <1>1
  <2>2. QED BY <2>1, <1>1, NoElement
<1>2. CASE \E e \in S : h = <<e>>
  <2>1. PICK e \in S : h = <<e>> BY <1>2
  <2>2. s \o h = Append(s, e) BY <2>1, AppendIsConcat
  <2>3. Len(h) = 1 /\ Elements(h) = {e} BY <2>1, OneElement
  <2>4. Append(s, e) \in Seq(S) /\ Len(Append(s, e)) = Len(s) + 1 /\ Elements(Append(s, e)) = Elements(s) \cup {e}
    BY AppendElements
  <2>5. QED BY <2>2, <2>3, <2>4
<1>3. QED BY <1>1, <1>2, OneOrNone

-----------------------------------------------------------------------------
(* Type correctness                                                        *)

(* The part of TypeOK about the events, and the rest.                      *)
EventsOK ==
  /\ q \in Seq(Event) /\ Len(q) <= Capacity
  /\ hand \in Seq(Event) /\ Len(hand) = IF pump = "sending" THEN 1 ELSE 0
  /\ got \in Seq(Event) /\ sunk \subseteq Event
  /\ again \subseteq [event : Event, arrived : BOOLEAN]
CountsOK ==
  /\ made \in [Producers -> 0 .. MaxEvents]
  /\ breaks \in 0 .. MaxBreaks /\ peak \in Nat
SwitchesOK ==
  /\ adding \in [Producers -> {"nothing", "put", "evict", "retry"}]
  /\ pump \in {"dialling", "getting", "sending", "done"}
  /\ wire \in BOOLEAN /\ up \in BOOLEAN /\ stopping \in BOOLEAN
  /\ wire => pump \in {"getting", "sending"}

LEMMA TypeParts == TypeOK <=> EventsOK /\ CountsOK /\ SwitchesOK
BY DEF TypeOK, EventsOK, CountsOK, SwitchesOK

(* The number of events on their way is one.                               *)
LEMMA OnTheWayNat ==
  ASSUME EventsOK
  PROVE  /\ IsFiniteSet(Adding) /\ Cardinality(Adding) \in Nat
         /\ Len(q) \in Nat /\ Len(hand) \in Nat /\ OnTheWay \in Nat
<1>1. IsFiniteSet(Adding) BY PushAssumption, FS_Subset DEF Adding
<1>2. Cardinality(Adding) \in Nat BY <1>1, FS_CardinalityType
<1>3. Len(q) \in Nat /\ Len(hand) \in Nat BY DEF EventsOK
<1>4. QED BY <1>1, <1>2, <1>3 DEF OnTheWay

(* An event that is being added is one.                                    *)
LEMMA LatestType ==
  ASSUME CountsOK, NEW p \in Producers, made[p] # 0
  PROVE  Latest(p) \in Event
BY PushAssumption DEF CountsOK, Latest, Event

(* Who adds an event has made one.                                         *)
AddsMade == \A p \in Producers : adding[p] # "nothing" => made[p] # 0

TypeInv == EventsOK /\ CountsOK /\ SwitchesOK /\ AddsMade

LEMMA MakeTyped ==
  ASSUME TypeInv, NEW p \in Producers, Make(p)
  PROVE  TypeInv'
<1>1. EventsOK' BY DEF TypeInv, Make, link, past, EventsOK
<1>2. CountsOK'
  <2>1. made' \in [Producers -> 0 .. MaxEvents] BY PushAssumption DEF TypeInv, Make, CountsOK
  <2>2. peak' \in Nat
    <3>1. OnTheWay \in Nat BY OnTheWayNat DEF TypeInv
    <3>2. QED BY <3>1 DEF TypeInv, Make, CountsOK, Higher
  <2>3. QED BY <2>1, <2>2 DEF TypeInv, Make, link, CountsOK
<1>3. SwitchesOK' BY DEF TypeInv, Make, link, SwitchesOK
<1>4. AddsMade'
  <2>1. made[p] \in Nat /\ made'[p] = made[p] + 1 BY DEF TypeInv, Make, CountsOK
  <2>2. made'[p] # 0 BY <2>1
  <2>3. \A r \in Producers \ {p} : made'[r] = made[r] /\ adding'[r] = adding[r]
    BY DEF TypeInv, Make, CountsOK, SwitchesOK
  <2>4. QED BY <2>2, <2>3 DEF TypeInv, AddsMade
<1>5. QED BY <1>1, <1>2, <1>3, <1>4 DEF TypeInv

(* What an enqueue does to the queue: it takes the oldest, adds the latest, *)
(* or leaves it alone.                                                     *)
LEMMA EnqueueCases ==
  ASSUME TypeInv, NEW p \in Producers, Enqueue(p)
  PROVE  /\ UNCHANGED <<made, hand, link, past, peak>>
         /\ adding[p] # "nothing"
         /\ \E a \in {"nothing", "evict", "retry"} : adding' = [adding EXCEPT ![p] = a]
         /\ \/ /\ Len(q) < Capacity /\ q' = Append(q, Latest(p))
               /\ adding' = [adding EXCEPT ![p] = "nothing"]
            \/ Len(q) = Capacity /\ q' = q
            \/ adding[p] = "evict" /\ q' = (IF q = <<>> THEN q ELSE Tail(q))
<1>1. CASE Put(p) BY <1>1 DEF Put, PutNowait
<1>2. CASE Evict(p) BY <1>2 DEF Evict
<1>3. CASE Retry(p) BY <1>3 DEF Retry, PutNowait
<1>4. QED BY <1>1, <1>2, <1>3 DEF Enqueue

LEMMA EnqueueTyped ==
  ASSUME TypeInv, NEW p \in Producers, Enqueue(p)
  PROVE  TypeInv'
<1>1. q' \in Seq(Event) /\ Len(q') <= Capacity
  <2>1. q \in Seq(Event) /\ Len(q) <= Capacity /\ Len(q) \in Nat BY DEF TypeInv, EventsOK
  <2>2. CASE Len(q) < Capacity /\ q' = Append(q, Latest(p))
    <3>1. Latest(p) \in Event BY EnqueueCases, LatestType DEF TypeInv, AddsMade
    <3>2. QED BY <2>1, <2>2, <3>1, PushAssumption, AppendElements
  <2>3. CASE q' = q BY <2>1, <2>3
  <2>4. CASE q # <<>> /\ q' = Tail(q) BY <2>1, <2>4, PushAssumption, TailElements
  <2>5. QED BY <2>2, <2>3, <2>4, EnqueueCases
<1>2. EventsOK' BY <1>1, EnqueueCases DEF TypeInv, EventsOK, link, past
<1>3. CountsOK' BY EnqueueCases DEF TypeInv, CountsOK, link
<1>4. SwitchesOK' BY EnqueueCases DEF TypeInv, SwitchesOK, link
<1>5. AddsMade' BY EnqueueCases DEF TypeInv, AddsMade, SwitchesOK
<1>6. QED BY <1>2, <1>3, <1>4, <1>5 DEF TypeInv

(* What the pump sends is one event.                                       *)
LEMMA InHand ==
  ASSUME TypeInv, pump = "sending"
  PROVE  \E e \in Event : hand = <<e>>
<1>1. hand \in Seq(Event) /\ Len(hand) = 1 BY DEF TypeInv, EventsOK
<1>2. hand # <<>> BY <1>1, NoElement
<1>3. QED BY <1>1, <1>2, OneOrNone

LEMMA GetTyped ==
  ASSUME TypeInv, Get
  PROVE  TypeInv'
<1>1. EventsOK'
  <2>1. q \in Seq(Event) /\ Len(q) \in Nat /\ Len(q) <= Capacity /\ q # <<>> BY DEF Get, TypeInv, EventsOK
  <2>2. Tail(q) \in Seq(Event) /\ Len(Tail(q)) = Len(q) - 1 /\ Head(q) \in Event BY <2>1, TailElements
  <2>3. <<Head(q)>> \in Seq(Event) /\ Len(<<Head(q)>>) = 1 BY <2>2, OneElement
  <2>4. QED BY <2>1, <2>2, <2>3, PushAssumption DEF Get, past, TypeInv, EventsOK
<1>2. CountsOK' BY DEF Get, TypeInv, CountsOK
<1>3. SwitchesOK' BY DEF Get, TypeInv, SwitchesOK
<1>4. AddsMade' BY DEF Get, TypeInv, AddsMade
<1>5. QED BY <1>1, <1>2, <1>3, <1>4 DEF TypeInv

(* What a send does to the events, whether it returns or raises: the queue  *)
(* stays, or gets back what was in the hand; the hub or the dead socket     *)
(* may have got it.                                                        *)
LEMMA SendCases ==
  ASSUME TypeInv, NEW arrived \in BOOLEAN, Sent \/ Raised(arrived)
  PROVE  /\ pump = "sending" /\ hand' = <<>> /\ UNCHANGED <<made, adding, up, stopping, peak>>
         /\ pump' \in {"getting", "dialling", "done"}
         /\ \/ /\ q' = q /\ again' = again
               /\ \/ got' = got \o hand /\ sunk' = sunk
                  \/ got' = got /\ sunk' = sunk \cup Elements(hand)
            \/ /\ q' = IF Len(q) < Capacity THEN q \o hand ELSE q
               /\ sunk' = sunk
               /\ got' = IF arrived THEN got \o hand ELSE got
               /\ again' = again \cup {[event |-> e, arrived |-> arrived] : e \in Elements(hand)}
<1>1. CASE Sent
  <2>1. q \o <<>> = q BY ConcatEmptySeq DEF TypeInv, EventsOK
  <2>2. QED BY <1>1, <2>1 DEF Sent, SendReturns, Unless
<1>2. CASE Raised(arrived) BY <1>2 DEF Raised, SendRaises, Unless
<1>3. QED BY <1>1, <1>2

LEMMA SendTyped ==
  ASSUME TypeInv, NEW arrived \in BOOLEAN, Sent \/ Raised(arrived)
  PROVE  TypeInv'
<1>1. PICK e \in Event : hand = <<e>> BY SendCases, InHand
<1>2. Elements(hand) = {e} /\ Len(hand) = 1 /\ hand \in Seq(Event) BY <1>1, OneElement
<1>3. q \in Seq(Event) /\ Len(q) \in Nat /\ got \in Seq(Event) BY DEF TypeInv, EventsOK
<1>4. q' \in Seq(Event) /\ Len(q') <= Capacity
  <2>1. q \o hand \in Seq(Event) /\ Len(q \o hand) = Len(q) + 1 BY <1>2, <1>3, ConcatOne
  <2>2. Len(q) <= Capacity BY DEF TypeInv, EventsOK
  <2>3. CASE q' = q BY <1>3, <2>2, <2>3
  <2>4. CASE Len(q) < Capacity /\ q' = q \o hand BY <1>3, <2>1, <2>4, PushAssumption
  <2>5. QED BY <2>3, <2>4, SendCases
<1>5. got' \in Seq(Event)
  <2>1. got \o hand \in Seq(Event) BY <1>2, <1>3, ConcatOne
  <2>2. QED BY <1>3, <2>1, SendCases
<1>6. sunk' \subseteq Event /\ again' \subseteq [event : Event, arrived : BOOLEAN]
  BY <1>2, SendCases DEF TypeInv, EventsOK
<1>7. hand' \in Seq(Event) /\ Len(hand') = IF pump' = "sending" THEN 1 ELSE 0
  BY SendCases, NoElement
<1>8. EventsOK' BY <1>4, <1>5, <1>6, <1>7 DEF EventsOK
<1>9. CountsOK'
  <2>1. breaks' \in 0 .. MaxBreaks
    BY PushAssumption DEF Sent, SendReturns, Raised, SendRaises, TypeInv, CountsOK
  <2>2. QED BY <2>1, SendCases DEF TypeInv, CountsOK
<1>10. SwitchesOK'
  <2>1. wire' \in BOOLEAN /\ (wire' => pump' \in {"getting", "sending"})
    BY DEF Sent, SendReturns, Raised, SendRaises, Unless, TypeInv, SwitchesOK
  <2>2. QED BY <2>1, SendCases DEF TypeInv, SwitchesOK
<1>11. AddsMade' BY SendCases DEF TypeInv, AddsMade
<1>12. QED BY <1>8, <1>9, <1>10, <1>11 DEF TypeInv

(* The other steps have nothing to do with the events.                     *)
Elsewhere == Dial \/ PingFails \/ Leave \/ Break \/ HubBack \/ Shutdown \/ UNCHANGED vars

LEMMA ElsewhereCases ==
  ASSUME TypeInv, Elsewhere
  PROVE  UNCHANGED <<made, adding, q, hand, past, peak>> /\ (pump' = "sending" <=> pump = "sending")
<1>1. CASE Dial BY <1>1 DEF Dial
<1>2. CASE PingFails BY <1>2 DEF PingFails, Unless
<1>3. CASE Leave BY <1>3 DEF Leave
<1>4. CASE Break BY <1>4 DEF Break
<1>5. CASE HubBack \/ Shutdown BY <1>5 DEF HubBack, Shutdown
<1>6. CASE UNCHANGED vars BY <1>6 DEF vars, link, past
<1>7. QED BY <1>1, <1>2, <1>3, <1>4, <1>5, <1>6 DEF Elsewhere

LEMMA ElsewhereTyped ==
  ASSUME TypeInv, Elsewhere
  PROVE  TypeInv'
<1>1. EventsOK' BY ElsewhereCases DEF TypeInv, EventsOK, past
<1>2. CountsOK'
  <2>1. breaks' \in 0 .. MaxBreaks
    BY PushAssumption DEF Elsewhere, Dial, PingFails, Leave, Break, HubBack, Shutdown, vars, link, TypeInv, CountsOK
  <2>2. QED BY <2>1, ElsewhereCases DEF TypeInv, CountsOK
<1>3. SwitchesOK'
  <2>1. CASE Dial BY <2>1 DEF Dial, TypeInv, SwitchesOK
  <2>2. CASE PingFails BY <2>2 DEF PingFails, Unless, TypeInv, SwitchesOK
  <2>3. CASE Leave BY <2>3 DEF Leave, TypeInv, SwitchesOK
  <2>4. CASE Break BY <2>4 DEF Break, TypeInv, SwitchesOK
  <2>5. CASE HubBack \/ Shutdown
    <3>1. CASE HubBack BY <3>1 DEF HubBack, TypeInv, SwitchesOK
    <3>2. CASE Shutdown BY <3>2 DEF Shutdown, TypeInv, SwitchesOK
    <3>3. QED BY <2>5, <3>1, <3>2
  <2>6. CASE UNCHANGED vars BY <2>6 DEF vars, link, TypeInv, SwitchesOK
  <2>7. QED BY <2>1, <2>2, <2>3, <2>4, <2>5, <2>6 DEF Elsewhere
<1>4. AddsMade' BY ElsewhereCases DEF TypeInv, AddsMade
<1>5. QED BY <1>1, <1>2, <1>3, <1>4 DEF TypeInv

(* The steps by what they do to the events.                                *)
LEMMA StepCases ==
  ASSUME [Next]_vars
  PROVE  \/ \E p \in Producers : Make(p)
         \/ \E p \in Producers : Enqueue(p)
         \/ Get
         \/ \E arrived \in BOOLEAN : Sent \/ Raised(arrived)
         \/ Elsewhere
BY DEF Next, Pump, World, Elsewhere

LEMMA TypeStep == TypeInv /\ [Next]_vars => TypeInv'
BY StepCases, MakeTyped, EnqueueTyped, GetTyped, SendTyped, ElsewhereTyped

LEMMA TypeStart == Init => TypeInv
<1> SUFFICES ASSUME Init PROVE TypeInv
  OBVIOUS
<1>1. EventsOK BY PushAssumption, NoElement DEF Init, EventsOK
<1>2. CountsOK BY PushAssumption DEF Init, CountsOK
<1>3. SwitchesOK /\ AddsMade BY DEF Init, SwitchesOK, AddsMade
<1>4. QED BY <1>1, <1>2, <1>3 DEF TypeInv

(* Every step of the composition is one of the live push, or none.          *)
LEMMA PushStep == [PNext]_allVars => [Next]_vars
<1> SUFFICES ASSUME [PNext]_allVars PROVE Next \/ UNCHANGED vars
  OBVIOUS
<1>1. CASE Edit BY <1>1 DEF Edit
<1>2. CASE Watch
  <2>1. CASE Nudge
    <3>1. "watch" \in Producers /\ Make("watch") BY <2>1, ProfileAssumption DEF Nudge
    <3>2. QED BY <3>1 DEF Next
  <2>2. CASE Poll \/ ReadRoutes \/ Unreadable \/ Snapshot
    BY <2>2 DEF Poll, Look, ReadRoutes, Read, Unreadable, Snapshot, Posting
  <2>3. QED BY <1>2, <2>1, <2>2 DEF Watch
<1>3. CASE Message
  <2>1. "hook" \in Producers /\ Make("hook") BY <1>3, ProfileAssumption DEF Message
  <2>2. QED BY <2>1 DEF Next
<1>4. CASE \E s \in posts : Post(s) \/ PostFails(s) BY <1>4 DEF Post, PostFails
<1>5. CASE (\E p \in Producers : Enqueue(p)) \/ Pump \/ World BY <1>5 DEF Next
<1>6. CASE UNCHANGED allVars BY <1>6 DEF allVars
<1>7. QED BY <1>1, <1>2, <1>3, <1>4, <1>5, <1>6 DEF PNext

LEMMA PushBehaviour == PSpec => Init /\ [][Next]_vars
<1>1. PInit => Init BY DEF PInit
<1>2. QED BY <1>1, PushStep, PTL DEF PSpec

LEMMA TypeInvariant == PSpec => []TypeInv
BY TypeStart, TypeStep, PushBehaviour, PTL

ConfigOK ==
  /\ edit \in Tables /\ seen \in Maybe /\ first \in Maybe /\ routes \in Maybe
  /\ watch \in [at : {"polling", "reading", "snapshot", "nudging"}, mtime : Maybe]
  /\ posts \subseteq [routes : Maybe, profiles : Maybe]
  /\ table \in [routes : Maybe, profiles : Maybe]
  /\ spoilt \in BOOLEAN

LEMMA ConfigStep == ConfigOK /\ [PNext]_allVars => ConfigOK'
<1> SUFFICES ASSUME ConfigOK, [PNext]_allVars PROVE ConfigOK'
  OBVIOUS
<1>0. Tables \subseteq Maybe /\ Nothing \in Maybe BY DEF Maybe
<1>1. CASE Edit
  <2>1. edit' \in Tables BY <1>1, ProfileAssumption DEF Edit, ConfigOK, Tables
  <2>2. spoilt' \in BOOLEAN BY <1>1 DEF Edit
  <2>3. QED BY <1>1, <2>1, <2>2 DEF Edit, ConfigOK
<1>2. CASE Poll BY <1>0, <1>2 DEF Poll, Look, ConfigOK
<1>3. CASE ReadRoutes BY <1>0, <1>3 DEF ReadRoutes, Read, ConfigOK
<1>4. CASE Unreadable BY <1>0, <1>4 DEF Unreadable, ConfigOK
<1>5. CASE Snapshot
  <2>1. PICK p \in Maybe : Posting(p)
    <3>1. edit \in Maybe BY <1>0 DEF ConfigOK
    <3>2. QED BY <1>0, <1>5, <3>1 DEF Snapshot
  <2>2. posts' \subseteq [routes : Maybe, profiles : Maybe] BY <2>1 DEF Posting, ConfigOK
  <2>3. spoilt' \in BOOLEAN BY <2>1, Zenon DEF Posting, ConfigOK
  <2>4. watch' \in [at : {"polling", "reading", "snapshot", "nudging"}, mtime : Maybe]
    BY <2>1 DEF Posting, ConfigOK
  <2>5. QED BY <2>1, <2>2, <2>3, <2>4 DEF Posting, ConfigOK
<1>6. CASE Nudge BY <1>0, <1>6 DEF Nudge, ConfigOK
<1>7. CASE \E s \in posts : Post(s) \/ PostFails(s) BY <1>7 DEF Post, PostFails, ConfigOK
<1>8. CASE UNCHANGED config BY <1>8 DEF config, ConfigOK
<1>9. QED BY <1>1, <1>2, <1>3, <1>4, <1>5, <1>6, <1>7, <1>8 DEF PNext, Watch, Message, allVars

(* The types of the variables of the live push and of the watch.           *)
THEOREM PushTypes == PSpec => []PTypeOK
<1>1. PInit => ConfigOK
  <2> SUFFICES ASSUME PInit PROVE ConfigOK
    OBVIOUS
  <2>1. 0 \in Tables BY ProfileAssumption DEF Tables
  <2>2. QED BY <2>1 DEF PInit, ConfigOK, Maybe
<1>2. PSpec => []ConfigOK BY <1>1, ConfigStep, PTL DEF PSpec
<1>3. TypeInv /\ ConfigOK => PTypeOK BY TypeParts DEF TypeInv, ConfigOK, PTypeOK
<1>4. QED BY <1>2, <1>3, TypeInvariant, PTL

(* What the watch has noticed: the edits after its first look up to the one  *)
(* it knows, and on its way to a nudge, one that is newer.                 *)
Noticed == IF seen = Nothing THEN 0 ELSE seen - first

NudgeInv ==
  /\ seen = Nothing <=> first = Nothing
  /\ seen # Nothing => first <= seen /\ seen <= edit
  /\ made["watch"] <= Noticed
  /\ watch.at # "polling" =>
       seen # Nothing /\ watch.mtime # Nothing /\ watch.mtime > seen /\ watch.mtime <= edit

LEMMA NudgeStep ==
  ASSUME PTypeOK, NudgeInv, [PNext]_allVars
  PROVE  NudgeInv'
<1>1. /\ edit \in Nat /\ seen \in Nat \cup {Nothing} /\ first \in Nat \cup {Nothing}
      /\ watch \in [at : {"polling", "reading", "snapshot", "nudging"}, mtime : Nat \cup {Nothing}]
  BY ProfileAssumption DEF PTypeOK, Tables, Maybe
<1>2. /\ "hook" \in Producers /\ "watch" \in Producers
      /\ made \in [Producers -> Nat]
  BY ProfileAssumption, PushAssumption DEF PTypeOK, TypeOK
<1>3. CASE Edit
  <2>1. UNCHANGED <<made, seen, first, watch>> /\ edit' = edit + 1 BY <1>3 DEF Edit, vars
  <2>2. QED BY <1>1, <2>1 DEF NudgeInv, Noticed
<1>4. CASE Poll
  <2>1. UNCHANGED <<made, edit>> /\ watch.at = "polling" /\ edit # seen BY <1>4 DEF Poll, Look, vars
  <2>2. CASE seen = Nothing
    <3>1. seen' = edit /\ first' = edit /\ watch' = watch
      BY <1>4, <2>2 DEF Poll, Look, NudgeInv
    <3>2. QED BY <1>1, <1>2, <2>1, <2>2, <3>1 DEF NudgeInv, Noticed
  <2>3. CASE seen # Nothing
    <3>1. /\ seen' = seen /\ first' = first
          /\ watch' = [at |-> "reading", mtime |-> edit]
      BY <1>4, <2>3 DEF Poll, Look, NudgeInv
    <3>2. edit > seen /\ edit # Nothing BY <1>1, <2>1, <2>3 DEF NudgeInv, Nothing
    <3>3. watch'.mtime = edit /\ edit <= edit' BY <1>1, <2>1, <3>1
    <3>4. QED BY <2>1, <2>3, <3>1, <3>2, <3>3 DEF NudgeInv, Noticed
  <2>4. QED BY <2>2, <2>3
<1>5. CASE ReadRoutes \/ Unreadable \/ Snapshot
  <2>1. UNCHANGED <<made, edit, seen, first>> /\ watch.at # "polling" /\ watch'.mtime = watch.mtime
    BY <1>1, <1>5 DEF ReadRoutes, Read, Unreadable, Snapshot, Posting, vars
  <2>2. QED BY <2>1 DEF NudgeInv, Noticed
<1>6. CASE Nudge
  <2>1. /\ watch.at = "nudging" /\ watch'.at = "polling" /\ UNCHANGED <<edit, first>>
        /\ made'["watch"] = made["watch"] + 1
    BY <1>1, <1>2, <1>6 DEF Nudge, Make
  <2>2. watch.mtime > seen /\ seen # Nothing /\ watch.mtime # Nothing /\ watch.mtime <= edit
    BY <2>1 DEF NudgeInv
  <2>3. seen' = watch.mtime BY <1>6, <2>2 DEF Nudge
  <2>4. made'["watch"] <= seen' - first BY <1>1, <1>2, <2>1, <2>2, <2>3 DEF NudgeInv, Noticed
  <2>5. seen' # Nothing /\ first' # Nothing BY <2>1, <2>2, <2>3 DEF NudgeInv
  <2>6. first' <= seen' /\ seen' <= edit'
    BY <1>1, <2>1, <2>2, <2>3 DEF NudgeInv, Nothing
  <2>7. made'["watch"] <= Noticed' BY <2>1, <2>4, <2>5 DEF Noticed
  <2>8. QED BY <2>1, <2>5, <2>6, <2>7 DEF NudgeInv
<1>7. CASE Message
  <2>1. made'["watch"] = made["watch"] /\ UNCHANGED <<edit, seen, first, watch>>
    BY <1>2, <1>7 DEF Message, Make, config
  <2>2. QED BY <2>1 DEF NudgeInv, Noticed
<1>8. CASE \E s \in posts : Post(s) \/ PostFails(s)
  <2>1. UNCHANGED <<made, edit, seen, first, watch>> BY <1>8 DEF Post, PostFails, vars
  <2>2. QED BY <2>1 DEF NudgeInv, Noticed
<1>9. CASE ((\E p \in Producers : Enqueue(p)) \/ Pump \/ World) /\ UNCHANGED config
  <2>1. made' = made
    BY <1>9 DEF Enqueue, Put, Evict, Retry, Pump, Dial, Get, Sent, SendReturns, Raised, SendRaises,
       PingFails, Leave, World, Break, HubBack, Shutdown
  <2>2. QED BY <1>9, <2>1 DEF config, NudgeInv, Noticed
<1>10. CASE UNCHANGED allVars BY <1>10 DEF allVars, vars, config, NudgeInv, Noticed
<1>11. QED BY <1>3, <1>4, <1>5, <1>6, <1>7, <1>8, <1>9, <1>10 DEF PNext, Watch

LEMMA NudgeInvariant == PSpec => []NudgeInv
<1>1. PInit => NudgeInv
  BY ProfileAssumption DEF PInit, Init, NudgeInv, Noticed, Nothing
<1>2. QED BY <1>1, NudgeStep, PushTypes, PTL DEF PSpec

(* There is no nudge before the watch's first look, and there are no more    *)
(* nudges than edits made after that look (_config_watch_loop).             *)
THEOREM NudgesAreEdits == PSpec => []NoSpuriousNudge
<1>1. NudgeInv => NoSpuriousNudge BY DEF NudgeInv, Noticed, NoSpuriousNudge
<1>2. QED BY <1>1, NudgeInvariant, PTL

-----------------------------------------------------------------------------
(* SeenIsShown                                                             *)

(* Unless the present table is spoilt, what the watch is about to post is    *)
(* the present table as soon as its push is for the present mtime, and that  *)
(* it is posted, or shown, holds from the snapshot until the next edit.      *)
Present == [routes |-> edit, profiles |-> edit]
Posted == IF posts = {} THEN table = Present ELSE posts = {Present}

ShownInv ==
  spoilt \/ /\ edit \notin Emptied
            /\ watch.at = "polling" /\ seen \in {edit, Nothing} => Posted
            /\ watch.at = "snapshot" /\ watch.mtime = edit => routes = edit
            /\ watch.at = "nudging" /\ watch.mtime = edit => Posted

LEMMA ShownStep ==
  ASSUME PTypeOK, NudgeInv, ShownInv, [PNext]_allVars
  PROVE  ShownInv'
<1>1. /\ edit \in Nat /\ seen \in Nat \cup {Nothing}
      /\ watch \in [at : {"polling", "reading", "snapshot", "nudging"}, mtime : Nat \cup {Nothing}]
  BY ProfileAssumption DEF PTypeOK, Tables, Maybe
<1>2. Nothing \notin Nat BY DEF Nothing
<1> SUFFICES ASSUME ~spoilt' PROVE ShownInv'
  BY DEF ShownInv
<1>3. CASE Edit
  <2>1. /\ edit' = edit + 1 /\ UNCHANGED <<seen, watch, routes, posts, table>>
        /\ seen # Nothing /\ edit' \notin Emptied
    BY <1>3 DEF Edit
  <2>2. seen' # edit' /\ seen' # Nothing BY <1>1, <1>2, <2>1 DEF NudgeInv
  <2>3. watch.at # "polling" => watch.mtime # edit' BY <1>1, <1>2, <2>1 DEF NudgeInv
  <2>4. QED BY <2>1, <2>2, <2>3 DEF ShownInv
<1>4. CASE Poll
  <2>1. /\ UNCHANGED <<edit, posts, table, spoilt>> /\ watch.at = "polling"
        /\ edit \notin Emptied
    BY <1>4 DEF Poll, Look, ShownInv
  <2>2. CASE seen = Nothing
    <3>1. watch' = watch /\ Posted BY <1>4, <2>1, <2>2 DEF Poll, Look, ShownInv
    <3>2. Posted' BY <2>1, <3>1 DEF Posted, Present
    <3>3. QED BY <2>1, <3>1, <3>2 DEF ShownInv
  <2>3. CASE seen # Nothing
    <3>1. watch'.at = "reading" BY <1>4, <2>3 DEF Poll, Look
    <3>2. QED BY <2>1, <3>1 DEF ShownInv
  <2>4. QED BY <2>2, <2>3
<1>5. CASE ReadRoutes
  <2>1. routes' = edit /\ UNCHANGED <<edit, spoilt>> /\ watch'.at = "snapshot"
    BY <1>1, <1>5 DEF ReadRoutes, Read
  <2>2. QED BY <2>1 DEF ShownInv
<1>6. CASE Unreadable BY <1>6 DEF Unreadable
<1>7. CASE Snapshot
  <2>0. Posting(edit) BY <1>7 DEF Snapshot, Posting
  <2>1. /\ watch.at = "snapshot" /\ watch'.at = "nudging" /\ watch'.mtime = watch.mtime
        /\ UNCHANGED <<edit, table>> /\ ~spoilt
    BY <1>1, <2>0 DEF Posting
  <2>2. edit \notin Emptied /\ (watch.mtime = edit => routes = edit) BY <2>1 DEF ShownInv
  <2>3. watch.mtime = edit => posts = {} /\ posts' = {Present}
    BY <1>1, <1>2, <2>0, <2>1, <2>2 DEF Posting, Present
  <2>4. watch'.mtime = edit' => Posted' BY <2>1, <2>3 DEF Posted, Present
  <2>5. QED BY <2>1, <2>2, <2>4 DEF ShownInv
<1>8. CASE Nudge
  <2>1. /\ watch.at = "nudging" /\ watch'.at = "polling"
        /\ UNCHANGED <<edit, posts, table, spoilt>>
    BY <1>1, <1>8 DEF Nudge
  <2>2. seen' = watch.mtime /\ seen' # Nothing BY <1>8, <2>1 DEF Nudge, NudgeInv
  <2>3. seen' = edit' => Posted' BY <2>1, <2>2 DEF ShownInv, Posted, Present
  <2>4. QED BY <2>1, <2>2, <2>3 DEF ShownInv
<1>9. CASE \E s \in posts : Post(s) \/ PostFails(s)
  <2>1. PICK s \in posts : Post(s) BY <1>9 DEF PostFails
  <2>2. posts' = posts \ {s} /\ table' = s /\ UNCHANGED <<edit, seen, watch, routes, spoilt>>
    BY <2>1 DEF Post
  <2>3. Posted => Posted' BY <2>1, <2>2 DEF Posted, Present
  <2>4. QED BY <2>2, <2>3 DEF ShownInv
<1>10. CASE UNCHANGED config
  <2>1. Posted' = Posted BY <1>10 DEF config, Posted, Present
  <2>2. QED BY <1>10, <2>1 DEF config, ShownInv
<1>11. QED BY <1>3, <1>4, <1>5, <1>6, <1>7, <1>8, <1>9, <1>10 DEF PNext, Watch, Message, allVars

(* What the watch takes for seen it has pushed: the routes and profiles of   *)
(* config.yaml are in the hub, unless an exception of HubSeesEdits applies.  *)
THEOREM SeenEditsAreShown == PSpec => []SeenIsShown
<1>1. PInit => ShownInv
  BY ProfileAssumption DEF PInit, ShownInv, Posted, Present, Nothing
<1>2. ShownInv => SeenIsShown BY DEF ShownInv, SeenIsShown, Posted, Present
<1>3. QED BY <1>1, <1>2, NudgeInvariant, ShownStep, PushTypes, PTL DEF PSpec

-----------------------------------------------------------------------------
(* BlipDropsNothing                                                        *)

(* As long as there was room for all, every put found room: nobody evicts,  *)
(* and every event is somewhere.                                           *)
BlipInv ==
  /\ OnTheWay <= peak
  /\ peak <= Capacity => \A p \in Producers : adding[p] \in {"nothing", "put"}
  /\ BlipDropsNothing

(* What a producer is adding, as one set.                                  *)
Pendings == {Latest(p) : p \in Adding}
Places == Elements(q) \cup Elements(hand) \cup Elements(got) \cup sunk \cup Pendings
LEMMA KeptParts == Kept = Places /\ Kept' = Places'
BY DEF Kept, Places, Pending, Pendings, Adding

LEMMA MakeKeeps ==
  ASSUME TypeInv, BlipInv, NEW p \in Producers, Make(p)
  PROVE  BlipInv'
<1>1. Adding' = Adding \cup {p} /\ p \notin Adding
  BY DEF Make, Adding, TypeInv, SwitchesOK
<1>2. Cardinality(Adding') = Cardinality(Adding) + 1
  BY <1>1, OnTheWayNat, FS_AddElement DEF TypeInv
<1>3. OnTheWay' = OnTheWay + 1 /\ OnTheWay \in Nat
  BY <1>2, OnTheWayNat DEF Make, OnTheWay, TypeInv
<1>4. peak' \in Nat /\ OnTheWay' <= peak' /\ peak <= peak'
  BY <1>3 DEF Make, Higher, TypeInv, CountsOK
<1>5. ASSUME peak' <= Capacity
      PROVE  \A r \in Producers : adding'[r] \in {"nothing", "put"}
  <2>1. peak <= Capacity BY <1>4, <1>5, PushAssumption DEF TypeInv, CountsOK
  <2>2. QED BY <2>1 DEF Make, BlipInv, TypeInv, SwitchesOK
<1>6. ASSUME peak' <= Capacity, NEW r \in Producers, NEW n \in 1 .. made'[r]
      PROVE  <<r, n>> \in Kept'
  <2>1. peak <= Capacity BY <1>4, <1>6, PushAssumption DEF TypeInv, CountsOK
  <2>2. \A t \in Adding : Latest(t)' = Latest(t)
    BY <1>1 DEF Make, Latest, Adding, TypeInv, CountsOK
  <2>3. Kept \subseteq Kept'
    <3>1. Pendings \subseteq Pendings' BY <1>1, <2>2 DEF Pendings
    <3>2. UNCHANGED <<Elements(q), Elements(hand), Elements(got), sunk>>
      BY DEF Make, past, Elements
    <3>3. QED BY <3>1, <3>2, KeptParts DEF Places
  <2>4. CASE n \in 1 .. made[r]
    BY <2>1, <2>3, <2>4 DEF BlipInv, BlipDropsNothing
  <2>5. CASE n \notin 1 .. made[r]
    <3>1. made[r] \in Nat /\ made' = [made EXCEPT ![p] = made[p] + 1]
      BY DEF Make, TypeInv, CountsOK
    <3>2. r = p /\ n = made'[p] BY <3>1, <2>5, <1>6 DEF TypeInv, CountsOK
    <3>3. <<r, n>> = Latest(p)' /\ p \in Adding' BY <3>2, <1>1 DEF Latest
    <3>4. <<r, n>> \in Pendings' BY <3>3 DEF Pendings
    <3>5. QED BY <3>4, KeptParts DEF Places
  <2>6. QED BY <2>4, <2>5
<1>7. QED BY <1>4, <1>5, <1>6 DEF BlipInv, BlipDropsNothing

(* A step that makes no event keeps the invariant if there are no more      *)
(* events on their way after it and, while there is room, none is gone.     *)
LEMMA BlipStays ==
  ASSUME TypeInv, TypeInv', BlipInv, UNCHANGED <<made, peak>>, OnTheWay' <= OnTheWay,
         peak <= Capacity =>
           Kept \subseteq Kept' /\ \A p \in Producers : adding'[p] \in {"nothing", "put"}
  PROVE  BlipInv'
<1>1. OnTheWay \in Nat /\ peak \in Nat BY OnTheWayNat DEF TypeInv, CountsOK
<1>2. OnTheWay' \in Nat
  <2>1. IsFiniteSet(Adding') BY PushAssumption, FS_Subset DEF Adding
  <2>2. Cardinality(Adding') \in Nat BY <2>1, FS_CardinalityType
  <2>3. Len(q') \in Nat /\ Len(hand') \in Nat BY DEF TypeInv, EventsOK
  <2>4. QED BY <2>2, <2>3 DEF OnTheWay
<1>3. OnTheWay' <= peak' BY <1>1, <1>2 DEF BlipInv
<1>4. QED BY <1>3 DEF BlipInv, BlipDropsNothing

LEMMA EnqueueKeeps ==
  ASSUME TypeInv, TypeInv', BlipInv, NEW p \in Producers, Enqueue(p)
  PROVE  BlipInv'
<1>1. PICK a \in {"nothing", "evict", "retry"} : adding' = [adding EXCEPT ![p] = a]
  BY EnqueueCases
<1>2. p \in Adding BY EnqueueCases DEF Adding
<1>3. UNCHANGED <<made, peak, hand, got, sunk>> BY EnqueueCases DEF past
<1>4. Adding' = IF a = "nothing" THEN Adding \ {p} ELSE Adding
  BY <1>1, <1>2 DEF Adding, TypeInv, SwitchesOK
<1>5. /\ IsFiniteSet(Adding) /\ Cardinality(Adding) \in Nat
      /\ Len(q) \in Nat /\ Len(hand) \in Nat
  BY OnTheWayNat DEF TypeInv
<1>6. Cardinality(Adding \ {p}) = Cardinality(Adding) - 1
  BY <1>2, <1>5, FS_RemoveElement
<1>7. Cardinality(Adding) > 0
  <2>1. Adding \ {p} \subseteq Adding /\ IsFiniteSet(Adding \ {p}) BY <1>5, FS_Subset
  <2>2. Cardinality(Adding \ {p}) \in Nat BY <2>1, FS_CardinalityType
  <2>3. QED BY <1>5, <1>6, <2>2
<1>8. CASE Len(q) < Capacity /\ q' = Append(q, Latest(p)) /\ adding' = [adding EXCEPT ![p] = "nothing"]
  <2>1. Latest(p) \in Event BY EnqueueCases, LatestType DEF TypeInv, AddsMade
  <2>2. Len(q') = Len(q) + 1 /\ Elements(q') = Elements(q) \cup {Latest(p)}
    BY <1>8, <2>1, AppendElements DEF TypeInv, EventsOK
  <2>3. Adding' = Adding \ {p} BY <1>8, <1>2 DEF Adding, TypeInv, SwitchesOK
  <2>4. OnTheWay' = OnTheWay BY <1>3, <1>5, <1>6, <2>2, <2>3 DEF OnTheWay
  <2>5. Kept \subseteq Kept'
    <3>1. Pendings \subseteq Pendings' \cup {Latest(p)}
      BY <1>3, <2>3 DEF Pendings, Latest
    <3>2. QED BY <1>3, <2>2, <3>1, KeptParts DEF Places, Elements
  <2>6. peak <= Capacity => \A r \in Producers : adding'[r] \in {"nothing", "put"}
    BY <1>8 DEF BlipInv, TypeInv, SwitchesOK
  <2>7. OnTheWay' <= OnTheWay BY <2>4, OnTheWayNat DEF TypeInv
  <2>8. QED BY <1>3, <2>5, <2>6, <2>7, BlipStays
<1>9. CASE ~(Len(q) < Capacity /\ q' = Append(q, Latest(p)) /\ adding' = [adding EXCEPT ![p] = "nothing"])
  <2>1. \/ Len(q) = Capacity /\ q' = q
        \/ adding[p] = "evict" /\ q' = (IF q = <<>> THEN q ELSE Tail(q))
    BY <1>9, EnqueueCases
  <2>2. ~(peak <= Capacity)
    <3>1. CASE Len(q) = Capacity
      BY <3>1, <1>5, <1>7, PushAssumption DEF BlipInv, OnTheWay, TypeInv, CountsOK
    <3>2. CASE adding[p] = "evict" BY <3>2 DEF BlipInv
    <3>3. QED BY <2>1, <3>1, <3>2
  <2>3. Len(q') \in Nat /\ Len(q') <= Len(q)
    <3>1. CASE q' = q BY <3>1, <1>5
    <3>2. CASE q # <<>> /\ q' = Tail(q) BY <3>2, <1>5, TailElements DEF TypeInv, EventsOK
    <3>3. QED BY <2>1, <3>1, <3>2
  <2>4. Cardinality(Adding') \in Nat /\ Cardinality(Adding') <= Cardinality(Adding)
    BY <1>4, <1>5, <1>6, <1>7
  <2>5. OnTheWay' <= OnTheWay BY <1>3, <1>5, <2>3, <2>4 DEF OnTheWay
  <2>6. QED BY <1>3, <2>2, <2>5, BlipStays
<1>10. QED BY <1>8, <1>9

LEMMA GetKeeps ==
  ASSUME TypeInv, TypeInv', BlipInv, Get
  PROVE  BlipInv'
<1>1. q \in Seq(Event) /\ q # <<>> BY DEF Get, TypeInv, EventsOK
<1>2. /\ Len(q') = Len(q) - 1 /\ Head(q) \in Event
      /\ Elements(q) = {Head(q)} \cup Elements(q')
  BY <1>1, TailElements DEF Get
<1>3. Len(hand) = 0 BY DEF Get, TypeInv, EventsOK
<1>4. Len(hand') = 1 /\ Elements(hand') = {Head(q)} BY <1>2, OneElement DEF Get
<1>5. UNCHANGED <<made, adding, peak, got, sunk>> BY DEF Get, past
<1>6. Adding' = Adding /\ Pendings' = Pendings BY <1>5 DEF Adding, Pendings, Latest
<1>7. OnTheWay' <= OnTheWay BY <1>2, <1>3, <1>4, <1>6, OnTheWayNat DEF OnTheWay, TypeInv
<1>8. hand \in Seq(Event) BY DEF TypeInv, EventsOK
<1>9. Elements(hand) = {} BY <1>3, <1>8 DEF Elements
<1>10. Kept \subseteq Kept'
  BY <1>2, <1>4, <1>5, <1>6, <1>9, KeptParts DEF Places, Elements
<1>11. QED BY <1>5, <1>7, <1>10, BlipStays DEF BlipInv

LEMMA SendKeeps ==
  ASSUME TypeInv, TypeInv', BlipInv, NEW arrived \in BOOLEAN, Sent \/ Raised(arrived)
  PROVE  BlipInv'
<1>1. PICK e \in Event : hand = <<e>> BY SendCases, InHand
<1>2. Elements(hand) = {e} /\ Len(hand) = 1 /\ hand \in Seq(Event) BY <1>1, OneElement
<1>3. Len(hand') = 0 /\ Elements(hand') = {} BY SendCases, NoElement
<1>4. q \in Seq(Event) /\ got \in Seq(Event) /\ Len(q) \in Nat BY DEF TypeInv, EventsOK
<1>5. /\ Len(q \o hand) = Len(q) + 1 /\ Elements(q \o hand) = Elements(q) \cup {e}
      /\ Elements(got \o hand) = Elements(got) \cup {e}
  <2>1. Len(hand) \in {0, 1} BY <1>2
  <2>2. Len(q \o hand) = Len(q) + Len(hand) /\ Elements(q \o hand) = Elements(q) \cup Elements(hand)
    BY <1>2, <1>4, <2>1, ConcatOne
  <2>3. Elements(got \o hand) = Elements(got) \cup Elements(hand)
    BY <1>2, <1>4, <2>1, ConcatOne
  <2>4. QED BY <1>2, <2>2, <2>3
<1>6. UNCHANGED <<made, adding, peak>> BY SendCases
<1>7. Adding' = Adding /\ Pendings' = Pendings BY <1>6 DEF Adding, Pendings, Latest
<1>8. OnTheWay' <= OnTheWay
  <2>1. Len(q') \in {Len(q), Len(q) + 1} BY <1>5, SendCases
  <2>2. QED BY <1>2, <1>3, <1>7, <2>1, OnTheWayNat DEF OnTheWay, TypeInv
<1>9. ASSUME peak <= Capacity PROVE Kept \subseteq Kept'
  <2>1. Len(q) < Capacity
    BY <1>2, <1>9, OnTheWayNat, PushAssumption DEF BlipInv, OnTheWay, TypeInv, CountsOK
  <2>2. /\ Elements(q) \subseteq Elements(q') /\ Elements(got) \subseteq Elements(got')
        /\ sunk \subseteq sunk'
        /\ e \in Elements(q') \cup Elements(got') \cup sunk'
    BY <1>2, <1>5, <2>1, SendCases
  <2>3. QED BY <1>2, <1>7, <2>2, KeptParts DEF Places
<1>10. QED BY <1>6, <1>8, <1>9, BlipStays DEF BlipInv

LEMMA ElsewhereKeeps ==
  ASSUME TypeInv, BlipInv, Elsewhere
  PROVE  BlipInv'
BY ElsewhereCases
DEF BlipInv, BlipDropsNothing, OnTheWay, Adding, Kept, Pending, Latest, Elements, past

LEMMA BlipInvariant == PSpec => []BlipInv
<1>1. Init => BlipInv
  <2> SUFFICES ASSUME Init PROVE BlipInv
    OBVIOUS
  <2>1. Adding = {} /\ Len(q) = 0 /\ Len(hand) = 0 BY DEF Init, Adding
  <2>2. OnTheWay = 0 BY <2>1, FS_EmptySet DEF OnTheWay
  <2>3. \A p \in Producers : 1 .. made[p] = {} BY DEF Init
  <2>4. QED BY <2>2, <2>3 DEF BlipInv, BlipDropsNothing, Init
<1>2. TypeInv /\ TypeInv' /\ BlipInv /\ [Next]_vars => BlipInv'
  BY StepCases, MakeKeeps, EnqueueKeeps, GetKeeps, SendKeeps, ElsewhereKeeps
<1>3. QED BY <1>1, <1>2, TypeInvariant, PushBehaviour, PTL

(* "So a brief blip doesn't drop notifications": an event is dropped only   *)
(* if there were more of them on their way than the queue holds.           *)
THEOREM BlipsDropNothing == PSpec => []BlipDropsNothing
<1>1. BlipInv => BlipDropsNothing BY DEF BlipInv
<1>2. QED BY <1>1, BlipInvariant, PTL

-----------------------------------------------------------------------------
(* NoDuplicates                                                            *)

Once(s) == \A i, j \in 1 .. Len(s) : s[i] = s[j] => i = j

LEMMA OnceAppend ==
  ASSUME NEW S, NEW s \in Seq(S), NEW e \in S, Once(s), e \notin Elements(s)
  PROVE  Once(Append(s, e))
<1>1. \A i \in 1 .. Len(s) : Append(s, e)[i] = s[i] /\ s[i] # e BY DEF Elements
<1>2. Len(Append(s, e)) = Len(s) + 1 /\ Append(s, e)[Len(s) + 1] = e /\ Len(s) \in Nat
  OBVIOUS
<1>3. QED BY <1>1, <1>2 DEF Once

LEMMA OnceTail ==
  ASSUME NEW S, NEW s \in Seq(S), Once(s), s # <<>>
  PROVE  Once(Tail(s)) /\ Head(s) \notin Elements(Tail(s))
<1>1. Len(Tail(s)) = Len(s) - 1 /\ Len(s) \in Nat \ {0} /\ Head(s) = s[1]
  OBVIOUS
<1>2. \A i \in 1 .. Len(s) - 1 : Tail(s)[i] = s[i + 1]
  OBVIOUS
<1>3. QED BY <1>1, <1>2 DEF Once, Elements

(* Every event has at most one place before the hub, those under way have   *)
(* not arrived unless a send of them raised after the fact, and the one     *)
(* that is being added is new.                                             *)
Arrived(e) == [event |-> e, arrived |-> TRUE] \in again
Placed == Elements(q) \cup Elements(hand) \cup Elements(got) \cup sunk
GotOnce == \A i, j \in 1 .. Len(got) : got[i] = got[j] => i = j \/ Arrived(got[i])
QueuedOnce ==
  /\ Once(q) /\ Elements(q) \cap Elements(hand) = {}
  /\ \A e \in Elements(q) \cup Elements(hand) : e \notin sunk /\ (e \in Elements(got) => Arrived(e))
AddsNew ==
  /\ \A p \in Producers : adding[p] # "nothing" => Latest(p) \notin Placed
  /\ \A e \in Placed : e[2] <= made[e[1]]
OnceInv == GotOnce /\ QueuedOnce /\ AddsNew

LEMMA PlacedType == TypeInv => Placed \subseteq Event
BY DEF TypeInv, EventsOK, Placed, Elements

LEMMA MakeOnce ==
  ASSUME TypeInv, OnceInv, NEW p \in Producers, Make(p)
  PROVE  OnceInv'
<1>1. UNCHANGED <<q, hand, got, sunk, again>> BY DEF Make, past
<1>2. GotOnce' /\ QueuedOnce' /\ Placed' = Placed
  BY <1>1 DEF OnceInv, GotOnce, QueuedOnce, Placed, Elements, Once, Arrived
<1>3. /\ made[p] \in Nat /\ made'[p] = made[p] + 1
      /\ \A r \in Producers \ {p} : made'[r] = made[r] /\ adding'[r] = adding[r]
      /\ \A r \in Producers : made[r] \in Nat
  BY DEF Make, TypeInv, CountsOK, SwitchesOK
<1>4. \A e \in Placed : e[1] \in Producers /\ e[2] \in Nat /\ e[2] <= made[e[1]]
  BY PlacedType DEF OnceInv, AddsNew, Event
<1>5. \A e \in Placed' : e[2] <= made'[e[1]] BY <1>2, <1>3, <1>4
<1>6. ASSUME NEW r \in Producers, adding'[r] # "nothing" PROVE Latest(r)' \notin Placed'
  <2>1. CASE r = p
    <3>1. Latest(r)' = <<p, made[p] + 1>> BY <2>1, <1>3 DEF Latest
    <3>2. QED BY <3>1, <1>2, <1>3, <1>4
  <2>2. CASE r # p BY <2>2, <1>2, <1>3, <1>6 DEF OnceInv, AddsNew, Latest
  <2>3. QED BY <2>1, <2>2
<1>7. AddsNew' BY <1>5, <1>6 DEF AddsNew
<1>8. QED BY <1>2, <1>7 DEF OnceInv

LEMMA EnqueueOnce ==
  ASSUME TypeInv, OnceInv, NEW p \in Producers, Enqueue(p)
  PROVE  OnceInv'
<1>1. UNCHANGED <<made, hand, got, sunk, again>> /\ adding[p] # "nothing" BY EnqueueCases DEF past
<1>2. GotOnce' BY <1>1 DEF OnceInv, GotOnce, Arrived
<1>3. \A r \in Producers : adding'[r] # "nothing" => adding[r] # "nothing"
  BY EnqueueCases DEF TypeInv, SwitchesOK
<1>4. q \in Seq(Event) BY DEF TypeInv, EventsOK
<1>5. UNCHANGED <<Elements(hand), Elements(got)>> /\ \A r : Latest(r)' = Latest(r)
  BY <1>1 DEF Elements, Latest
<1>6. CASE Len(q) < Capacity /\ q' = Append(q, Latest(p)) /\ adding' = [adding EXCEPT ![p] = "nothing"]
  <2>1. Latest(p) \in Event /\ Latest(p) \notin Placed
    BY <1>1, LatestType DEF TypeInv, AddsMade, OnceInv, AddsNew
  <2>2. Elements(q') = Elements(q) \cup {Latest(p)} BY <1>4, <1>6, <2>1, AppendElements
  <2>3. Once(q') BY <1>4, <1>6, <2>1, OnceAppend DEF OnceInv, QueuedOnce, Placed
  <2>4. QueuedOnce'
    BY <1>1, <1>5, <2>1, <2>2, <2>3 DEF OnceInv, QueuedOnce, Placed, Arrived, Once
  <2>5. Placed' = Placed \cup {Latest(p)} BY <1>1, <1>5, <2>2 DEF Placed
  <2>6. \A r \in Producers : adding'[r] # "nothing" => r # p /\ Latest(r)' # Latest(p)
    BY <1>5, <1>6 DEF TypeInv, SwitchesOK, Latest
  <2>7. Latest(p)[2] <= made[Latest(p)[1]] BY DEF Latest, TypeInv, CountsOK
  <2>8. AddsNew' BY <1>1, <1>3, <1>5, <2>5, <2>6, <2>7 DEF OnceInv, AddsNew
  <2>9. QED BY <1>2, <2>4, <2>8 DEF OnceInv
<1>7. CASE q' = q \/ (q # <<>> /\ q' = Tail(q))
  <2>1. Once(q') /\ Elements(q') \subseteq Elements(q)
    <3>1. CASE q' = q BY <3>1 DEF OnceInv, QueuedOnce
    <3>2. CASE q # <<>> /\ q' = Tail(q)
      BY <1>4, <3>2, OnceTail, TailElements DEF OnceInv, QueuedOnce
    <3>3. QED BY <1>7, <3>1, <3>2
  <2>2. QueuedOnce' BY <1>1, <1>5, <2>1 DEF OnceInv, QueuedOnce, Arrived, Once
  <2>3. Placed' \subseteq Placed BY <1>1, <1>5, <2>1 DEF Placed
  <2>4. AddsNew' BY <1>1, <1>3, <1>5, <2>3 DEF OnceInv, AddsNew
  <2>5. QED BY <1>2, <2>2, <2>4 DEF OnceInv
<1>8. QED BY <1>6, <1>7, EnqueueCases

LEMMA GetOnce ==
  ASSUME TypeInv, OnceInv, Get
  PROVE  OnceInv'
<1>1. UNCHANGED <<made, adding, got, sunk, again>> BY DEF Get, past
<1>2. q \in Seq(Event) /\ q # <<>> /\ hand \in Seq(Event) /\ Len(hand) = 0
  BY DEF Get, TypeInv, EventsOK
<1>3. Elements(hand) = {} BY <1>2 DEF Elements
<1>4. Head(q) \in Event /\ Elements(q) = {Head(q)} \cup Elements(q')
  BY <1>2, TailElements DEF Get
<1>5. Once(q') /\ Head(q) \notin Elements(q') BY <1>2, OnceTail DEF Get, OnceInv, QueuedOnce
<1>6. Elements(hand') = {Head(q)} BY <1>4, OneElement DEF Get
<1>7. UNCHANGED Elements(got) BY <1>1 DEF Elements
<1>8. GotOnce' BY <1>1 DEF OnceInv, GotOnce, Arrived
<1>9. QueuedOnce' BY <1>1, <1>4, <1>5, <1>6, <1>7 DEF OnceInv, QueuedOnce, Arrived, Once
<1>10. Placed' = Placed BY <1>1, <1>3, <1>4, <1>6, <1>7 DEF Placed
<1>11. AddsNew' BY <1>1, <1>10 DEF OnceInv, AddsNew, Latest
<1>12. QED BY <1>8, <1>9, <1>11 DEF OnceInv

LEMMA SendOnce ==
  ASSUME TypeInv, OnceInv, NEW arrived \in BOOLEAN, Sent \/ Raised(arrived)
  PROVE  OnceInv'
<1>1. PICK e \in Event : hand = <<e>> BY SendCases, InHand
<1>2. Elements(hand) = {e} BY <1>1, OneElement
<1>3. q \in Seq(Event) /\ got \in Seq(Event) BY DEF TypeInv, EventsOK
<1>4. hand' = <<>> /\ Elements(hand') = {} BY SendCases, NoElement
<1>5. UNCHANGED <<made, adding>> BY SendCases
<1>6. again \subseteq again' BY SendCases
<1>7. e \notin Elements(q) /\ e \notin sunk /\ (e \in Elements(got) => Arrived(e))
  BY <1>2 DEF OnceInv, QueuedOnce
<1>8. q' = q \/ q' = Append(q, e) BY <1>1, <1>3, SendCases, AppendIsConcat
<1>9. Once(q') /\ Elements(q') \subseteq Elements(q) \cup {e}
  <2>1. Once(q) BY DEF OnceInv, QueuedOnce
  <2>2. CASE q' = q BY <2>1, <2>2
  <2>3. CASE q' = Append(q, e)
    <3>1. Once(Append(q, e)) BY <1>3, <1>7, <2>1, OnceAppend
    <3>2. Elements(Append(q, e)) = Elements(q) \cup {e} BY <1>3, AppendElements
    <3>3. QED BY <2>3, <3>1, <3>2
  <2>4. QED BY <1>8, <2>2, <2>3
<1>10. \/ got' = got
       \/ got' = Append(got, e)
  BY <1>1, <1>3, SendCases, AppendIsConcat
<1>11. Elements(got') \subseteq Elements(got) \cup {e}
  BY <1>3, <1>10, AppendElements
<1>12. GotOnce'
  <2>1. CASE got' = got BY <2>1, <1>6 DEF OnceInv, GotOnce, Arrived
  <2>2. CASE got' = Append(got, e)
    <3>1. Len(got') = Len(got) + 1 /\ Len(got) \in Nat /\ got'[Len(got) + 1] = e
      BY <2>2, <1>3
    <3>2. \A i \in 1 .. Len(got) : got'[i] = got[i] /\ got[i] \in Elements(got)
      BY <2>2, <1>3 DEF Elements
    <3>3. ASSUME NEW i \in 1 .. Len(got'), NEW j \in 1 .. Len(got'), got'[i] = got'[j]
          PROVE  i = j \/ Arrived(got[i])'
      <4>1. CASE i \in 1 .. Len(got) /\ j \in 1 .. Len(got)
        BY <1>6, <3>2, <3>3, <4>1 DEF OnceInv, GotOnce, Arrived
      <4>2. CASE i = Len(got) + 1 /\ j = Len(got) + 1 BY <4>2
      <4>3. CASE i \in 1 .. Len(got) /\ j = Len(got) + 1
        BY <1>6, <1>7, <3>1, <3>2, <3>3, <4>3 DEF Arrived
      <4>4. CASE j \in 1 .. Len(got) /\ i = Len(got) + 1
        BY <1>6, <1>7, <3>1, <3>2, <3>3, <4>4 DEF Arrived
      <4>5. QED BY <3>1, <4>1, <4>2, <4>3, <4>4
    <3>4. QED BY <3>3 DEF GotOnce, Arrived
  <2>3. QED BY <1>10, <2>1, <2>2
<1>13. QueuedOnce'
  <2>1. ASSUME NEW x \in Elements(q') PROVE x \notin sunk' /\ (x \in Elements(got') => Arrived(x)')
    <3>1. CASE x # e
      <4>1. x \in Elements(q) /\ x \notin sunk /\ (x \in Elements(got) => Arrived(x))
        BY <1>9, <3>1, <2>1 DEF OnceInv, QueuedOnce
      <4>2. x \notin sunk' BY <1>2, <3>1, <4>1, SendCases
      <4>3. QED BY <1>6, <1>11, <3>1, <4>1, <4>2 DEF Arrived
    <3>2. CASE x = e
      <4>1. q' # q BY <1>7, <2>1, <3>2
      <4>2. /\ sunk' = sunk /\ got' = IF arrived THEN got \o hand ELSE got
            /\ again' = again \cup {[event |-> y, arrived |-> arrived] : y \in {e}}
        BY <1>2, <4>1, SendCases
      <4>3. CASE arrived = TRUE
        <5>1. [event |-> e, arrived |-> TRUE] \in again' BY <4>2, <4>3
        <5>2. QED BY <1>7, <3>2, <4>2, <5>1 DEF Arrived
      <4>4. CASE arrived = FALSE
        <5>1. Elements(got') = Elements(got) BY <4>2, <4>4
        <5>2. QED BY <1>6, <1>7, <3>2, <4>2, <5>1 DEF Arrived
      <4>5. QED BY <4>3, <4>4
    <3>3. QED BY <3>1, <3>2
  <2>2. QED BY <1>4, <1>9, <2>1 DEF QueuedOnce, Arrived, Once
<1>14. Placed' \subseteq Placed
  <2>1. sunk' \subseteq sunk \cup {e} BY <1>2, SendCases
  <2>2. QED BY <1>2, <1>4, <1>9, <1>11, <2>1 DEF Placed
<1>15. AddsNew' BY <1>5, <1>14 DEF OnceInv, AddsNew, Latest
<1>16. QED BY <1>12, <1>13, <1>15 DEF OnceInv

LEMMA ElsewhereOnce ==
  ASSUME TypeInv, OnceInv, Elsewhere
  PROVE  OnceInv'
<1>1. UNCHANGED <<made, adding, q, hand, got, sunk, again>> BY ElsewhereCases DEF past
<1>2. GotOnce' /\ QueuedOnce'
  BY <1>1 DEF OnceInv, GotOnce, QueuedOnce, Elements, Once, Arrived
<1>3. Placed' = Placed BY <1>1 DEF Placed, Elements
<1>4. AddsNew' BY <1>1, <1>3 DEF OnceInv, AddsNew, Latest
<1>5. QED BY <1>2, <1>4 DEF OnceInv

LEMMA OnceInvariant == PSpec => []OnceInv
<1>1. Init => OnceInv
  <2> SUFFICES ASSUME Init PROVE OnceInv
    OBVIOUS
  <2>1. Elements(q) = {} /\ Elements(hand) = {} /\ Elements(got) = {} /\ sunk = {}
    BY NoElement DEF Init
  <2>2. \A p \in Producers : adding[p] = "nothing" BY DEF Init
  <2>3. Len(q) = 0 /\ Len(got) = 0 BY DEF Init
  <2>4. QED BY <2>1, <2>2, <2>3 DEF OnceInv, GotOnce, QueuedOnce, AddsNew, Placed, Once
<1>2. TypeInv /\ OnceInv /\ [Next]_vars => OnceInv'
  BY StepCases, MakeOnce, EnqueueOnce, GetOnce, SendOnce, ElsewhereOnce
<1>3. QED BY <1>1, <1>2, TypeInvariant, PushBehaviour, PTL

(* What the ids of the events are for: an event is in one place at a time,  *)
(* and arrives twice only if a send of it raised after it had arrived.      *)
THEOREM NothingTwice == PSpec => []NoDuplicates
<1>1. TypeInv /\ OnceInv => NoDuplicates
  <2> SUFFICES ASSUME TypeInv, OnceInv PROVE NoDuplicates
    OBVIOUS
  <2>1. q \in Seq(Event) /\ hand \in Seq(Event) /\ Len(hand) \in {0, 1}
    BY DEF TypeInv, EventsOK
  <2>2. Elements(q \o hand) = Elements(q) \cup Elements(hand) BY <2>1, ConcatOne
  <2>3. Once(q \o hand)
    <3>1. CASE hand = <<>> BY <2>1, <3>1, ConcatEmptySeq DEF OnceInv, QueuedOnce
    <3>2. CASE \E e \in Event : hand = <<e>>
      <4>1. PICK e \in Event : hand = <<e>> BY <3>2
      <4>2. e \in Elements(hand) BY <4>1, OneElement
      <4>3. e \notin Elements(q) BY <4>2 DEF OnceInv, QueuedOnce
      <4>4. Once(Append(q, e)) BY <2>1, <4>3, OnceAppend DEF OnceInv, QueuedOnce
      <4>5. QED BY <2>1, <4>1, <4>4, AppendIsConcat
    <3>3. QED BY <2>1, <3>1, <3>2, OneOrNone
  <2>4. QED BY <2>2, <2>3 DEF NoDuplicates, Once, OnceInv, GotOnce, QueuedOnce, Arrived
<1>2. QED BY <1>1, TypeInvariant, OnceInvariant, PTL

-----------------------------------------------------------------------------
(* InOrder                                                                 *)

(* y may come after x, if A are the events that were put back.              *)
Fits(A, x, y) == x[1] = y[1] /\ x[2] > y[2] => \E r \in A : r.event = y
Ordered(A, s) == \A i, j \in 1 .. Len(s) : i < j => Fits(A, s[i], s[j])

LEMMA OrderedAppend ==
  ASSUME NEW S, NEW A, NEW s \in Seq(S), NEW e \in S,
         Ordered(A, s), \A x \in Elements(s) : Fits(A, x, e)
  PROVE  Ordered(A, Append(s, e))
<1>1. \A i \in 1 .. Len(s) : Append(s, e)[i] = s[i] /\ s[i] \in Elements(s) BY DEF Elements
<1>2. Len(Append(s, e)) = Len(s) + 1 /\ Append(s, e)[Len(s) + 1] = e /\ Len(s) \in Nat
  OBVIOUS
<1>3. ASSUME NEW i \in 1 .. Len(s) + 1, NEW j \in 1 .. Len(s) + 1, i < j
      PROVE  Fits(A, Append(s, e)[i], Append(s, e)[j])
  <2>1. CASE j = Len(s) + 1 BY <1>1, <1>2, <1>3, <2>1
  <2>2. CASE j # Len(s) + 1
    <3>1. i \in 1 .. Len(s) /\ j \in 1 .. Len(s) BY <1>2, <1>3, <2>2
    <3>2. QED BY <1>1, <1>3, <3>1 DEF Ordered
  <2>3. QED BY <2>1, <2>2
<1>4. QED BY <1>2, <1>3 DEF Ordered

LEMMA OrderedTail ==
  ASSUME NEW S, NEW A, NEW s \in Seq(S), Ordered(A, s), s # <<>>
  PROVE  Ordered(A, Tail(s)) /\ \A y \in Elements(Tail(s)) : Fits(A, Head(s), y)
<1>1. Len(Tail(s)) = Len(s) - 1 /\ Len(s) \in Nat \ {0} /\ Head(s) = s[1]
  OBVIOUS
<1>2. \A i \in 1 .. Len(s) - 1 : Tail(s)[i] = s[i + 1]
  OBVIOUS
<1>3. ASSUME NEW i \in 1 .. Len(s) - 1, NEW j \in 1 .. Len(s) - 1, i < j
      PROVE  Fits(A, Tail(s)[i], Tail(s)[j])
  <2>1. i + 1 \in 1 .. Len(s) /\ j + 1 \in 1 .. Len(s) /\ i + 1 < j + 1 BY <1>1, <1>3
  <2>2. QED BY <1>2, <2>1 DEF Ordered
<1>4. ASSUME NEW j \in 1 .. Len(s) - 1 PROVE Fits(A, Head(s), Tail(s)[j])
  <2>1. 1 \in 1 .. Len(s) /\ j + 1 \in 1 .. Len(s) /\ 1 < j + 1 BY <1>1, <1>4
  <2>2. QED BY <1>1, <1>2, <2>1 DEF Ordered
<1>5. QED BY <1>1, <1>3, <1>4 DEF Ordered, Elements

LEMMA OrderedMore ==
  ASSUME NEW A, NEW B, A \subseteq B
  PROVE  /\ \A x, y : Fits(A, x, y) => Fits(B, x, y)
         /\ \A s : Ordered(A, s) => Ordered(B, s)
BY DEF Fits, Ordered

(* What has arrived, what is in the hand and what is queued follow each     *)
(* other in the order of the producers.                                    *)
OrderInv ==
  /\ Ordered(again, got) /\ Ordered(again, q)
  /\ \A x \in Elements(got) : \A y \in Elements(hand) : Fits(again, x, y)
  /\ \A x \in Elements(got) \cup Elements(hand) : \A y \in Elements(q) : Fits(again, x, y)

LEMMA SameOrder ==
  ASSUME OrderInv, UNCHANGED <<q, hand, got, again>>
  PROVE  OrderInv'
BY DEF OrderInv, Ordered, Elements, Fits

LEMMA EnqueueOrdered ==
  ASSUME TypeInv, OnceInv, OrderInv, NEW p \in Producers, Enqueue(p)
  PROVE  OrderInv'
<1>1. UNCHANGED <<hand, got, again>> /\ adding[p] # "nothing" BY EnqueueCases DEF past
<1>2. UNCHANGED <<Elements(hand), Elements(got)>> BY <1>1 DEF Elements
<1>3. q \in Seq(Event) BY DEF TypeInv, EventsOK
<1>4. Ordered(again, got)' BY <1>1 DEF OrderInv, Ordered, Fits
<1>5. CASE q' = Append(q, Latest(p))
  <2>1. Latest(p) \in Event BY <1>1, LatestType DEF TypeInv, AddsMade
  <2>2. Elements(q') = Elements(q) \cup {Latest(p)} BY <1>3, <1>5, <2>1, AppendElements
  <2>3. ASSUME NEW x \in Placed PROVE Fits(again, x, Latest(p))
    <3>1. x \in Event /\ x[2] <= made[x[1]] BY PlacedType, <2>3 DEF OnceInv, AddsNew
    <3>2. x[2] \in Nat /\ made[p] \in Nat BY <3>1 DEF Event, TypeInv, CountsOK
    <3>3. QED BY <3>1, <3>2 DEF Fits, Latest
  <2>4. Ordered(again, q') BY <1>3, <1>5, <2>1, <2>3, OrderedAppend DEF OrderInv, Placed
  <2>5. \A x \in Elements(got) \cup Elements(hand) : \A y \in Elements(q') : Fits(again, x, y)
    BY <2>2, <2>3 DEF OrderInv, Placed
  <2>6. QED BY <1>1, <1>2, <1>4, <2>4, <2>5 DEF OrderInv
<1>6. CASE q' = q BY <1>1, <1>6, SameOrder
<1>7. CASE q # <<>> /\ q' = Tail(q)
  <2>1. Ordered(again, q') /\ Elements(q') \subseteq Elements(q)
    BY <1>3, <1>7, OrderedTail, TailElements DEF OrderInv
  <2>2. QED BY <1>1, <1>2, <1>4, <2>1 DEF OrderInv
<1>8. QED BY <1>5, <1>6, <1>7, EnqueueCases

LEMMA GetOrdered ==
  ASSUME TypeInv, OrderInv, Get
  PROVE  OrderInv'
<1>1. UNCHANGED <<got, again, Elements(got)>> BY DEF Get, past, Elements
<1>2. q \in Seq(Event) /\ q # <<>> BY DEF Get, TypeInv, EventsOK
<1>3. Head(q) \in Event /\ Elements(q) = {Head(q)} \cup Elements(q')
  BY <1>2, TailElements DEF Get
<1>4. Ordered(again, q') /\ \A y \in Elements(q') : Fits(again, Head(q), y)
  BY <1>2, OrderedTail DEF Get, OrderInv
<1>5. Elements(hand') = {Head(q)} BY <1>3, OneElement DEF Get
<1>6. Ordered(again, got)' BY <1>1 DEF OrderInv, Ordered, Fits
<1>7. QED BY <1>1, <1>3, <1>4, <1>5, <1>6 DEF OrderInv

LEMMA SendOrdered ==
  ASSUME TypeInv, OrderInv, NEW arrived \in BOOLEAN, Sent \/ Raised(arrived)
  PROVE  OrderInv'
<1>1. PICK e \in Event : hand = <<e>> BY SendCases, InHand
<1>2. Elements(hand) = {e} BY <1>1, OneElement
<1>3. q \in Seq(Event) /\ got \in Seq(Event) BY DEF TypeInv, EventsOK
<1>4. hand' = <<>> /\ Elements(hand') = {} BY SendCases, NoElement
<1>5. again \subseteq again' BY SendCases
<1>6. /\ Ordered(again', got) /\ Ordered(again', q)
      /\ \A x \in Elements(got) : Fits(again', x, e)
      /\ \A x \in Elements(got) \cup {e} : \A y \in Elements(q) : Fits(again', x, y)
  BY <1>2, <1>5, OrderedMore DEF OrderInv
<1>7. got' = got \/ got' = Append(got, e)
  BY <1>1, <1>3, SendCases, AppendIsConcat
<1>8. Ordered(again', got') /\ Elements(got') \subseteq Elements(got) \cup {e}
  <2>1. CASE got' = got BY <1>6, <2>1
  <2>2. CASE got' = Append(got, e) BY <1>3, <1>6, <2>2, OrderedAppend, AppendElements
  <2>3. QED BY <1>7, <2>1, <2>2
<1>9. \/ q' = q
      \/ q' = Append(q, e) /\ \A x : Fits(again', x, e)
  <2>1. CASE q' = q BY <2>1
  <2>2. CASE q' # q
    <3>1. q' = q \o hand /\ again' = again \cup {[event |-> y, arrived |-> arrived] : y \in {e}}
      BY <1>2, <2>2, SendCases
    <3>2. [event |-> e, arrived |-> arrived] \in again' BY <3>1
    <3>3. \A x : Fits(again', x, e) BY <3>2 DEF Fits
    <3>4. QED BY <1>1, <1>3, <3>1, <3>3, AppendIsConcat
  <2>3. QED BY <2>1, <2>2
<1>10. /\ Ordered(again', q')
       /\ \A x \in Elements(got) \cup {e} : \A y \in Elements(q') : Fits(again', x, y)
  <2>1. CASE q' = q BY <1>6, <2>1
  <2>2. CASE q' = Append(q, e) /\ \A x : Fits(again', x, e)
    <3>1. Ordered(again', q') BY <1>3, <1>6, <2>2, OrderedAppend
    <3>2. Elements(q') = Elements(q) \cup {e} BY <1>3, <2>2, AppendElements
    <3>3. QED BY <1>6, <2>2, <3>1, <3>2
  <2>3. QED BY <1>9, <2>1, <2>2
<1>11. QED BY <1>4, <1>8, <1>10 DEF OrderInv

LEMMA OtherOrdered ==
  ASSUME TypeInv, OrderInv, (\E p \in Producers : Make(p)) \/ Elsewhere
  PROVE  OrderInv'
<1>1. UNCHANGED <<q, hand, got, again>> BY ElsewhereCases DEF Make, past
<1>2. QED BY <1>1, SameOrder

LEMMA OrderInvariant == PSpec => []OrderInv
<1>1. Init => OrderInv
  <2> SUFFICES ASSUME Init PROVE OrderInv
    OBVIOUS
  <2>1. Elements(q) = {} /\ Elements(hand) = {} /\ Elements(got) = {} BY NoElement DEF Init
  <2>2. Len(q) = 0 /\ Len(got) = 0 BY DEF Init
  <2>3. QED BY <2>1, <2>2 DEF OrderInv, Ordered
<1>2. TypeInv /\ OnceInv /\ OrderInv /\ [Next]_vars => OrderInv'
  BY StepCases, OtherOrdered, EnqueueOrdered, GetOrdered, SendOrdered
<1>3. QED BY <1>1, <1>2, TypeInvariant, OnceInvariant, PushBehaviour, PTL

(* The events of one producer arrive in the order they were made, but for   *)
(* those that were put back at the end of the queue.                       *)
THEOREM ArriveInOrder == PSpec => []InOrder
<1>1. OrderInv => InOrder BY DEF OrderInv, Ordered, Fits, InOrder
<1>2. QED BY <1>1, OrderInvariant, PTL

-----------------------------------------------------------------------------
(* The feed: every step of the live push is a step of EventFeed, or none.   *)

(* A socket that is not there while the pump uses it broke, and so did the   *)
(* one that made a send raise.                                             *)
LinkInv ==
  /\ again # {} => breaks > 0
  /\ pump \in {"getting", "sending"} /\ ~wire => breaks > 0

LEMMA LinkStart == Init => LinkInv
BY DEF Init, LinkInv

LEMMA LinkStep ==
  ASSUME TypeInv, LinkInv, [Next]_vars
  PROVE  LinkInv'
<1>1. breaks \in Nat BY PushAssumption DEF TypeInv, CountsOK
<1>2. CASE \E p \in Producers : Make(p) BY <1>2 DEF Make, link, past, LinkInv
<1>3. CASE \E p \in Producers : Enqueue(p)
  BY <1>3 DEF Enqueue, Put, Evict, Retry, link, past, LinkInv
<1>4. CASE Get BY <1>4 DEF Get, past, LinkInv
<1>5. CASE Sent BY <1>5 DEF Sent, SendReturns, Unless, LinkInv
<1>6. ASSUME NEW arrived \in BOOLEAN, Raised(arrived) PROVE LinkInv'
  BY <1>1, <1>6 DEF Raised, SendRaises, Unless, LinkInv
<1>7. CASE Elsewhere
  <2>1. CASE Dial BY <2>1 DEF Dial, past, LinkInv
  <2>2. CASE PingFails BY <2>2 DEF PingFails, Unless, past, LinkInv
  <2>3. CASE Leave BY <2>3 DEF Leave, past, LinkInv
  <2>4. CASE Break BY <1>1, <2>4 DEF Break, past, LinkInv
  <2>5. CASE HubBack \/ Shutdown BY <2>5 DEF HubBack, Shutdown, past, LinkInv
  <2>6. CASE UNCHANGED vars BY <2>6 DEF vars, link, past, LinkInv
  <2>7. QED BY <1>7, <2>1, <2>2, <2>3, <2>4, <2>5, <2>6 DEF Elsewhere
<1>8. QED BY <1>2, <1>3, <1>4, <1>5, <1>6, <1>7, StepCases

(* What keeps the calm: it never comes back.                               *)
LEMMA CalmStep ==
  ASSUME TypeInv, [Next]_vars
  PROVE  Calm' => Calm
<1>1. breaks \in Nat /\ peak \in Nat /\ Capacity \in Nat BY PushAssumption DEF TypeInv, CountsOK
<1>2. OnTheWay \in Nat BY OnTheWayNat DEF TypeInv
<1>3. breaks' \in Nat /\ breaks <= breaks'
  <2>1. breaks' \in {breaks, breaks + 1}
    BY DEF Next, Make, Enqueue, Put, Evict, Retry, Pump, Dial, Get, Sent, SendReturns, Raised, SendRaises,
       PingFails, Leave, World, Break, HubBack, Shutdown, vars, link
  <2>2. QED BY <1>1, <2>1
<1>4. peak' \in Nat /\ peak <= peak'
  <2>1. peak' \in {peak, Higher(peak, OnTheWay + 1)}
    BY DEF Next, Make, Enqueue, Put, Evict, Retry, Pump, Dial, Get, Sent, SendReturns, Raised, SendRaises,
       PingFails, Leave, World, Break, HubBack, Shutdown, vars
  <2>2. QED BY <1>1, <1>2, <2>1 DEF Higher
<1>5. QED BY <1>1, <1>3, <1>4 DEF Calm

LEMMA WaitingParts ==
  /\ Waiting = Elements(q) \cup Elements(hand) \cup Pendings
  /\ Waiting' = (Elements(q) \cup Elements(hand) \cup Pendings)'
BY DEF Waiting, Pending, Pendings, Adding

LEMMA MakeFeeds ==
  ASSUME TypeInv, NEW p \in Producers, Make(p)
  PROVE  Feed!Make(p)
<1>1. UNCHANGED <<q, hand, got>> /\ made' = [made EXCEPT ![p] = @ + 1] /\ made[p] < MaxEvents
  BY DEF Make, past
<1>2. made[p] \in Nat /\ made'[p] = made[p] + 1 /\ \A r \in Producers \ {p} : made'[r] = made[r]
  BY <1>1 DEF TypeInv, CountsOK
<1>3. Adding' = Adding \cup {p} /\ p \notin Adding /\ Adding \subseteq Producers
  BY DEF Make, Adding, TypeInv, SwitchesOK
<1>4. Pendings' = Pendings \cup {<<p, made[p] + 1>>}
  <2>1. Latest(p)' = <<p, made[p] + 1>> BY <1>2 DEF Latest
  <2>2. \A r \in Adding : Latest(r)' = Latest(r) BY <1>2, <1>3 DEF Latest
  <2>3. QED BY <1>3, <2>1, <2>2 DEF Pendings
<1>5. Waiting' = Waiting \cup {<<p, made[p] + 1>>}
  BY <1>1, <1>4, WaitingParts DEF Elements
<1>6. QED BY <1>1, <1>5 DEF Feed!Make

(* Who finds no room was one too many.                                     *)
LEMMA NoRoom ==
  ASSUME TypeInv, BlipInv, NEW p \in Producers, adding[p] # "nothing", Len(q) = Capacity
  PROVE  ~Calm
<1>1. IsFiniteSet(Adding) /\ Cardinality(Adding) \in Nat /\ Len(hand) \in Nat /\ OnTheWay \in Nat
  BY OnTheWayNat DEF TypeInv
<1>2. Cardinality(Adding) # 0
  <2>1. p \in Adding BY DEF Adding
  <2>2. QED BY <1>1, <2>1, FS_EmptySet
<1>3. OnTheWay > Capacity BY <1>1, <1>2, PushAssumption DEF OnTheWay
<1>4. QED BY <1>1, <1>3, PushAssumption DEF BlipInv, Calm, TypeInv, CountsOK

LEMMA EnqueueFeeds ==
  ASSUME TypeInv, OnceInv, BlipInv, NEW p \in Producers, Enqueue(p)
  PROVE  /\ UNCHANGED <<made, got, Calm>>
         /\ \/ Waiting' = Waiting
            \/ ~Calm /\ \E e \in Waiting : Waiting' = Waiting \ {e}
<1>1. UNCHANGED <<made, hand, got, peak, breaks>> /\ adding[p] # "nothing"
  BY EnqueueCases DEF link, past
<1>2. UNCHANGED <<Calm, Elements(hand)>> /\ \A r : Latest(r)' = Latest(r)
  BY <1>1 DEF Calm, Elements, Latest
<1>3. q \in Seq(Event) /\ Latest(p) \in Event
  BY <1>1, LatestType DEF TypeInv, EventsOK, AddsMade
<1>4. p \in Adding /\ \A r \in Adding : r # p => Latest(r) # Latest(p) BY <1>1 DEF Adding, Latest
<1>5. /\ \A r \in Adding : Latest(r) \notin Elements(q) \cup Elements(hand)
      /\ Elements(q) \cap Elements(hand) = {}
  BY DEF OnceInv, QueuedOnce, AddsNew, Placed, Adding
<1>6. ASSUME NEW a, a # "nothing", adding' = [adding EXCEPT ![p] = a] PROVE Pendings' = Pendings
  <2>1. Adding' = Adding BY <1>1, <1>6 DEF Adding, TypeInv, SwitchesOK
  <2>2. QED BY <1>2, <2>1 DEF Pendings
<1>7. ASSUME adding' = [adding EXCEPT ![p] = "nothing"] PROVE Pendings' = Pendings \ {Latest(p)}
  <2>1. Adding' = Adding \ {p} BY <1>7 DEF Adding, TypeInv, SwitchesOK
  <2>2. QED BY <1>2, <1>4, <2>1 DEF Pendings
<1>8. CASE Evict(p)
  <2>1. Pendings' = Pendings BY <1>6, <1>8 DEF Evict
  <2>2. CASE q = <<>>
    <3>1. UNCHANGED Elements(q) BY <1>8, <2>2 DEF Evict, Elements
    <3>2. QED BY <1>1, <1>2, <2>1, <3>1, WaitingParts
  <2>3. CASE q # <<>>
    <3>1. Elements(q) = {Head(q)} \cup Elements(q') /\ Head(q) \notin Elements(q')
      BY <1>3, <1>8, <2>3, TailElements, OnceTail DEF Evict, OnceInv, QueuedOnce
    <3>2. Head(q) \notin Elements(hand) /\ Head(q) \notin Pendings BY <1>5, <3>1 DEF Pendings
    <3>3. Head(q) \in Waiting /\ Waiting' = Waiting \ {Head(q)}
      BY <1>2, <2>1, <3>1, <3>2, WaitingParts
    <3>4. ~Calm BY <1>8 DEF Evict, BlipInv, Calm
    <3>5. QED BY <1>1, <1>2, <3>3, <3>4
  <2>4. QED BY <2>2, <2>3
<1>9. CASE Len(q) < Capacity /\ q' = Append(q, Latest(p)) /\ adding' = [adding EXCEPT ![p] = "nothing"]
  <2>1. Elements(q') = Elements(q) \cup {Latest(p)} BY <1>3, <1>9, AppendElements
  <2>2. Latest(p) \in Pendings BY <1>4 DEF Pendings
  <2>3. Waiting' = Waiting BY <1>2, <1>7, <1>9, <2>1, <2>2, WaitingParts
  <2>4. QED BY <1>1, <1>2, <2>3
<1>10. ASSUME NEW a, Len(q) = Capacity, q' = q, adding' = [adding EXCEPT ![p] = a]
       PROVE  \/ Waiting' = Waiting
              \/ ~Calm /\ \E e \in Waiting : Waiting' = Waiting \ {e}
  <2>1. UNCHANGED Elements(q) BY <1>10 DEF Elements
  <2>2. CASE a = "nothing"
    <3>1. Pendings' = Pendings \ {Latest(p)} BY <1>7, <1>10, <2>2
    <3>2. Latest(p) \in Pendings /\ Latest(p) \notin Elements(q) \cup Elements(hand)
      BY <1>4, <1>5 DEF Pendings
    <3>3. Latest(p) \in Waiting /\ Waiting' = Waiting \ {Latest(p)}
      BY <1>2, <2>1, <3>1, <3>2, WaitingParts
    <3>4. ~Calm BY <1>1, <1>10, NoRoom
    <3>5. QED BY <3>3, <3>4
  <2>3. CASE a # "nothing"
    <3>1. Pendings' = Pendings BY <1>6, <1>10, <2>3
    <3>2. QED BY <1>2, <2>1, <3>1, WaitingParts
  <2>4. QED BY <2>2, <2>3
<1>11. CASE Put(p) \/ Retry(p) BY <1>1, <1>2, <1>9, <1>10, <1>11 DEF Put, Retry, PutNowait
<1>12. QED BY <1>8, <1>11 DEF Enqueue

LEMMA GetFeeds ==
  ASSUME TypeInv, Get
  PROVE  UNCHANGED <<made, got, Waiting, Calm>>
<1>1. UNCHANGED <<made, adding, got, peak, breaks>> BY DEF Get, past
<1>2. q \in Seq(Event) /\ q # <<>> /\ hand \in Seq(Event) /\ Len(hand) = 0
  BY DEF Get, TypeInv, EventsOK
<1>3. Elements(hand) = {} BY <1>2 DEF Elements
<1>4. Head(q) \in Event /\ Elements(q) = {Head(q)} \cup Elements(q') BY <1>2, TailElements DEF Get
<1>5. Elements(hand') = {Head(q)} BY <1>4, OneElement DEF Get
<1>6. Pendings' = Pendings BY <1>1 DEF Pendings, Adding, Latest
<1>7. Waiting' = Waiting BY <1>3, <1>4, <1>5, <1>6, WaitingParts
<1>8. QED BY <1>1, <1>7 DEF Calm

(* What is sent in a calm is the oldest of its producer.                   *)
LEMMA OldestFirst ==
  ASSUME TypeInv, OnceInv, OrderInv, LinkInv, Calm, NEW e \in Event, Elements(hand) = {e}
  PROVE  Feed!Oldest(e)
<1>1. again = {} BY DEF LinkInv, Calm
<1>2. SUFFICES ASSUME NEW o \in Waiting, o[1] = e[1] PROVE o[2] >= e[2]
  BY DEF Feed!Oldest
<1>3. e[1] \in Producers /\ e[2] \in Nat BY DEF Event
<1>4. CASE o = e BY <1>3, <1>4
<1>5. CASE o \in Elements(q)
  <2>1. Fits(again, e, o) BY <1>5 DEF OrderInv
  <2>2. o \in Event BY <1>5, PlacedType DEF Placed
  <2>3. QED BY <1>1, <1>2, <1>3, <2>1, <2>2 DEF Fits, Event
<1>6. CASE o \in Pendings
  <2>1. PICK p \in Producers : o = <<p, made[p]>> BY <1>6 DEF Pendings, Latest, Adding
  <2>2. e[2] <= made[e[1]] BY DEF OnceInv, AddsNew, Placed
  <2>3. made[p] \in Nat BY DEF TypeInv, CountsOK
  <2>4. QED BY <1>2, <1>3, <2>1, <2>2, <2>3
<1>7. QED BY <1>4, <1>5, <1>6, WaitingParts

LEMMA SendFeeds ==
  ASSUME TypeInv, OnceInv, OrderInv, LinkInv, NEW arrived \in BOOLEAN, Sent \/ Raised(arrived)
  PROVE  \/ \E e \in Waiting : Feed!Arrive(e) \/ Feed!GiveUp(e)
         \/ Feed!Upset
<1>1. PICK e \in Event : hand = <<e>> BY SendCases, InHand
<1>2. Elements(hand) = {e} BY <1>1, OneElement
<1>3. q \in Seq(Event) /\ got \in Seq(Event) /\ q \o <<>> = q /\ got \o hand = Append(got, e)
  BY <1>1, AppendIsConcat, ConcatEmptySeq DEF TypeInv, EventsOK
<1>4. /\ UNCHANGED <<made, adding, peak>> /\ pump = "sending"
      /\ Elements(hand') = {} /\ Pendings' = Pendings
  BY SendCases, NoElement DEF Pendings, Adding, Latest
<1>5. e \notin Elements(q) /\ e \notin Pendings /\ e \in Waiting
  BY <1>2, WaitingParts DEF OnceInv, QueuedOnce, AddsNew, Placed, Pendings, Adding
<1>6. ASSUME q' = q PROVE Waiting' = Waiting \ {e}
  <2>1. UNCHANGED Elements(q) BY <1>6 DEF Elements
  <2>2. QED BY <1>2, <1>4, <1>5, <2>1, WaitingParts
<1>7. ASSUME q' = q \o hand PROVE Waiting' = Waiting
  <2>1. q' = Append(q, e) BY <1>1, <1>3, <1>7, AppendIsConcat
  <2>2. Elements(q') = Elements(q) \cup {e} BY <1>3, <2>1, AppendElements
  <2>3. QED BY <1>2, <1>4, <2>2, WaitingParts
<1>8. breaks \in Nat BY PushAssumption DEF TypeInv, CountsOK
<1>9. CASE Sent
  <2>1. q' = q /\ breaks' = breaks BY <1>3, <1>9 DEF Sent, SendReturns
  <2>2. Waiting' = Waiting \ {e} /\ Calm' = Calm BY <1>4, <1>6, <2>1 DEF Calm
  <2>3. CASE wire
    <3>1. got' = Append(got, e) BY <1>3, <1>9, <2>3 DEF Sent, SendReturns
    <3>2. Calm' => Feed!Oldest(e) BY <1>2, <2>2, OldestFirst
    <3>3. Feed!Arrive(e) BY <1>4, <2>2, <3>1, <3>2 DEF Feed!Arrive
    <3>4. QED BY <1>5, <3>3
  <2>4. CASE ~wire
    <3>1. ~Calm' BY <1>4, <1>8, <2>1, <2>4 DEF LinkInv, Calm
    <3>2. got' = got BY <1>9, <2>4 DEF Sent, SendReturns
    <3>3. Feed!GiveUp(e) BY <1>4, <2>2, <3>1, <3>2 DEF Feed!GiveUp
    <3>4. QED BY <1>5, <3>3
  <2>5. QED BY <2>3, <2>4
<1>10. CASE Raised(arrived)
  <2>1. /\ breaks' = IF arrived THEN breaks + 1 ELSE breaks
        /\ got' = IF arrived THEN Append(got, e) ELSE got
        /\ wire = arrived
        /\ q' \in {q, q \o hand}
    BY <1>3, <1>10 DEF Raised, SendRaises
  <2>2. ~Calm' BY <1>4, <1>8, <2>1 DEF LinkInv, Calm
  <2>3. Waiting' \in {Waiting, Waiting \ {e}} BY <1>6, <1>7, <2>1
  <2>4. CASE arrived = TRUE
    <3>1. Feed!Arrive(e) BY <1>4, <2>1, <2>2, <2>3, <2>4 DEF Feed!Arrive
    <3>2. QED BY <1>5, <3>1
  <2>5. CASE arrived = FALSE
    <3>1. CASE Waiting' = Waiting BY <1>4, <2>1, <2>2, <2>5, <3>1 DEF Feed!Upset
    <3>2. CASE Waiting' = Waiting \ {e}
      <4>1. Feed!GiveUp(e) BY <1>4, <2>1, <2>2, <2>5, <3>2 DEF Feed!GiveUp
      <4>2. QED BY <1>5, <4>1
    <3>3. QED BY <2>3, <3>1, <3>2
  <2>6. QED BY <2>4, <2>5
<1>11. QED BY <1>9, <1>10

LEMMA FeedStep ==
  ASSUME TypeInv, OnceInv, OrderInv, BlipInv, LinkInv, [Next]_vars
  PROVE  [Feed!Next]_<<made, Waiting, got, Calm>>
<1>1. Calm' => Calm BY CalmStep
<1>2. CASE \E p \in Producers : Make(p) BY <1>1, <1>2, MakeFeeds DEF Feed!Next
<1>3. ASSUME NEW p \in Producers, Enqueue(p) PROVE [Feed!Next]_<<made, Waiting, got, Calm>>
  <2>1. /\ UNCHANGED <<made, got, Calm>>
        /\ \/ Waiting' = Waiting
           \/ ~Calm /\ \E e \in Waiting : Waiting' = Waiting \ {e}
    BY <1>3, EnqueueFeeds
  <2>2. CASE Waiting' = Waiting BY <2>1, <2>2
  <2>3. ASSUME NEW e \in Waiting, ~Calm, Waiting' = Waiting \ {e} PROVE Feed!Next
    <3>1. Feed!GiveUp(e) BY <2>1, <2>3 DEF Feed!GiveUp
    <3>2. QED BY <1>1, <3>1 DEF Feed!Next
  <2>4. QED BY <2>1, <2>2, <2>3
<1>4. CASE Get BY <1>4, GetFeeds
<1>5. CASE \E arrived \in BOOLEAN : Sent \/ Raised(arrived) BY <1>1, <1>5, SendFeeds DEF Feed!Next
<1>6. CASE Elsewhere
  <2>1. UNCHANGED <<made, adding, q, hand, got>> BY <1>6, ElsewhereCases DEF past
  <2>2. Waiting' = Waiting BY <2>1 DEF Waiting, Elements, Pending, Latest
  <2>3. CASE Calm' = Calm BY <2>1, <2>2, <2>3
  <2>4. CASE Calm' # Calm
    <3>1. ~Calm' BY <1>1, <2>4 DEF Calm
    <3>2. Feed!Upset BY <2>1, <2>2, <3>1 DEF Feed!Upset
    <3>3. QED BY <1>1, <3>2 DEF Feed!Next
  <2>5. QED BY <2>3, <2>4
<1>7. QED BY <1>2, <1>3, <1>4, <1>5, <1>6, StepCases

(* The queue, its producers and the pump implement the feed: while no       *)
(* socket broke and there was room for all, what is made arrives, once and   *)
(* in order, and at no time does anything arrive that was not waiting.      *)
THEOREM PushIsAFeed == PSpec => FeedSpec
<1>1. Init => Feed!Init
  <2> SUFFICES ASSUME Init PROVE Feed!Init
    OBVIOUS
  <2>1. Elements(q) = {} /\ Elements(hand) = {} BY NoElement DEF Init
  <2>2. Adding = {} BY DEF Init, Adding
  <2>3. Waiting = {} BY <2>1, <2>2, WaitingParts DEF Pendings
  <2>4. Calm = TRUE BY PushAssumption DEF Init, Calm
  <2>5. QED BY <2>3, <2>4 DEF Init, Feed!Init
<1>2. PSpec => []LinkInv BY LinkStart, LinkStep, TypeInvariant, PushBehaviour, PTL
<1>3. QED
  BY <1>1, <1>2, FeedStep, TypeInvariant, OnceInvariant, OrderInvariant, BlipInvariant, PushBehaviour, PTL
  DEF FeedSpec, Feed!Spec, Feed!vars
=============================================================================
