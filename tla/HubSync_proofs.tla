---------------------------- MODULE HubSync_proofs ----------------------------
(***************************************************************************)
(* Theorems about the contacts sync, for any contacts and flags, any number  *)
(* of edits and pushes, posts that are lost and writes that fail: its types, *)
(* and that the latest edit of a contact is not lost on the way.            *)
(***************************************************************************)
EXTENDS HubSync, FiniteSetTheorems, TLAPS

(* Every tick of the clock is that of an edit, of a full push or of the      *)
(* first message of a contact.                                             *)
Seconds == edits + pushes + Cardinality(named)

Deltas(times) == [jid : Jids, on : SUBSET Flags, off : SUBSET Flags, at : times]
Known(times) == [Jids -> [val : FlagSet, at : times]]

Counted ==
  /\ clock \in Nat /\ edits \in 0 .. MaxEdits /\ pushes \in 0 .. MaxPushes
  /\ named \subseteq Jids /\ clock >= 1 /\ clock <= 1 + Seconds

Local ==
  /\ local \in [Jids -> FlagSet] /\ last \in [Jids -> FlagSet]
  /\ routed \subseteq Jids /\ spoiled \subseteq Jids

Sync ==
  /\ hub \in Known(Nat) /\ snap \in Known(Nat)
  /\ \A j \in Jids : hub[j].at <= clock /\ snap[j].at <= clock
  /\ \A post \in net : post \subseteq Deltas(Nat) /\ \A d \in post : d.at <= clock
  /\ todo \subseteq Jids /\ pulling \in BOOLEAN

SyncTypes == Counted /\ Local /\ Sync

-----------------------------------------------------------------------------
(* The clock                                                               *)

LEMMA NamedIsFinite ==
  ASSUME Counted
  PROVE  /\ IsFiniteSet(named) /\ Cardinality(named) \in Nat
         /\ Cardinality(Jids) \in Nat /\ Cardinality(named) <= Cardinality(Jids)
<1>1. IsFiniteSet(Jids) /\ named \subseteq Jids BY SyncAssumption DEF Counted
<1>2. IsFiniteSet(named) /\ Cardinality(named) <= Cardinality(Jids) BY <1>1, FS_Subset
<1>3. QED BY <1>1, <1>2, FS_CardinalityType

LEMMA InTime ==
  ASSUME Counted, NEW t \in Nat, t <= clock
  PROVE  t \in Times
<1>1. Cardinality(named) \in Nat /\ Cardinality(Jids) \in Nat /\ Cardinality(named) <= Cardinality(Jids)
  BY NamedIsFinite
<1>2. MaxEdits \in Nat /\ MaxPushes \in Nat BY SyncAssumption
<1>3. clock <= 1 + MaxEdits + MaxPushes + Cardinality(Jids) BY <1>1, <1>2 DEF Counted, Seconds
<1>4. QED BY <1>1, <1>2, <1>3 DEF Counted, Times

LEMMA TypesFit == SyncTypes => TypeOK
<1> SUFFICES ASSUME SyncTypes PROVE TypeOK
  OBVIOUS
<1> USE DEF SyncTypes
<1>1. clock \in Times BY InTime DEF Counted
<1>2. ASSUME NEW h \in Known(Nat), \A j \in Jids : h[j].at <= clock PROVE h \in Contacts
  <2>1. \A j \in Jids : h[j] \in [val : FlagSet, at : Nat] BY DEF Known
  <2>2. \A j \in Jids : h[j].at \in Times BY <1>2, <2>1, InTime
  <2>3. \A j \in Jids : h[j] \in [val : FlagSet, at : Times] BY <2>1, <2>2
  <2>4. QED BY <2>3 DEF Known, Contacts
<1>3. hub \in Contacts /\ snap \in Contacts BY <1>2 DEF Sync
<1>4. ASSUME NEW post \in net, NEW d \in post PROVE d \in Deltas(Times)
  <2>1. d \in Deltas(Nat) /\ d.at <= clock BY DEF Sync
  <2>2. d.at \in Times BY <2>1, InTime DEF Deltas
  <2>3. QED BY <2>1, <2>2 DEF Deltas
<1>5. QED BY <1>1, <1>3, <1>4 DEF TypeOK, Counted, Local, Sync, Deltas

(* Time that passes does not harm what is at the hub and under way.         *)
LEMMA Later ==
  ASSUME SyncTypes, clock' \in {clock, clock + 1},
         net' \subseteq net \cup {p \in SUBSET Deltas(Nat) : \A d \in p : d.at = clock'},
         UNCHANGED <<hub, snap, todo, pulling>>
  PROVE  Sync'
<1>1. clock \in Nat BY DEF SyncTypes, Counted
<1>2. ASSUME NEW j \in Jids PROVE hub[j].at <= clock' /\ snap[j].at <= clock'
  <2>1. hub[j].at \in Nat /\ snap[j].at \in Nat /\ hub[j].at <= clock /\ snap[j].at <= clock
    BY DEF SyncTypes, Sync, Known
  <2>2. QED BY <1>1, <2>1
<1>3. ASSUME NEW post \in net' PROVE post \subseteq Deltas(Nat) /\ \A d \in post : d.at <= clock'
  <2>1. CASE post \in net
    <3>1. post \subseteq Deltas(Nat) /\ \A d \in post : d.at <= clock BY <2>1 DEF SyncTypes, Sync
    <3>2. \A d \in post : d.at \in Nat BY <3>1 DEF Deltas
    <3>3. QED BY <1>1, <3>1, <3>2
  <2>2. CASE post \notin net BY <1>1, <2>2
  <2>3. QED BY <2>1, <2>2
<1>4. QED BY <1>2, <1>3 DEF SyncTypes, Sync

LEMMA DeltaType ==
  ASSUME NEW j \in Jids, NEW on \in SUBSET Flags, NEW off \in SUBSET Flags, NEW at \in Nat
  PROVE  Delta(j, on, off, at) \in Deltas(Nat) /\ Delta(j, on, off, at).at = at
BY DEF Delta, Deltas

-----------------------------------------------------------------------------
(* The edits                                                               *)

LEMMA EditTypes ==
  ASSUME SyncTypes, NEW j \in Jids, NEW f \in Flags, NEW v \in BOOLEAN, NEW spoils \in BOOLEAN,
         Edit(j, f, v, spoils)
  PROVE  /\ Counted' /\ clock' \in {clock, clock + 1} /\ clock' \in Nat
         /\ last' \in [Jids -> FlagSet] /\ spoiled' \subseteq Jids
         /\ UNCHANGED <<snap, todo, pulling>>
<1>1. /\ edits < MaxEdits /\ edits' = edits + 1 /\ clock' \in {clock, clock + 1}
      /\ UNCHANGED <<pushes, named, snap, todo, pulling>>
      /\ last' = [last EXCEPT ![j][f] = v] /\ spoiled' \subseteq spoiled \cup {j}
  BY DEF Edit
<1>2. Counted'
  <2>1. Cardinality(named) \in Nat /\ MaxEdits \in Nat /\ MaxPushes \in Nat
    BY NamedIsFinite, SyncAssumption DEF SyncTypes
  <2>2. QED BY <1>1, <2>1 DEF SyncTypes, Counted, Seconds
<1>3. QED BY <1>1, <1>2 DEF SyncTypes, Counted, Local, FlagSet

LEMMA ChatTypes ==
  ASSUME SyncTypes, NEW j \in Jids, NEW f \in Flags, NEW v \in BOOLEAN,
         ChatEdit(j, f, v) \/ HubEdit(j, f, v) \/ HandEdit(j, f, v)
  PROVE  SyncTypes'
<1>1. CASE ChatEdit(j, f, v)
  <2>1. (CrossesOther(j, f) \/ Ties(j) \/ hub[j].at = clock') \in BOOLEAN OBVIOUS
  <2>2. Edit(j, f, v, CrossesOther(j, f) \/ Ties(j) \/ hub[j].at = clock') BY <1>1 DEF ChatEdit
  <2>3. /\ Counted' /\ clock' \in {clock, clock + 1} /\ clock' \in Nat
        /\ last' \in [Jids -> FlagSet] /\ spoiled' \subseteq Jids /\ UNCHANGED <<snap, todo, pulling>>
    BY <2>1, <2>2, EditTypes
  <2>4. local' \in [Jids -> FlagSet] /\ routed' \subseteq Jids
    BY <1>1 DEF ChatEdit, SyncTypes, Local, FlagSet
  <2>5. EditDelta(j, f, v, clock') \subseteq {p \in SUBSET Deltas(Nat) : \A d \in p : d.at = clock'}
    <3>1. ASSUME NEW on \in SUBSET Flags, NEW off \in SUBSET Flags
          PROVE  {Delta(j, on, off, clock')} \in {p \in SUBSET Deltas(Nat) : \A d \in p : d.at = clock'}
      BY <2>3, DeltaType
    <3>2. QED BY <3>1 DEF EditDelta
  <2>6. Sync' BY <1>1, <2>3, <2>5, Later DEF ChatEdit
  <2>7. QED BY <2>3, <2>4, <2>6 DEF SyncTypes, Local
<1>2. CASE HubEdit(j, f, v)
  <2>1. (CrossesOther(j, f) \/ Ties(j)) \in BOOLEAN OBVIOUS
  <2>2. Edit(j, f, v, CrossesOther(j, f) \/ Ties(j)) BY <1>2 DEF HubEdit
  <2>3. /\ Counted' /\ clock' \in {clock, clock + 1} /\ clock' \in Nat
        /\ last' \in [Jids -> FlagSet] /\ spoiled' \subseteq Jids /\ UNCHANGED <<snap, todo, pulling>>
    BY <2>1, <2>2, EditTypes
  <2>4. /\ UNCHANGED <<local, routed, net>>
        /\ hub' = [hub EXCEPT ![j] = [val |-> [hub[j].val EXCEPT ![f] = v], at |-> clock']]
    BY <1>2 DEF HubEdit
  <2>5. clock \in Nat /\ hub \in Known(Nat) /\ snap \in Known(Nat) BY DEF SyncTypes, Counted, Sync
  <2>6. hub' \in Known(Nat) BY <2>3, <2>4, <2>5 DEF Known, FlagSet
  <2>7. ASSUME NEW i \in Jids PROVE hub'[i].at <= clock' /\ snap[i].at <= clock'
    <3>1. hub[i].at \in Nat /\ snap[i].at \in Nat /\ hub[i].at <= clock /\ snap[i].at <= clock
      BY <2>5 DEF SyncTypes, Sync, Known
    <3>2. i = j => hub'[i].at = clock' BY <2>4, <2>5 DEF Known
    <3>3. i # j => hub'[i] = hub[i] BY <2>4, <2>5 DEF Known
    <3>4. QED BY <2>3, <2>5, <3>1, <3>2, <3>3
  <2>8. ASSUME NEW post \in net PROVE post \subseteq Deltas(Nat) /\ \A d \in post : d.at <= clock'
    <3>1. post \subseteq Deltas(Nat) /\ \A d \in post : d.at <= clock BY DEF SyncTypes, Sync
    <3>2. \A d \in post : d.at \in Nat BY <3>1 DEF Deltas
    <3>3. QED BY <2>3, <2>5, <3>1, <3>2
  <2>9. Sync' BY <2>3, <2>4, <2>5, <2>6, <2>7, <2>8 DEF SyncTypes, Sync
  <2>10. QED BY <2>3, <2>4, <2>9 DEF SyncTypes, Local
<1>3. CASE HandEdit(j, f, v)
  <2>1. Edit(j, f, v, hub[j].at > 0 \/ Crossing(j) # {}) BY <1>3 DEF HandEdit
  <2>2. (hub[j].at > 0 \/ Crossing(j) # {}) \in BOOLEAN OBVIOUS
  <2>3. /\ Counted' /\ clock' \in {clock, clock + 1} /\ clock' \in Nat
        /\ last' \in [Jids -> FlagSet] /\ spoiled' \subseteq Jids /\ UNCHANGED <<snap, todo, pulling>>
    BY <2>1, <2>2, EditTypes
  <2>4. local' \in [Jids -> FlagSet] /\ routed' \subseteq Jids
    BY <1>3 DEF HandEdit, SyncTypes, Local, FlagSet
  <2>5. Sync' BY <1>3, <2>3, Later DEF HandEdit
  <2>6. QED BY <2>3, <2>4, <2>5 DEF SyncTypes, Local
<1>4. QED BY <1>1, <1>2, <1>3

-----------------------------------------------------------------------------
(* The posts                                                               *)

LEMMA PostTypes ==
  ASSUME SyncTypes, NEW post \in net, Deliver(post) \/ Lose(post)
  PROVE  SyncTypes'
<1>1. /\ UNCHANGED <<clock, edits, pushes, named, local, last, routed, snap, todo, pulling>>
      /\ net' \subseteq net
  BY DEF Deliver, Lose
<1>2. Counted' BY <1>1 DEF SyncTypes, Counted, Seconds
<1>3. post \subseteq Deltas(Nat) /\ \A d \in post : d.at <= clock BY DEF SyncTypes, Sync
<1>4. spoiled' \subseteq Jids
  BY <1>3 DEF Deliver, Lose, SyncTypes, Local, Deltas
<1>5. Local' BY <1>1, <1>4 DEF SyncTypes, Local
<1>6. CASE Lose(post) BY <1>1, <1>2, <1>5, <1>6 DEF Lose, SyncTypes, Sync
<1>7. CASE Deliver(post)
  <2>1. ASSUME NEW c \in [val : FlagSet, at : Nat], NEW d \in Deltas(Nat), c.at <= clock, d.at <= clock
        PROVE  LastWins(c, d) \in [val : FlagSet, at : Nat] /\ LastWins(c, d).at <= clock
    BY <2>1 DEF LastWins, FlagSet, Deltas
  <2> DEFINE merged(j) == IF \E d \in post : d.jid = j
                          THEN LastWins(hub[j], CHOOSE d \in post : d.jid = j) ELSE hub[j]
  <2>2. ASSUME NEW j \in Jids
        PROVE  merged(j) \in [val : FlagSet, at : Nat] /\ merged(j).at <= clock
    <3>1. hub[j] \in [val : FlagSet, at : Nat] /\ hub[j].at <= clock BY DEF SyncTypes, Sync, Known
    <3>2. CASE \E d \in post : d.jid = j
      <4>1. (CHOOSE d \in post : d.jid = j) \in post BY <3>2
      <4>2. QED BY <1>3, <2>1, <3>1, <3>2, <4>1
    <3>3. QED BY <3>1, <3>2
  <2>3. hub' = [j \in Jids |-> merged(j)] BY <1>7 DEF Deliver
  <2> HIDE DEF merged
  <2>4. hub' \in Known(Nat) /\ \A j \in Jids : hub'[j].at <= clock BY <2>2, <2>3 DEF Known
  <2>5. Sync' BY <1>1, <2>4 DEF SyncTypes, Sync
  <2>6. QED BY <1>2, <1>5, <2>5 DEF SyncTypes
<1>8. QED BY <1>6, <1>7

LEMMA PushTypes ==
  ASSUME SyncTypes, FullPush
  PROVE  SyncTypes'
<1>1. /\ pushes < MaxPushes /\ pushes' = pushes + 1 /\ clock' \in {clock, clock + 1}
      /\ net' = net \cup ({FullDeltas(clock')} \ {{}}) /\ spoiled' \subseteq spoiled \cup Jids
      /\ UNCHANGED <<edits, local, routed, hub, snap, todo, pulling, named, last>>
  BY DEF FullPush
<1>2. clock' \in Nat BY <1>1 DEF SyncTypes, Counted
<1>3. Counted'
  <2>1. Cardinality(named) \in Nat /\ MaxEdits \in Nat /\ MaxPushes \in Nat
    BY NamedIsFinite, SyncAssumption DEF SyncTypes
  <2>2. QED BY <1>1, <2>1 DEF SyncTypes, Counted, Seconds
<1>4. FullDeltas(clock') \in {p \in SUBSET Deltas(Nat) : \A d \in p : d.at = clock'}
  <2>1. ASSUME NEW j \in Jids
        PROVE  /\ Delta(j, {f \in Flags : local[j][f]}, {}, clock') \in Deltas(Nat)
               /\ Delta(j, {f \in Flags : local[j][f]}, {}, clock').at = clock'
    BY <1>2, DeltaType
  <2>2. routed \cup {i \in Jids : "isAdmin" \in Flags /\ local[i]["isAdmin"]} \subseteq Jids
    BY DEF SyncTypes, Local
  <2>3. QED BY <2>1, <2>2 DEF FullDeltas
<1>5. Sync' BY <1>1, <1>4, Later
<1>6. Local' BY <1>1 DEF SyncTypes, Local
<1>7. QED BY <1>3, <1>5, <1>6 DEF SyncTypes

LEMMA NameTypes ==
  ASSUME SyncTypes, NEW j \in Jids, BackfillName(j)
  PROVE  SyncTypes'
<1>1. /\ j \notin named /\ named' = named \cup {j} /\ clock' \in {clock, clock + 1}
      /\ net' = net \cup {{Delta(j, {}, {}, clock')}} /\ spoiled' \subseteq spoiled \cup {j}
      /\ UNCHANGED <<edits, pushes, local, routed, hub, snap, todo, pulling, last>>
  BY DEF BackfillName
<1>2. clock' \in Nat BY <1>1 DEF SyncTypes, Counted
<1>3. Counted'
  <2>1. Cardinality(named) \in Nat /\ IsFiniteSet(named) BY NamedIsFinite DEF SyncTypes
  <2>2. Cardinality(named') = Cardinality(named) + 1 BY <1>1, <2>1, FS_AddElement
  <2>3. edits \in Nat /\ pushes \in Nat BY SyncAssumption DEF SyncTypes, Counted
  <2>4. QED BY <1>1, <2>1, <2>2, <2>3 DEF SyncTypes, Counted, Seconds
<1>4. {Delta(j, {}, {}, clock')} \in {p \in SUBSET Deltas(Nat) : \A d \in p : d.at = clock'}
  BY <1>2, DeltaType
<1>5. Sync' BY <1>1, <1>4, Later
<1>6. Local' BY <1>1 DEF SyncTypes, Local
<1>7. QED BY <1>3, <1>5, <1>6 DEF SyncTypes

-----------------------------------------------------------------------------
(* The pull                                                                *)

LEMMA PullTypes ==
  ASSUME SyncTypes,
         PullGet \/ PullAdmins \/ AdminsSkipped \/ \E j \in Jids : PullContact(j) \/ PullSkips(j)
  PROVE  SyncTypes'
<1>1. /\ UNCHANGED <<clock, edits, pushes, named, hub, net, last, spoiled>>
      /\ todo' \subseteq Jids /\ pulling' \in BOOLEAN
      /\ snap' \in {snap, hub} /\ routed' \subseteq Jids
  BY DEF PullGet, PullContact, PullSkips, PullAdmins, AdminsSkipped, SyncTypes, Local, Sync
<1>2. Counted' BY <1>1 DEF SyncTypes, Counted, Seconds
<1>3. Sync' BY <1>1 DEF SyncTypes, Sync
<1>4. local' \in [Jids -> FlagSet]
  <2>1. /\ \A i \in Jids, f \in Flags : local[i][f] \in BOOLEAN /\ snap[i].val[f] \in BOOLEAN
        /\ local \in [Jids -> FlagSet]
    BY DEF SyncTypes, Local, Sync, Known, FlagSet
  <2>2. ASSUME NEW j \in Jids, PullContact(j) PROVE local' \in [Jids -> FlagSet]
    <3>1. Written(j) \in FlagSet BY <2>1 DEF Written, FlagSet
    <3>2. QED BY <2>1, <2>2, <3>1 DEF PullContact
  <2>3. CASE PullAdmins BY <2>1, <2>3 DEF PullAdmins, FlagSet
  <2>4. CASE UNCHANGED local BY <2>1, <2>4
  <2>5. QED BY <2>2, <2>3, <2>4 DEF PullGet, PullSkips, AdminsSkipped
<1>5. Local' BY <1>1, <1>4 DEF SyncTypes, Local
<1>6. QED BY <1>2, <1>3, <1>5 DEF SyncTypes

LEMMA SyncStep == SyncTypes /\ [Next]_vars => SyncTypes'
<1> SUFFICES ASSUME SyncTypes, [Next]_vars PROVE SyncTypes'
  OBVIOUS
<1>1. CASE UNCHANGED vars
  BY <1>1 DEF vars, SyncTypes, Counted, Seconds, Local, Sync
<1>2. CASE \E j \in Jids, f \in Flags, v \in BOOLEAN : ChatEdit(j, f, v) \/ HubEdit(j, f, v) \/ HandEdit(j, f, v)
  BY <1>2, ChatTypes
<1>3. CASE \E post \in net : Deliver(post) \/ Lose(post) BY <1>3, PostTypes
<1>4. CASE FullPush BY <1>4, PushTypes
<1>5. CASE PullGet \/ PullAdmins \/ AdminsSkipped \/ \E j \in Jids : PullContact(j) \/ PullSkips(j)
  BY <1>5, PullTypes
<1>6. CASE \E j \in Jids : BackfillName(j) BY <1>6, NameTypes
<1>7. QED BY <1>1, <1>2, <1>3, <1>4, <1>5, <1>6 DEF Next

LEMMA StartTypes == Init => SyncTypes
<1> SUFFICES ASSUME Init PROVE SyncTypes
  OBVIOUS
<1>1. Counted BY SyncAssumption, FS_EmptySet DEF Init, Counted, Seconds
<1>2. Local BY DEF Init, Local, Unset, FlagSet
<1>3. hub \in Known(Nat) /\ \A j \in Jids : hub[j].at = 0 BY DEF Init, Known, Unset, FlagSet
<1>4. net = {} /\ clock = 1 /\ snap = hub /\ todo = {} /\ pulling = FALSE BY DEF Init
<1>5. Sync
  <2>1. \A j \in Jids : hub[j].at <= clock /\ snap[j].at <= clock BY <1>3, <1>4
  <2>2. QED BY <1>3, <1>4, <2>1 DEF Sync
<1>6. QED BY <1>1, <1>2, <1>5 DEF SyncTypes

(* The types, and with them the bound that the clock has.                  *)
THEOREM TypeCorrect == Spec => []TypeOK
BY StartTypes, SyncStep, TypesFit, PTL DEF Spec
-----------------------------------------------------------------------------
(* The latest edits.  What makes LatestSurvives inductive, for a contact    *)
(* that is not excepted: a later delta of his speaks for every flag that an *)
(* earlier one speaks for, so that no delta under way can bring back what   *)
(* was changed after it; and a contact nobody told the hub of is as the     *)
(* latest edits left him.                                                  *)
FlagsOf(d) == d.on \cup d.off

Posts ==
  \A post \in net : \A d \in post :
    /\ d.at > 0 /\ d.on \cap d.off = {}
    /\ \A e \in post : d.jid = e.jid => d = e

AtHub ==
  /\ \A j \in todo : hub[j].at > 0
  /\ \A j \in Jids : hub[j].at = 0 => hub[j].val = Unset

Nested(j) ==
  \A d, e \in Crossing(j) :
    /\ d.at < e.at => FlagsOf(d) \subseteq FlagsOf(e)
    /\ d.at = e.at => d = e

Unheard(j) == ~Heard(j) => \A f \in Flags \ {"isAdmin"} : local[j][f] = last[j][f]

Kept(j, f) ==
  IF f = "profile" THEN last[j][f] => local[j][f] \/ Due(j, f) ELSE Heard(j) => Due(j, f)

Held(j) == Nested(j) /\ Unheard(j) /\ \A f \in Flags \ {"isAdmin"} : Kept(j, f)

Latest == SyncTypes /\ Posts /\ AtHub /\ \A j \in Jids \ spoiled : Held(j)

LEMMA Under ==
  ASSUME SyncTypes, NEW j \in Jids, NEW d \in Crossing(j)
  PROVE  d \in Deltas(Nat) /\ d.jid = j /\ d.at \in Nat /\ d.at <= clock /\ \E post \in net : d \in post
<1>1. PICK post \in net : d \in post /\ d.jid = j BY DEF Crossing
<1>2. QED BY <1>1 DEF SyncTypes, Sync, Deltas

LEMMA AtHubTypes ==
  ASSUME SyncTypes, NEW j \in Jids
  PROVE  /\ hub[j].at \in Nat /\ hub[j].at <= clock /\ hub[j].val \in FlagSet
         /\ clock \in Nat /\ local[j] \in FlagSet /\ last[j] \in FlagSet
BY DEF SyncTypes, Counted, Local, Sync, Known

(* What a step leaves alone stays as it is.                                *)
LEMMA Aside ==
  ASSUME NEW j \in Jids, Held(j), Crossing(j)' = Crossing(j),
         hub'[j] = hub[j], local'[j] = local[j], last'[j] = last[j]
  PROVE  Held(j)'
<1>1. Heard(j)' <=> Heard(j) BY DEF Heard
<1>2. Nested(j)' BY DEF Held, Nested, FlagsOf
<1>3. Unheard(j)' BY <1>1 DEF Held, Unheard
<1>4. ASSUME NEW f \in Flags PROVE Due(j, f)' <=> Due(j, f) BY DEF Due, Decisive
<1>5. QED BY <1>1, <1>2, <1>3, <1>4 DEF Held, Kept

(* Where nothing under way speaks of a flag, and the hub would not take it  *)
(* away, the hub has the latest edit of it, or else has yet to hear of it.  *)
LEMMA Settled ==
  ASSUME SyncTypes, AtHub, NEW j \in Jids, Held(j), NEW f \in Flags \ {"isAdmin"},
         f \notin Unreported(j), \A d \in Crossing(j) : f \notin FlagsOf(d)
  PROVE  /\ Decisive(j, f) = {}
         /\ f # "profile" => hub[j].val[f] = last[j][f]
         /\ f = "profile" /\ last[j][f] => local[j][f] \/ hub[j].val[f] = last[j][f]
<1>1. Decisive(j, f) = {} BY DEF Decisive, FlagsOf
<1>2. Due(j, f) => hub[j].val[f] = last[j][f] BY <1>1 DEF Due
<1>3. ASSUME f # "profile" PROVE hub[j].val[f] = last[j][f]
  <2>1. CASE Heard(j) BY <1>2, <1>3, <2>1 DEF Held, Kept
  <2>2. CASE ~Heard(j)
    <3>1. hub[j].at = 0 BY <2>2, AtHubTypes DEF Heard
    <3>2. hub[j].val[f] = FALSE BY <3>1 DEF AtHub, Unset
    <3>3. local[j][f] = FALSE BY <1>3, <3>1, AtHubTypes DEF Unreported, FlagSet
    <3>4. local[j][f] = last[j][f] BY <2>2 DEF Held, Unheard
    <3>5. QED BY <3>2, <3>3, <3>4
  <2>3. QED BY <2>1, <2>2
<1>4. QED BY <1>1, <1>2, <1>3 DEF Held, Kept

(* A new delta that is the latest of a contact and speaks for all of them.  *)
LEMMA NewDelta ==
  ASSUME SyncTypes, NEW j \in Jids, NEW d, d.at \in Nat, hub[j].at <= d.at,
         Crossing(j)' = Crossing(j) \cup {d}, hub'[j] = hub[j],
         \A e \in Crossing(j) : e.at < d.at /\ FlagsOf(e) \subseteq FlagsOf(d),
         Nested(j)
  PROVE  /\ Nested(j)' /\ Heard(j)'
         /\ \A f \in Flags : f \in (IF last'[j][f] THEN d.on ELSE d.off) => Due(j, f)'
         /\ \A f \in Flags : f \notin FlagsOf(d) => (Due(j, f)' <=> hub[j].val[f] = last'[j][f])
<1>1. \A e \in Crossing(j) : e.at \in Nat BY Under
<1>2. Nested(j)'
  <2> SUFFICES ASSUME NEW a \in Crossing(j)', NEW b \in Crossing(j)'
               PROVE  /\ a.at < b.at => FlagsOf(a) \subseteq FlagsOf(b)
                      /\ a.at = b.at => a = b
    BY DEF Nested, FlagsOf
  <2>1. CASE a \in Crossing(j) /\ b \in Crossing(j) BY <2>1 DEF Nested
  <2>2. CASE a = d /\ b \in Crossing(j) BY <1>1, <2>2
  <2>3. CASE b = d /\ a \in Crossing(j) BY <1>1, <2>3
  <2>4. CASE a = d /\ b = d BY <2>4
  <2>5. QED BY <2>1, <2>2, <2>3, <2>4
<1>3. Heard(j)' BY DEF Heard
<1>4. ASSUME NEW f \in Flags, f \in (IF last'[j][f] THEN d.on ELSE d.off) PROVE Due(j, f)'
  <2>1. d \in Decisive(j, f)' BY <1>4 DEF Decisive
  <2>2. \A e \in Decisive(j, f)' : e.at <= d.at BY <1>1 DEF Decisive
  <2>3. QED BY <1>4, <2>1, <2>2 DEF Due
<1>5. ASSUME NEW f \in Flags, f \notin FlagsOf(d) PROVE Due(j, f)' <=> hub[j].val[f] = last'[j][f]
  <2>1. Decisive(j, f)' = {} BY <1>5 DEF Decisive, FlagsOf
  <2>2. QED BY <2>1 DEF Due
<1>6. QED BY <1>2, <1>3, <1>4, <1>5

LEMMA Posted ==
  ASSUME NEW j \in Jids, NEW post, net' = net \cup {post}
  PROVE  Crossing(j)' = Crossing(j) \cup {d \in post : d.jid = j}
<1>1. \A d : d \in Crossing(j)' <=> d.jid = j /\ \E p \in net \cup {post} : d \in p BY DEF Crossing
<1>2. \A d : d \in Crossing(j) <=> d.jid = j /\ \E p \in net : d \in p BY DEF Crossing
<1>3. QED BY <1>1, <1>2

LEMMA PostsGrow ==
  ASSUME Posts, NEW post, net' = net \cup {post},
         \A d \in post : d.at > 0 /\ d.on \cap d.off = {} /\ \A e \in post : d.jid = e.jid => d = e
  PROVE  Posts'
BY DEF Posts

(* The edits.  One that excepts nobody crosses only deltas of its own flag. *)
LEMMA EditSteps ==
  ASSUME SyncTypes, NEW j \in Jids, NEW f \in Flags, NEW v \in BOOLEAN, NEW spoils \in BOOLEAN,
         Edit(j, f, v, spoils)
  PROVE  /\ clock' \in Nat /\ clock' >= clock
         /\ last' = [last EXCEPT ![j][f] = v] /\ todo' = todo
         /\ \A i \in Jids \ spoiled' : i \notin spoiled /\ (i = j => ~spoils)
         /\ \A i \in Jids : i # j => last'[i] = last[i]
         /\ \A g \in Flags : last'[j][g] = IF g = f THEN v ELSE last[j][g]
BY DEF Edit, SyncTypes, Counted, Local, FlagSet

LEMMA ChatLatest ==
  ASSUME Latest, NEW j \in Jids, NEW f \in Flags, NEW v \in BOOLEAN, ChatEdit(j, f, v)
  PROVE  Posts' /\ AtHub' /\ \A i \in Jids \ spoiled' : Held(i)'
<1> USE DEF Latest
<1> DEFINE spoils == CrossesOther(j, f) \/ Ties(j) \/ hub[j].at = clock'
<1>1. /\ Edit(j, f, v, spoils)
      /\ local' = [local EXCEPT ![j][f] = v]
      /\ net' = net \cup EditDelta(j, f, v, clock') /\ hub' = hub /\ f # "profile"
  BY DEF ChatEdit, ChatFlags
<1>2. spoils \in BOOLEAN OBVIOUS
<1> HIDE DEF spoils
<1>3. /\ clock' \in Nat /\ clock' >= clock
      /\ todo' = todo
      /\ \A i \in Jids \ spoiled' : i \notin spoiled /\ (i = j => ~spoils)
      /\ \A i \in Jids : i # j => last'[i] = last[i]
      /\ \A g \in Flags : last'[j][g] = IF g = f THEN v ELSE last[j][g]
  BY <1>1, <1>2, EditSteps
<1>0. ~spoils => ~CrossesOther(j, f) /\ ~Ties(j) BY DEF spoils
<1>4. /\ \A i \in Jids : i # j => local'[i] = local[i]
      /\ \A g \in Flags : local'[j][g] = IF g = f THEN v ELSE local[j][g]
  BY <1>1 DEF SyncTypes, Local, FlagSet
<1>5. AtHub' BY <1>1, <1>3 DEF AtHub
<1>6. clock \in Nat /\ clock > 0 BY DEF SyncTypes, Counted
<1>7. CASE f \in Mirrored
  <2> DEFINE d == Delta(j, IF v THEN {f} ELSE {}, IF v THEN {} ELSE {f}, clock')
  <2>1. net' = net \cup {{d}} BY <1>1, <1>7 DEF EditDelta
  <2>2. /\ d.jid = j /\ d.at = clock' /\ FlagsOf(d) = {f} /\ d.on \cap d.off = {}
        /\ f \in IF v THEN d.on ELSE d.off
    BY DEF Delta, FlagsOf
  <2> HIDE DEF d
  <2>3. Posts'
    <3>1. \A a \in {d} : a.at > 0 /\ a.on \cap a.off = {} /\ \A e \in {d} : a.jid = e.jid => a = e
      BY <1>3, <1>6, <2>2
    <3>2. Posts OBVIOUS
    <3>3. QED BY <2>1, <3>1, <3>2, PostsGrow
  <2>4. ASSUME NEW i \in Jids \ spoiled', i # j PROVE Held(i)'
    <3>1. Crossing(i)' = Crossing(i)
      <4>1. Crossing(i)' = Crossing(i) \cup {a \in {d} : a.jid = i} BY <2>1, Posted
      <4>2. QED BY <2>2, <2>4, <4>1
    <3>2. Held(i) BY <1>3
    <3>3. QED BY <1>1, <1>3, <1>4, <2>4, <3>1, <3>2, Aside
  <2>5. ASSUME j \notin spoiled' PROVE Held(j)'
    <3>1. Held(j) /\ (\A e \in Crossing(j) : FlagsOf(e) \subseteq {f}) /\ Unreported(j) \subseteq {f}
      BY <1>0, <1>3, <2>5 DEF CrossesOther, FlagsOf
    <3>2. Crossing(j)' = Crossing(j) \cup {d} BY <2>1, <2>2, Posted
    <3>3. \A e \in Crossing(j) : e.at < d.at /\ FlagsOf(e) \subseteq FlagsOf(d)
      BY <1>0, <1>3, <1>6, <2>2, <2>5, <3>1, Under DEF Ties
    <3>4. hub[j].at \in Nat /\ hub[j].at <= d.at /\ d.at \in Nat BY <1>3, <1>6, <2>2, AtHubTypes
    <3>5. /\ Nested(j)' /\ Heard(j)'
          /\ \A g \in Flags : g \in (IF last'[j][g] THEN d.on ELSE d.off) => Due(j, g)'
          /\ \A g \in Flags : g \notin FlagsOf(d) => (Due(j, g)' <=> hub[j].val[g] = last'[j][g])
      <4>1. Nested(j) /\ hub'[j] = hub[j] BY <1>1, <3>1 DEF Held
      <4>2. QED BY <3>2, <3>3, <3>4, <4>1, NewDelta
    <3>6. Due(j, f)' BY <1>3, <2>2, <3>5
    <3>7. ASSUME NEW g \in Flags \ {"isAdmin"}, g # f PROVE Kept(j, g)'
      <4>1. /\ g # "profile" => hub[j].val[g] = last[j][g]
            /\ g = "profile" /\ last[j][g] => local[j][g] \/ hub[j].val[g] = last[j][g]
        BY <3>1, <3>7, Settled
      <4>2. last'[j][g] = last[j][g] /\ local'[j][g] = local[j][g] BY <1>3, <1>4, <3>7
      <4>3. Due(j, g)' <=> hub[j].val[g] = last[j][g] BY <2>2, <3>5, <3>7, <4>2
      <4>4. QED BY <4>1, <4>2, <4>3 DEF Kept
    <3>8. Kept(j, f)' BY <3>6 DEF Kept
    <3>9. QED BY <3>5, <3>7, <3>8 DEF Held, Unheard
  <2>6. QED BY <1>5, <2>3, <2>4, <2>5
<1>8. CASE f \notin Mirrored
  <2>1. net' = net /\ f = "isAdmin" BY <1>1, <1>8 DEF EditDelta, ChatEdit, ChatFlags, Mirrored
  <2>2. Posts' BY <2>1 DEF Posts
  <2>3. ASSUME NEW i \in Jids \ spoiled' PROVE Held(i)'
    <3>1. Crossing(i)' = Crossing(i) /\ hub'[i] = hub[i] /\ Held(i) BY <1>1, <1>3, <2>1 DEF Crossing
    <3>2. \A g \in Flags \ {"isAdmin"} : local'[i][g] = local[i][g] /\ last'[i][g] = last[i][g]
      BY <1>3, <1>4, <2>1
    <3>3. Nested(i)' /\ (Heard(i)' <=> Heard(i)) BY <3>1 DEF Held, Nested, Heard, FlagsOf
    <3>4. ASSUME NEW g \in Flags \ {"isAdmin"} PROVE Due(i, g)' <=> Due(i, g)
      BY <3>1, <3>2 DEF Due, Decisive
    <3>5. QED BY <3>1, <3>2, <3>3, <3>4 DEF Held, Unheard, Kept
  <2>4. QED BY <1>5, <2>2, <2>3
<1>9. QED BY <1>7, <1>8

LEMMA HubLatest ==
  ASSUME Latest, NEW j \in Jids, NEW f \in Flags, NEW v \in BOOLEAN, HubEdit(j, f, v)
  PROVE  Posts' /\ AtHub' /\ \A i \in Jids \ spoiled' : Held(i)'
<1> USE DEF Latest
<1> DEFINE spoils == CrossesOther(j, f) \/ Ties(j)
<1>1. /\ Edit(j, f, v, spoils) /\ UNCHANGED <<local, net>>
      /\ hub' = [hub EXCEPT ![j] = [val |-> [hub[j].val EXCEPT ![f] = v], at |-> clock']]
  BY DEF HubEdit
<1>2. spoils \in BOOLEAN OBVIOUS
<1> HIDE DEF spoils
<1>3. /\ clock' \in Nat /\ clock' >= clock
      /\ todo' = todo
      /\ \A i \in Jids \ spoiled' : i \notin spoiled /\ (i = j => ~spoils)
      /\ \A i \in Jids : i # j => last'[i] = last[i]
      /\ \A g \in Flags : last'[j][g] = IF g = f THEN v ELSE last[j][g]
  BY <1>1, <1>2, EditSteps
<1>0. ~spoils => ~CrossesOther(j, f) /\ ~Ties(j) BY DEF spoils
<1>4. /\ \A i \in Jids : i # j => hub'[i] = hub[i]
      /\ hub'[j].at = clock'
      /\ \A g \in Flags : hub'[j].val[g] = IF g = f THEN v ELSE hub[j].val[g]
  BY <1>1 DEF SyncTypes, Sync, Known, FlagSet
<1>5. clock \in Nat /\ clock > 0 BY DEF SyncTypes, Counted
<1>6. AtHub'
  <2>1. \A i \in Jids : hub'[i].at = 0 => i # j BY <1>3, <1>4, <1>5
  <2>2. \A i \in todo : hub'[i].at > 0 BY <1>3, <1>4, <1>5 DEF AtHub, SyncTypes, Sync
  <2>3. QED BY <1>3, <1>4, <2>1, <2>2 DEF AtHub
<1>7. Posts' BY <1>1 DEF Posts
<1>8. \A i \in Jids : Crossing(i)' = Crossing(i) BY <1>1 DEF Crossing
<1>9. ASSUME NEW i \in Jids \ spoiled', i # j PROVE Held(i)'
  <2>1. Held(i) BY <1>3
  <2>2. QED BY <1>1, <1>3, <1>4, <1>8, <1>9, <2>1, Aside
<1>10. ASSUME j \notin spoiled' PROVE Held(j)'
  <2>1. Held(j) /\ (\A e \in Crossing(j) : FlagsOf(e) \subseteq {f}) /\ Unreported(j) \subseteq {f}
    BY <1>0, <1>3, <1>10 DEF CrossesOther, FlagsOf
  <2>2. Nested(j)' BY <1>8, <2>1 DEF Held, Nested, FlagsOf
  <2>3. Heard(j)' BY <1>3, <1>4, <1>5 DEF Heard
  <2>4. \A g \in Flags : Decisive(j, g)' = {}
    <3>1. \A e \in Crossing(j) : ~(e.at >= clock') BY <1>0, <1>3, <1>5, <1>10, Under DEF Ties
    <3>2. QED BY <1>4, <1>8, <3>1 DEF Decisive
  <2>5. \A g \in Flags : hub'[j].val[g] = last'[j][g] => Due(j, g)' BY <2>4 DEF Due
  <2>6. ASSUME NEW g \in Flags \ {"isAdmin"} PROVE Kept(j, g)'
    <3>1. CASE g = f BY <1>3, <1>4, <2>5, <3>1 DEF Kept
    <3>2. CASE g # f
      <4>1. /\ g # "profile" => hub[j].val[g] = last[j][g]
            /\ g = "profile" /\ last[j][g] => local[j][g] \/ hub[j].val[g] = last[j][g]
        BY <2>1, <3>2, Settled
      <4>2. last'[j][g] = last[j][g] /\ hub'[j].val[g] = hub[j].val[g] BY <1>3, <1>4, <3>2
      <4>3. QED BY <1>1, <2>5, <4>1, <4>2 DEF Kept
    <3>3. QED BY <3>1, <3>2
  <2>7. QED BY <2>2, <2>3, <2>6 DEF Held, Unheard
<1>11. QED BY <1>6, <1>7, <1>9, <1>10

LEMMA HandLatest ==
  ASSUME Latest, NEW j \in Jids, NEW f \in Flags, NEW v \in BOOLEAN, HandEdit(j, f, v)
  PROVE  Posts' /\ AtHub' /\ \A i \in Jids \ spoiled' : Held(i)'
<1> USE DEF Latest
<1>1. /\ Edit(j, f, v, Heard(j)) /\ UNCHANGED <<hub, net>>
      /\ local' = [local EXCEPT ![j][f] = v]
  BY DEF HandEdit, Heard
<1>2. Heard(j) \in BOOLEAN BY DEF Heard
<1>3. /\ todo' = todo
      /\ \A i \in Jids \ spoiled' : i \notin spoiled /\ (i = j => ~Heard(j))
      /\ \A i \in Jids : i # j => last'[i] = last[i]
      /\ \A g \in Flags : last'[j][g] = IF g = f THEN v ELSE last[j][g]
  BY <1>1, <1>2, EditSteps
<1>4. /\ \A i \in Jids : i # j => local'[i] = local[i]
      /\ \A g \in Flags : local'[j][g] = IF g = f THEN v ELSE local[j][g]
  BY <1>1 DEF SyncTypes, Local, FlagSet
<1>5. Posts' /\ AtHub' BY <1>1, <1>3 DEF Posts, AtHub
<1>6. \A i \in Jids : Crossing(i)' = Crossing(i) BY <1>1 DEF Crossing
<1>7. ASSUME NEW i \in Jids \ spoiled', i # j PROVE Held(i)'
  <2>1. Held(i) BY <1>3
  <2>2. QED BY <1>1, <1>3, <1>4, <1>6, <1>7, <2>1, Aside
<1>8. ASSUME j \notin spoiled' PROVE Held(j)'
  <2>1. Held(j) /\ ~Heard(j) BY <1>3, <1>8
  <2>2. Nested(j)' /\ ~Heard(j)' BY <1>1, <1>6, <2>1 DEF Held, Nested, Heard, FlagsOf
  <2>3. \A g \in Flags \ {"isAdmin"} : local'[j][g] = last'[j][g]
    BY <1>3, <1>4, <2>1 DEF Held, Unheard
  <2>4. QED BY <2>2, <2>3 DEF Held, Unheard, Kept
<1>9. QED BY <1>5, <1>7, <1>8

(* The posts.  One that arrives takes its own delta of a contact with it;   *)
(* another post may hold the same one.                                     *)
LEMMA Gone ==
  ASSUME NEW post \in net, net' = net \ {post}, NEW j \in Jids
  PROVE  /\ Crossing(j)' \subseteq Crossing(j)
         /\ \A d \in Crossing(j) : d \notin post => d \in Crossing(j)'
BY DEF Crossing

LEMMA Merged ==
  ASSUME SyncTypes, NEW j \in Jids, NEW d \in Deltas(Nat), d.on \cap d.off = {},
         NEW f \in Flags, hub[j].at <= d.at
  PROVE  /\ LastWins(hub[j], d).at = d.at
         /\ f \notin FlagsOf(d) => LastWins(hub[j], d).val[f] = hub[j].val[f]
         /\ \A v \in BOOLEAN : f \in (IF v THEN d.on ELSE d.off) => LastWins(hub[j], d).val[f] = v
<1>1. hub[j].at \in Nat /\ d.at \in Nat /\ hub[j].val[f] \in BOOLEAN BY AtHubTypes DEF Deltas, FlagSet
<1>2. LastWins(hub[j], d) =
        [val |-> [g \in Flags |-> g \in d.on \/ (hub[j].val[g] /\ g \notin d.off)], at |-> d.at]
  BY <1>1 DEF LastWins
<1>3. LastWins(hub[j], d).val[f] = (f \in d.on \/ (hub[j].val[f] /\ f \notin d.off)) BY <1>2
<1>4. QED BY <1>1, <1>2, <1>3 DEF FlagsOf

(* What is due survives an arrival.                                        *)
LEMMA DueArrives ==
  ASSUME SyncTypes, Posts, NEW j \in Jids, Nested(j), NEW f \in Flags, Due(j, f),
         NEW post \in net, net' = net \ {post}, UNCHANGED last,
         NEW d \in post, d.jid = j, hub'[j] = LastWins(hub[j], d)
  PROVE  Due(j, f)'
<1>1. d \in Crossing(j) BY DEF Crossing
<1>2. /\ \A e \in Crossing(j) : e # d => e \in Crossing(j)'
      /\ Crossing(j)' \subseteq Crossing(j)
  <2>1. \A e \in Crossing(j) : e.jid = j BY Under
  <2>2. \A e \in post : e.jid = j => e = d BY DEF Posts
  <2>3. QED BY <2>1, <2>2, Gone
<1>3. hub[j].at \in Nat /\ last[j][f] \in BOOLEAN BY AtHubTypes DEF FlagSet
<1>4. \A e \in Crossing(j) : e.at \in Nat BY Under
<1>5. CASE d.at < hub[j].at
  <2>1. hub'[j] = hub[j] BY <1>5 DEF LastWins
  <2>2. d \notin Decisive(j, f) BY <1>1, <1>3, <1>4, <1>5 DEF Decisive
  <2>3. Decisive(j, f)' = Decisive(j, f) BY <1>2, <2>1, <2>2 DEF Decisive
  <2>4. QED BY <2>1, <2>3 DEF Due
<1>6. CASE hub[j].at <= d.at
  <2>1. d \in Deltas(Nat) /\ d.on \cap d.off = {} BY <1>1, Under DEF Posts
  <2>2. /\ hub'[j].at = d.at
        /\ f \notin FlagsOf(d) => hub'[j].val[f] = hub[j].val[f]
        /\ f \in (IF last[j][f] THEN d.on ELSE d.off) => hub'[j].val[f] = last[j][f]
    BY <1>3, <1>6, <2>1, Merged
  <2>3. CASE f \in FlagsOf(d)
    <3>1. d \in Decisive(j, f) BY <1>1, <1>6, <2>3 DEF Decisive, FlagsOf
    <3>2. PICK m \in Decisive(j, f) : /\ \A e \in Decisive(j, f) : e.at <= m.at
                                      /\ f \in IF last[j][f] THEN m.on ELSE m.off
      BY <3>1 DEF Due
    <3>3. m \in Crossing(j) /\ d.at <= m.at BY <3>1, <3>2 DEF Decisive
    <3>4. \A e \in Decisive(j, f)' : e \in Decisive(j, f) /\ e.at >= d.at
      BY <1>1, <1>2, <1>3, <1>4, <1>6, <2>2 DEF Decisive
    <3>5. CASE m = d
      <4>1. \A e \in Decisive(j, f)' : e = d
        <5> SUFFICES ASSUME NEW e \in Decisive(j, f)' PROVE e = d
          OBVIOUS
        <5>1. e \in Crossing(j) /\ e.at >= d.at /\ e.at <= d.at BY <3>2, <3>4, <3>5 DEF Decisive
        <5>2. e.at = d.at BY <1>1, <1>4, <5>1
        <5>3. QED BY <1>1, <5>1, <5>2 DEF Nested
      <4>2. CASE d \in Decisive(j, f)'
        <5>1. \A e \in Decisive(j, f)' : e.at <= d.at BY <1>1, <1>4, <4>1
        <5>2. QED BY <3>2, <3>5, <4>2, <5>1 DEF Due
      <4>3. CASE d \notin Decisive(j, f)'
        <5>1. Decisive(j, f)' = {} BY <4>1, <4>3
        <5>2. QED BY <2>2, <3>2, <3>5, <5>1 DEF Due
      <4>4. QED BY <4>2, <4>3
    <3>6. CASE m # d
      <4>1. m \in Decisive(j, f)' BY <1>2, <2>2, <3>2, <3>3, <3>6 DEF Decisive
      <4>2. \A e \in Decisive(j, f)' : e.at <= m.at BY <3>2, <3>4
      <4>3. QED BY <3>2, <4>1, <4>2 DEF Due
    <3>7. QED BY <3>5, <3>6
  <2>4. CASE f \notin FlagsOf(d)
    <3>1. ASSUME NEW e \in Decisive(j, f) PROVE e \in Crossing(j) /\ e # d /\ e.at > d.at
      <4>1. e \in Crossing(j) /\ f \in FlagsOf(e) BY DEF Decisive, FlagsOf
      <4>2. ~(e.at < d.at) /\ e.at # d.at BY <1>1, <2>4, <4>1 DEF Nested
      <4>3. QED BY <1>1, <1>4, <2>4, <4>1, <4>2
    <3>2. \A e \in Decisive(j, f) : e \in Decisive(j, f)'
      BY <1>1, <1>2, <1>4, <2>2, <3>1 DEF Decisive
    <3>3. \A e \in Decisive(j, f)' : e \in Decisive(j, f)
      <4>1. \A a, b, c \in Nat : a <= b /\ b <= c => a <= c OBVIOUS
      <4>2. QED BY <1>1, <1>2, <1>3, <1>4, <1>6, <2>2, <4>1 DEF Decisive
    <3>4. Decisive(j, f)' = Decisive(j, f) BY <3>2, <3>3
    <3>5. QED BY <2>2, <2>4, <3>4 DEF Due
  <2>5. QED BY <2>3, <2>4
<1>7. QED BY <1>1, <1>3, <1>4, <1>5, <1>6

LEMMA DeliverLatest ==
  ASSUME Latest, NEW post \in net, Deliver(post)
  PROVE  Posts' /\ AtHub' /\ \A i \in Jids \ spoiled' : Held(i)'
<1> USE DEF Latest
<1>1. /\ net' = net \ {post} /\ UNCHANGED <<local, todo, last, spoiled>>
      /\ hub' = [j \in Jids |-> IF \E d \in post : d.jid = j
                                THEN LastWins(hub[j], CHOOSE d \in post : d.jid = j) ELSE hub[j]]
  BY DEF Deliver
<1>2. Posts' BY <1>1 DEF Posts
<1>3. ASSUME NEW j \in Jids, ~\E d \in post : d.jid = j
      PROVE  hub'[j] = hub[j] /\ Crossing(j)' = Crossing(j)
  <2>1. hub'[j] = hub[j] BY <1>1, <1>3
  <2>2. \A d \in Crossing(j) : d \notin post BY <1>3, Under
  <2>3. QED BY <1>1, <2>1, <2>2, Gone
<1>4. ASSUME NEW j \in Jids, \E d \in post : d.jid = j
      PROVE  \E d \in post : /\ d.jid = j /\ hub'[j] = LastWins(hub[j], d)
                             /\ d \in Crossing(j) /\ hub'[j].at > 0
  <2>1. PICK d \in post : d.jid = j /\ hub'[j] = LastWins(hub[j], d) BY <1>1, <1>4
  <2>2. d \in Crossing(j) /\ d.at > 0 BY <2>1 DEF Crossing, Posts
  <2>3. hub[j].at \in Nat /\ d.at \in Nat BY <2>2, AtHubTypes, Under
  <2>4. hub'[j].at > 0
    <3>1. CASE d.at < hub[j].at BY <2>1, <2>3, <3>1 DEF LastWins
    <3>2. CASE ~(d.at < hub[j].at) BY <2>1, <2>2, <2>3, <3>2 DEF LastWins
    <3>3. QED BY <3>1, <3>2
  <2>5. QED BY <2>1, <2>2, <2>4
<1>5. AtHub'
  <2>1. \A j \in Jids : hub'[j] = hub[j] \/ hub'[j].at > 0 BY <1>3, <1>4
  <2>2. \A j \in todo : hub'[j].at > 0 BY <2>1 DEF AtHub, SyncTypes, Sync
  <2>3. QED BY <1>1, <2>1, <2>2 DEF AtHub
<1>6. ASSUME NEW i \in Jids \ spoiled PROVE Held(i)'
  <2>1. Held(i) OBVIOUS
  <2>2. CASE ~\E d \in post : d.jid = i
    <3>1. local'[i] = local[i] /\ last'[i] = last[i] BY <1>1
    <3>2. QED BY <1>3, <2>1, <2>2, <3>1, Aside
  <2>3. CASE \E d \in post : d.jid = i
    <3>1. PICK d \in post : /\ d.jid = i /\ hub'[i] = LastWins(hub[i], d)
                            /\ d \in Crossing(i) /\ hub'[i].at > 0
      BY <1>4, <2>3
    <3>2. Heard(i) /\ Heard(i)' BY <3>1 DEF Heard
    <3>3. Nested(i)'
      <4>1. Crossing(i)' \subseteq Crossing(i) BY <1>1, Gone
      <4>2. QED BY <2>1, <4>1 DEF Held, Nested, FlagsOf
    <3>4. ASSUME NEW f \in Flags, Due(i, f) PROVE Due(i, f)'
      BY <1>1, <2>1, <3>1, <3>4, DueArrives DEF Held
    <3>5. \A f \in Flags \ {"isAdmin"} : Kept(i, f)' BY <1>1, <2>1, <3>2, <3>4 DEF Held, Kept
    <3>6. QED BY <3>2, <3>3, <3>5 DEF Held, Unheard
  <2>4. QED BY <2>2, <2>3
<1>7. QED BY <1>1, <1>2, <1>5, <1>6

LEMMA LoseLatest ==
  ASSUME Latest, NEW post \in net, Lose(post)
  PROVE  Posts' /\ AtHub' /\ \A i \in Jids \ spoiled' : Held(i)'
<1> USE DEF Latest
<1>1. /\ net' = net \ {post} /\ spoiled' = spoiled \cup {d.jid : d \in post}
      /\ UNCHANGED <<hub, local, todo, last>>
  BY DEF Lose
<1>2. Posts' /\ AtHub' BY <1>1 DEF Posts, AtHub
<1>3. ASSUME NEW i \in Jids \ spoiled' PROVE Held(i)'
  <2>1. Held(i) BY <1>1
  <2>2. \A d \in Crossing(i) : d \notin post BY <1>1, Under
  <2>3. Crossing(i)' = Crossing(i) BY <1>1, <2>2, Gone
  <2>4. QED BY <1>1, <2>1, <2>3, Aside
<1>4. QED BY <1>2, <1>3

(* A push of everything, or of a name: whom it does not except has nothing  *)
(* else under way.                                                         *)
LEMMA AloneUnderWay ==
  ASSUME Latest, NEW j \in Jids, Held(j), Crossing(j) = {}, NEW d, d.at \in Nat, clock <= d.at,
         Crossing(j)' = {d}, UNCHANGED <<hub, local, last>>, d.off = {},
         \A f \in Flags \ {"isAdmin"} : last[j][f] /\ f \notin d.on =>
            Heard(j) \/ f = "profile",
         \A f \in d.on : last[j][f]
  PROVE  Held(j)'
<1>1. hub[j].at \in Nat /\ hub[j].at <= clock /\ clock \in Nat /\ last[j] \in FlagSet
  BY AtHubTypes DEF Latest
<1>2. /\ Nested(j)' /\ Heard(j)'
      /\ \A f \in Flags : f \in (IF last'[j][f] THEN d.on ELSE d.off) => Due(j, f)'
      /\ \A f \in Flags : f \notin FlagsOf(d) => (Due(j, f)' <=> hub[j].val[f] = last'[j][f])
  <2>1. hub[j].at <= d.at BY <1>1
  <2>2. Crossing(j)' = Crossing(j) \cup {d} /\ hub'[j] = hub[j] OBVIOUS
  <2>3. \A e \in Crossing(j) : e.at < d.at /\ FlagsOf(e) \subseteq FlagsOf(d) OBVIOUS
  <2>4. Nested(j) BY DEF Held
  <2>5. QED BY <2>1, <2>2, <2>3, <2>4, NewDelta DEF Latest
<1>3. ASSUME NEW f \in Flags \ {"isAdmin"} PROVE Kept(j, f)'
  <2>1. CASE f \in d.on
    <3>1. Due(j, f)' BY <1>2, <2>1
    <3>2. QED BY <3>1 DEF Kept
  <2>2. CASE f \notin d.on
    <3>1. Due(j, f)' <=> hub[j].val[f] = last[j][f] BY <1>2, <2>2 DEF FlagsOf
    <3>2. Due(j, f) => hub[j].val[f] = last[j][f] BY DEF Due, Decisive
    <3>3. CASE f = "profile" BY <3>1, <3>2, <3>3 DEF Held, Kept
    <3>4. CASE f # "profile" /\ Heard(j) BY <3>1, <3>2, <3>4 DEF Held, Kept
    <3>5. CASE f # "profile" /\ ~Heard(j)
      <4>1. last[j][f] = FALSE BY <1>1, <2>2, <3>5 DEF FlagSet
      <4>2. hub[j].val[f] = FALSE BY <1>1, <3>5 DEF Heard, Latest, AtHub, Unset
      <4>3. QED BY <3>1, <3>5, <4>1, <4>2 DEF Kept
    <3>6. QED BY <3>3, <3>4, <3>5
  <2>3. QED BY <2>1, <2>2
<1>4. QED BY <1>2, <1>3 DEF Held, Unheard

LEMMA PushLatest ==
  ASSUME Latest, FullPush
  PROVE  Posts' /\ AtHub' /\ \A i \in Jids \ spoiled' : Held(i)'
<1> USE DEF Latest
<1> DEFINE On(j) == {f \in Flags : local[j][f]}
           Full(j) == Delta(j, On(j), {}, clock')
           Pushed == routed \cup {i \in Jids : "isAdmin" \in Flags /\ local[i]["isAdmin"]}
<1>1. /\ clock' \in {clock, clock + 1} /\ net' = net \cup ({FullDeltas(clock')} \ {{}})
      /\ spoiled' = spoiled \cup {j \in Jids : local[j] # last[j] \/ Crossing(j) # {}}
      /\ UNCHANGED <<local, hub, todo, last>>
  BY DEF FullPush
<1>2. clock \in Nat /\ clock > 0 /\ clock' \in Nat /\ clock' > 0 /\ clock <= clock'
  BY <1>1 DEF SyncTypes, Counted
<1>3. FullDeltas(clock') = {Full(j) : j \in Pushed} BY DEF FullDeltas
<1>4. \A j \in Jids : /\ Full(j).jid = j /\ Full(j).at = clock'
                      /\ Full(j).on = On(j) /\ Full(j).off = {}
  BY DEF Delta
<1>5. Pushed \subseteq Jids BY DEF SyncTypes, Local
<1> HIDE DEF Full, Pushed
<1>6. CASE FullDeltas(clock') = {}
  <2>1. net' = net BY <1>1, <1>6
  <2>2. Posts' /\ AtHub' /\ \A i \in Jids : Crossing(i)' = Crossing(i)
    BY <1>1, <2>1 DEF Posts, AtHub, Crossing
  <2>3. ASSUME NEW i \in Jids \ spoiled' PROVE Held(i)'
    <3>1. Held(i) BY <1>1
    <3>2. QED BY <1>1, <2>2, <3>1, Aside
  <2>4. QED BY <2>2, <2>3
<1>7. CASE FullDeltas(clock') # {}
  <2>1. net' = net \cup {FullDeltas(clock')} BY <1>1, <1>7
  <2>2. Posts'
    <3>1. \A d \in FullDeltas(clock') :
            d.at > 0 /\ d.on \cap d.off = {} /\ \A e \in FullDeltas(clock') : d.jid = e.jid => d = e
      BY <1>2, <1>3, <1>4, <1>5
    <3>2. QED BY <2>1, <3>1, PostsGrow
  <2>3. AtHub' BY <1>1 DEF AtHub
  <2>4. ASSUME NEW i \in Jids \ spoiled' PROVE Held(i)'
    <3>1. Held(i) /\ local[i] = last[i] /\ Crossing(i) = {} BY <1>1
    <3>2. Crossing(i)' = {d \in FullDeltas(clock') : d.jid = i} BY <2>1, <3>1, Posted
    <3>3. CASE i \in Pushed
      <4>1. Crossing(i)' = {Full(i)} BY <1>3, <1>4, <1>5, <3>2, <3>3
      <4>2. \A f \in Flags : f \in Full(i).on <=> last[i][f] BY <1>4, <3>1
      <4>3. Full(i).on \subseteq Flags BY <1>4
      <4>4. /\ \A f \in Flags \ {"isAdmin"} : last[i][f] /\ f \notin Full(i).on =>
                  Heard(i) \/ f = "profile"
            /\ \A f \in Full(i).on : last[i][f]
        BY <4>2, <4>3
      <4>5. Full(i).at \in Nat /\ clock <= Full(i).at /\ Full(i).off = {} BY <1>2, <1>4
      <4>6. QED BY <1>1, <3>1, <4>1, <4>4, <4>5, AloneUnderWay
    <3>4. CASE i \notin Pushed
      <4>1. Crossing(i)' = Crossing(i) BY <1>3, <1>4, <1>5, <3>1, <3>2, <3>4
      <4>2. QED BY <1>1, <3>1, <4>1, Aside
    <3>5. QED BY <3>3, <3>4
  <2>5. QED BY <2>2, <2>3, <2>4
<1>8. QED BY <1>6, <1>7

LEMMA NameLatest ==
  ASSUME Latest, NEW j \in Jids, BackfillName(j)
  PROVE  Posts' /\ AtHub' /\ \A i \in Jids \ spoiled' : Held(i)'
<1> USE DEF Latest
<1> DEFINE d == Delta(j, {}, {}, clock')
<1>1. /\ clock' \in {clock, clock + 1} /\ net' = net \cup {{d}}
      /\ spoiled' = IF Crossing(j) # {} \/ Unreported(j) # {} THEN spoiled \cup {j} ELSE spoiled
      /\ UNCHANGED <<local, hub, todo, last>>
  BY DEF BackfillName
<1>2. clock \in Nat /\ clock > 0 /\ clock' \in Nat /\ clock' > 0 /\ clock <= clock'
  BY <1>1 DEF SyncTypes, Counted
<1>3. d.jid = j /\ d.at = clock' /\ d.on = {} /\ d.off = {} BY DEF Delta
<1> HIDE DEF d
<1>4. Posts'
  <2>1. \A a \in {d} : a.at > 0 /\ a.on \cap a.off = {} /\ \A e \in {d} : a.jid = e.jid => a = e
    BY <1>2, <1>3
  <2>2. QED BY <1>1, <2>1, PostsGrow
<1>5. AtHub' BY <1>1 DEF AtHub
<1>6. ASSUME NEW i \in Jids \ spoiled' PROVE Held(i)'
  <2>1. Held(i) /\ (i = j => Crossing(j) = {} /\ Unreported(j) = {}) BY <1>1
  <2>2. Crossing(i)' = Crossing(i) \cup {a \in {d} : a.jid = i} BY <1>1, Posted
  <2>3. CASE i # j
    <3>1. Crossing(i)' = Crossing(i) BY <1>3, <2>2, <2>3
    <3>2. QED BY <1>1, <2>1, <3>1, Aside
  <2>4. CASE i = j
    <3>1. Crossing(j)' = {d} BY <1>3, <2>1, <2>2, <2>4
    <3>2. ASSUME NEW f \in Flags \ {"isAdmin"}, last[j][f]
          PROVE  Heard(j) \/ f = "profile"
      <4>1. ASSUME ~Heard(j), f # "profile" PROVE FALSE
        <5>1. local[j][f] BY <2>1, <2>4, <3>2, <4>1 DEF Held, Unheard
        <5>2. f \in Unreported(j) BY <4>1, <5>1 DEF Unreported, Heard
        <5>3. QED BY <2>1, <2>4, <5>2
      <4>2. QED BY <4>1
    <3>3. QED BY <1>1, <1>2, <1>3, <2>1, <2>4, <3>1, <3>2, AloneUnderWay
  <2>5. QED BY <2>3, <2>4
<1>7. QED BY <1>4, <1>5, <1>6

(* The pull writes only what the hub knew of, and no profile away.          *)
LEMMA PullLatest ==
  ASSUME Latest, PullGet \/ PullAdmins \/ AdminsSkipped \/ \E j \in Jids : PullContact(j) \/ PullSkips(j)
  PROVE  Posts' /\ AtHub' /\ \A i \in Jids \ spoiled' : Held(i)'
<1> USE DEF Latest
<1>1. UNCHANGED <<hub, net, last, spoiled>>
  BY DEF PullGet, PullContact, PullSkips, PullAdmins, AdminsSkipped
<1>2. Posts' BY <1>1 DEF Posts
<1>3. AtHub'
  <2>1. \A j \in todo' : hub[j].at > 0
    BY DEF AtHub, PullGet, PullContact, PullSkips, PullAdmins, AdminsSkipped
  <2>2. QED BY <1>1, <2>1 DEF AtHub
<1>4. ASSUME NEW i \in Jids, NEW f \in Flags \ {"isAdmin"}
      PROVE  /\ ~Heard(i) => local'[i][f] = local[i][f]
             /\ f = "profile" /\ local[i][f] => local'[i][f]
  <2>1. ASSUME NEW j \in Jids, PullContact(j)
        PROVE  /\ ~Heard(i) => local'[i][f] = local[i][f]
               /\ f = "profile" /\ local[i][f] => local'[i][f]
    <3>1. local' = [local EXCEPT ![j] = Written(j)] /\ hub[j].at > 0 BY <2>1 DEF PullContact, AtHub
    <3>2. CASE i = j
      <4>1. Heard(i) BY <3>1, <3>2 DEF Heard
      <4>2. local'[i] = Written(i) BY <3>1, <3>2 DEF SyncTypes, Local
      <4>3. f = "profile" /\ local[i][f] => Written(i)[f] BY DEF Written
      <4>4. QED BY <4>1, <4>2, <4>3
    <3>3. CASE i # j BY <3>1, <3>3 DEF SyncTypes, Local
    <3>4. QED BY <3>2, <3>3
  <2>2. CASE PullAdmins BY <2>2 DEF PullAdmins
  <2>3. CASE UNCHANGED local BY <2>3
  <2>4. QED BY <2>1, <2>2, <2>3 DEF PullGet, PullSkips, AdminsSkipped
<1>5. ASSUME NEW i \in Jids \ spoiled' PROVE Held(i)'
  <2>1. Held(i) /\ Crossing(i)' = Crossing(i) BY <1>1 DEF Crossing
  <2>2. Nested(i)' /\ (Heard(i)' <=> Heard(i)) BY <1>1, <2>1 DEF Held, Nested, Heard, FlagsOf
  <2>3. \A f \in Flags : Due(i, f)' <=> Due(i, f) BY <1>1, <2>1 DEF Due, Decisive
  <2>4. QED BY <1>1, <1>4, <2>1, <2>2, <2>3 DEF Held, Unheard, Kept
<1>6. QED BY <1>2, <1>3, <1>5

LEMMA LatestStep == Latest /\ [Next]_vars => Latest'
<1> SUFFICES ASSUME Latest, [Next]_vars PROVE Latest'
  OBVIOUS
<1>1. SyncTypes' BY SyncStep DEF Latest
<1>2. Posts' /\ AtHub' /\ \A i \in Jids \ spoiled' : Held(i)'
  <2>1. CASE UNCHANGED vars
    <3>1. UNCHANGED <<hub, net, local, last, todo, spoiled>> BY <2>1 DEF vars
    <3>2. Posts' /\ AtHub' /\ \A i \in Jids : Crossing(i)' = Crossing(i)
      BY <3>1 DEF Latest, Posts, AtHub, Crossing
    <3>3. QED BY <3>1, <3>2, Aside DEF Latest
  <2>2. CASE \E j \in Jids, f \in Flags, v \in BOOLEAN : ChatEdit(j, f, v) \/ HubEdit(j, f, v) \/ HandEdit(j, f, v)
    BY <2>2, ChatLatest, HubLatest, HandLatest
  <2>3. CASE \E post \in net : Deliver(post) \/ Lose(post) BY <2>3, DeliverLatest, LoseLatest
  <2>4. CASE FullPush BY <2>4, PushLatest
  <2>5. CASE PullGet \/ PullAdmins \/ AdminsSkipped \/ \E j \in Jids : PullContact(j) \/ PullSkips(j)
    BY <2>5, PullLatest
  <2>6. CASE \E j \in Jids : BackfillName(j) BY <2>6, NameLatest
  <2>7. QED BY <2>1, <2>2, <2>3, <2>4, <2>5, <2>6 DEF Next
<1>3. QED BY <1>1, <1>2 DEF Latest

LEMMA LatestKept == Latest => LatestSurvives
<1> SUFFICES ASSUME Latest, NEW j \in Jids \ spoiled, NEW f \in Flags \ {"isAdmin"}
             PROVE  \/ Due(j, f)
                    \/ local[j][f] = last[j][f] /\ (Heard(j) => f = "profile")
                    \/ f = "profile" /\ ~last[j][f]
  BY DEF LatestSurvives
<1>1. Held(j) /\ local[j][f] \in BOOLEAN /\ last[j][f] \in BOOLEAN
  BY DEF Latest, SyncTypes, Local, FlagSet
<1>2. QED BY <1>1 DEF Held, Unheard, Kept

(* The latest edit of a contact that is not excepted waits at the hub, in a *)
(* delta that will be taken, or in config.yaml: for any number of contacts, *)
(* edits and pushes, whatever is lost of the others.                       *)
THEOREM LatestEditsSurvive == Spec => []LatestSurvives
<1>1. Init => Latest
  <2> SUFFICES ASSUME Init PROVE Latest
    OBVIOUS
  <2>1. SyncTypes BY StartTypes
  <2>2. net = {} /\ todo = {} /\ \A j \in Jids : hub[j].val = Unset /\ local[j] = last[j]
    BY DEF Init, Unset
  <2>3. \A j \in Jids : Crossing(j) = {} /\ hub[j].at = 0 BY <2>2 DEF Init, Crossing
  <2>4. Posts /\ AtHub BY <2>2 DEF Posts, AtHub
  <2>5. \A j \in Jids : Held(j)
    BY <2>2, <2>3 DEF Held, Nested, Unheard, Heard, Kept
  <2>6. QED BY <2>1, <2>4, <2>5 DEF Latest
<1>2. QED BY <1>1, LatestStep, LatestKept, PTL DEF Spec
=============================================================================
