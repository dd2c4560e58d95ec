------------------------------- MODULE HubSync -------------------------------
(***************************************************************************)
(* The contacts sync between a bot's config.yaml and the hub: hub_sync.py   *)
(* and the deltas the in-chat commands of plugin.py send.                  *)
(*                                                                         *)
(* A command changes config.yaml and posts a delta from a thread of its own *)
(* (so deltas overtake each other); a delta that cannot be posted is        *)
(* dropped.  A cron job pulls: it gets the hub's contacts, then writes them *)
(* into config.yaml one by one, then the list of admins.  Now and then it   *)
(* pushes everything that is set in config.yaml.  The first message of a    *)
(* contact posts his name, and people also edit config.yaml by hand, which  *)
(* posts nothing.                                                          *)
(*                                                                         *)
(* The hub itself is external: by hub_sync's account of it, it keeps one    *)
(* time stamp per contact, and a delta that is older than it is ignored.    *)
(***************************************************************************)
EXTENDS Naturals, FiniteSets

CONSTANTS Jids,       \* the contacts
          Flags,      \* the flags in play, of AllFlags
          ByHand,     \* the flags people also edit by hand
          MayFail,    \* TRUE: posts and writes of a contact may fail
          MaxEdits,   \* bound: the edits people make
          MaxPushes   \* bound: the full pushes

(* The profile is a flag here: a profile of its own, or the default.       *)
AllFlags == {"whitelisted", "noMention", "paused", "isAdmin", "profile"}

(* The flags an in-chat command can change, and those of them it posts.    *)
ChatFlags == Flags \cap {"whitelisted", "noMention", "isAdmin"}
Mirrored == {"whitelisted", "noMention"}

ASSUME SyncAssumption ==
  /\ ByHand \subseteq Flags /\ Flags \subseteq AllFlags
  /\ MayFail \in BOOLEAN
  /\ MaxEdits \in Nat /\ MaxPushes \in Nat /\ IsFiniteSet(Jids)

VARIABLES clock,    \* the time in seconds, from 1 on
          edits,    \* how many edits there were
          pushes,   \* how many full pushes there were
          local,    \* the flags in config.yaml
          routed,   \* the contacts with an entry in profile_routes
          hub,      \* the contacts at the hub: flags and time stamp, 0: unknown
          net,      \* the posts under way, each a set of deltas
          snap,     \* the contacts a pull got
          todo,     \* those it has not written yet
          pulling,  \* a pull is under way
          named,    \* _HUB_NAME_SEEN (bound: that of one process)
          last,     \* history: the latest edit of each flag of each contact
          spoiled   \* history: contacts for which the latest edit need not win

vars == <<clock, edits, pushes, local, routed, hub, net, snap, todo, pulling, named, last, spoiled>>

Unset == [f \in Flags |-> FALSE]

Init ==
  /\ clock = 1 /\ edits = 0 /\ pushes = 0
  /\ local = [j \in Jids |-> Unset] /\ routed = {}
  /\ hub = [j \in Jids |-> [val |-> Unset, at |-> 0]]
  /\ net = {}
  /\ snap = hub /\ todo = {} /\ pulling = FALSE /\ named = {}
  /\ last = [j \in Jids |-> [f \in Flags |-> FALSE]]
  /\ spoiled = {}

(* A delta names a contact and some of its flags.                          *)
Delta(j, on, off, at) == [jid |-> j, on |-> on, off |-> off, at |-> at]

(* The hub's merge of a delta.                                             *)
LastWins(contact, d) ==
  IF d.at < contact.at THEN contact
  ELSE [val |-> [f \in Flags |-> f \in d.on \/ (contact.val[f] /\ f \notin d.off)],
        at  |-> d.at]

-----------------------------------------------------------------------------
(* Deltas of a contact that are under way.                                 *)
Crossing(j) == UNION {{d \in post : d.jid = j} : post \in net}

(* What a pull takes away once the hub knows the contact.                  *)
Unreported(j) == IF hub[j].at > 0 THEN {} ELSE {f \in Flags \ {"profile"} : local[j][f]}

(* Another edit of the contact, in the same second, is on its way.          *)
Ties(j) == \E d \in Crossing(j) : d.at = clock'

(* What is common to the edits of people: the clock, which need not have    *)
(* moved on since the last edit, and history.  A delta of another flag that *)
(* is under way may be outdated by the edit, a flag that the hub was never   *)
(* told of goes when the edit makes the contact known to it, and of two     *)
(* edits in one second the one that arrives last wins, or the one the hub    *)
(* has: it is asked to ignore older posts, and nobody says what it does     *)
(* with one of the same age.                                               *)
Edit(j, f, v, spoils) ==
  /\ edits < MaxEdits
  /\ edits' = edits + 1 /\ clock' \in {clock, clock + 1}
  /\ last' = [last EXCEPT ![j][f] = v]
  /\ spoiled' = IF spoils THEN spoiled \cup {j} ELSE spoiled
  /\ UNCHANGED <<pushes, snap, todo, pulling, named>>

(* Mutants: only what is switched on is posted; the diff is taken the wrong *)
(* way round.                                                              *)
EditDeltaOn(j, f, v, at) ==
  IF f \in Mirrored /\ v THEN {{Delta(j, {f}, {}, at)}} ELSE {}

EditDeltaSwapped(j, f, v, at) ==
  IF f \in Mirrored THEN {{Delta(j, IF v THEN {} ELSE {f}, IF v THEN {f} ELSE {}, at)}} ELSE {}

(* The post of an in-chat edit: nothing for /admin.                        *)
EditDelta(j, f, v, at) ==
  IF f \in Mirrored THEN {{Delta(j, IF v THEN {f} ELSE {}, IF v THEN {} ELSE {f}, at)}} ELSE {}

CrossesOther(j, f) ==
  \/ \E d \in Crossing(j) : ~(d.on \cup d.off \subseteq {f})
  \/ ~(Unreported(j) \subseteq {f})

ChatEdit(j, f, v) ==
  /\ f \in ChatFlags
  /\ Edit(j, f, v, CrossesOther(j, f) \/ Ties(j) \/ hub[j].at = clock')
  /\ local' = [local EXCEPT ![j][f] = v]
  /\ routed' = IF f \in Mirrored THEN routed \cup {j} ELSE routed
  /\ net' = net \cup EditDelta(j, f, v, clock')
  /\ UNCHANGED hub

(* A person toggles a flag in the hub.                                     *)
HubEdit(j, f, v) ==
  /\ Edit(j, f, v, CrossesOther(j, f) \/ Ties(j))
  /\ hub' = [hub EXCEPT ![j] = [val |-> [@.val EXCEPT ![f] = v], at |-> clock']]
  /\ UNCHANGED <<local, routed, net>>

(* config.yaml is edited by hand, and the hub is not told.                 *)
HandEdit(j, f, v) ==
  /\ f \in ByHand
  /\ Edit(j, f, v, hub[j].at > 0 \/ Crossing(j) # {})
  /\ local' = [local EXCEPT ![j][f] = v]
  /\ routed' = IF f # "isAdmin" THEN routed \cup {j} ELSE routed
  /\ UNCHANGED <<hub, net>>

Deliver(post) ==
  /\ net' = net \ {post}
  /\ hub' = [j \in Jids |-> IF \E d \in post : d.jid = j
                            THEN LastWins(hub[j], CHOOSE d \in post : d.jid = j) ELSE hub[j]]
  /\ UNCHANGED <<clock, edits, pushes, local, routed, snap, todo, pulling, named, last, spoiled>>

(* "push failed (ignored)".                                                *)
Lose(post) ==
  /\ MayFail
  /\ net' = net \ {post}
  /\ spoiled' = spoiled \cup {d.jid : d \in post}
  /\ UNCHANGED <<clock, edits, pushes, local, routed, hub, snap, todo, pulling, named, last>>

(* Everything that is set, with the time of the push on every contact that *)
(* is routed or an admin: what is not set is not mentioned.                *)
FullDeltas(now) ==
  {Delta(j, {f \in Flags : local[j][f]}, {}, now) :
     j \in routed \cup {i \in Jids : "isAdmin" \in Flags /\ local[i]["isAdmin"]}}

FullPush ==
  /\ pushes < MaxPushes
  /\ pushes' = pushes + 1
  /\ clock' \in {clock, clock + 1}
  /\ net' = net \cup ({FullDeltas(clock')} \ {{}})
  /\ spoiled' = spoiled \cup {j \in Jids : local[j] # last[j] \/ Crossing(j) # {}}
  /\ UNCHANGED <<edits, local, routed, hub, snap, todo, pulling, named, last>>

(* The first message of a contact: a delta without a flag, with the present *)
(* time.                                                                   *)
BackfillName(j) ==
  /\ j \notin named
  /\ named' = named \cup {j}
  /\ clock' \in {clock, clock + 1}
  /\ net' = net \cup {{Delta(j, {}, {}, clock')}}
  /\ spoiled' = IF Crossing(j) # {} \/ Unreported(j) # {} THEN spoiled \cup {j} ELSE spoiled
  /\ UNCHANGED <<edits, pushes, local, routed, hub, snap, todo, pulling, last>>

-----------------------------------------------------------------------------
(* The pull                                                                *)

PullGet ==
  /\ ~pulling
  /\ pulling' = TRUE
  /\ snap' = hub
  /\ todo' = {j \in Jids : hub[j].at > 0}
  /\ UNCHANGED <<clock, edits, pushes, local, routed, hub, net, named, last, spoiled>>

(* Mutant: only the flags that are set are written.                        *)
WriteOn(j) == [f \in Flags |-> local[j][f] \/ (f # "isAdmin" /\ snap[j].val[f])]

(* The fields of a contact, all of them, as the hub had them; the profile   *)
(* only if the hub has one.                                                *)
Written(j) ==
  [f \in Flags |-> IF f = "isAdmin" THEN local[j][f]
                   ELSE snap[j].val[f] \/ (f = "profile" /\ local[j][f])]

PullContact(j) ==
  /\ j \in todo
  /\ local' = [local EXCEPT ![j] = Written(j)]
  /\ routed' = IF \E f \in Flags \ {"isAdmin"} : snap[j].val[f] THEN routed \cup {j} ELSE routed
  /\ todo' = todo \ {j}
  /\ UNCHANGED <<clock, edits, pushes, hub, net, snap, pulling, named, last, spoiled>>

(* "failed to apply contact (ignored)".                                    *)
PullSkips(j) ==
  /\ MayFail
  /\ j \in todo
  /\ todo' = todo \ {j}
  /\ UNCHANGED <<clock, edits, pushes, local, routed, hub, net, snap, pulling, named, last, spoiled>>

(* whatsapp_admins.extra is replaced by the contacts flagged as admins.    *)
PullAdmins ==
  /\ pulling /\ todo = {}
  /\ pulling' = FALSE
  /\ local' = [j \in Jids |-> [f \in Flags |-> IF f = "isAdmin" THEN snap[j].val[f] ELSE local[j][f]]]
  /\ UNCHANGED <<clock, edits, pushes, routed, hub, net, snap, todo, named, last, spoiled>>

(* "failed to apply admins (ignored)".                                     *)
AdminsSkipped ==
  /\ MayFail
  /\ pulling /\ todo = {}
  /\ pulling' = FALSE
  /\ UNCHANGED <<clock, edits, pushes, local, routed, hub, net, snap, todo, named, last, spoiled>>

Next ==
  \/ \E j \in Jids, f \in Flags, v \in BOOLEAN : ChatEdit(j, f, v) \/ HubEdit(j, f, v) \/ HandEdit(j, f, v)
  \/ \E post \in net : Deliver(post) \/ Lose(post)
  \/ FullPush
  \/ PullGet \/ PullAdmins \/ AdminsSkipped
  \/ \E j \in Jids : PullContact(j) \/ PullSkips(j) \/ BackfillName(j)

(* A post thread runs until it has posted or given up; the timer of the     *)
(* pull keeps firing, and not every write of a pull fails.                  *)
Fairness ==
  /\ WF_vars(\E post \in net : Deliver(post))
  /\ WF_vars(PullGet) /\ SF_vars(PullAdmins)
  /\ \A j \in Jids : SF_vars(PullContact(j))

Spec == Init /\ [][Next]_vars /\ Fairness

-----------------------------------------------------------------------------
(* The types of the variables.                                             *)
FlagSet == [Flags -> BOOLEAN]
Times == 0 .. 1 + MaxEdits + MaxPushes + Cardinality(Jids)
Contacts == [Jids -> [val : FlagSet, at : Times]]

TypeOK ==
  /\ clock \in Times /\ edits \in 0 .. MaxEdits /\ pushes \in 0 .. MaxPushes
  /\ local \in [Jids -> FlagSet] /\ last \in [Jids -> FlagSet]
  /\ hub \in Contacts /\ snap \in Contacts
  /\ \A post \in net : post \subseteq
       [jid : Jids, on : SUBSET Flags, off : SUBSET Flags, at : Times]
  /\ routed \cup todo \cup named \cup spoiled \subseteq Jids /\ pulling \in BOOLEAN

(* The latest edit of a flag is not lost on the way: once the hub has heard *)
(* of a contact, the hub holds it, or a delta under way that the hub will   *)
(* take and that no later one undoes; before, config.yaml holds it, and a   *)
(* profile may be there for good.  Not for what LastWriteWins excepts (lost  *)
(* and crossing posts, two edits in one second, what was set by hand), nor  *)
(* for /admin, which posts nothing.                                        *)
Decisive(j, f) == {d \in Crossing(j) : f \in d.on \cup d.off /\ d.at >= hub[j].at}

Due(j, f) ==
  \/ Decisive(j, f) = {} /\ hub[j].val[f] = last[j][f]
  \/ \E d \in Decisive(j, f) :
       /\ \A e \in Decisive(j, f) : e.at <= d.at
       /\ f \in IF last[j][f] THEN d.on ELSE d.off

Heard(j) == hub[j].at > 0 \/ Crossing(j) # {}

LatestSurvives ==
  \A j \in Jids \ spoiled, f \in Flags \ {"isAdmin"} :
    \/ Due(j, f)
    \/ local[j][f] = last[j][f] /\ (Heard(j) => f = "profile")
    \/ f = "profile" /\ ~last[j][f]

(* Once people stop editing, config.yaml and the hub come to agree on every *)
(* contact the hub has, and stay so, whatever was lost, overtaken, edited   *)
(* by hand or left out of a pull (pull_and_apply).  A pull cannot take a    *)
(* profile away.                                                           *)
Agreement ==
  <>[](\A j \in Jids, f \in Flags :
         hub[j].at > 0 => \/ local[j][f] = hub[j].val[f]
                          \/ f = "profile" /\ ~hub[j].val[f])

(* Last write wins (the conflict model of hub_sync.py): config.yaml comes   *)
(* to hold the latest edits of a contact, in the chat, in the hub, or by    *)
(* hand before the hub knew the contact.  Not if a post of it was lost, or  *)
(* crossed an edit of another flag, a full push or the post of its name;    *)
(* nor if two edits bear the same second and the posts of them cross, or     *)
(* the hub, which may refuse the second, has the first; nor if the hub came *)
(* to know the contact by another post than that of what was set by hand.   *)
LastWriteWins ==
  \A j \in Jids :
    <>[](\/ j \in spoiled
         \/ \A f \in Flags : local[j][f] = last[j][f] \/ (f = "profile" /\ ~last[j][f]))

(* The deltas are posted "after every local state.yaml write" (hub_sync.py): *)
(* with nothing lost, the latest edit comes to be the one in config.yaml.   *)
Reconciled == <>[](local = last)
=============================================================================
