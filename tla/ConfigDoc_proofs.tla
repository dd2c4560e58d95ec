-------------------------- MODULE ConfigDoc_proofs --------------------------
(***************************************************************************)
(* What the writers of config.yaml make of a document, for any chats,       *)
(* values, users and skills.                                               *)
(***************************************************************************)
EXTENDS ConfigDoc, TLAPS

(* A writer makes a document of a document.                                *)
LEMMA MergeType ==
  ASSUME NEW route \in Route, NEW passed \in RouteArgs
  PROVE  Merge(route, passed) \in Route
BY DEF Merge, Route, RouteArgs

LEMMA NewRouteType == NewRoute \in Route /\ Blank \in Route
BY ValuesAssumption DEF NewRoute, Blank, Route, RouteFields

LEMMA SetRouteFieldsType ==
  ASSUME NEW d \in Docs, NEW c \in Chats, NEW create \in BOOLEAN, NEW passed \in RouteArgs
  PROVE  SetRouteFields(d, c, passed, create) \in Docs
<1> DEFINE old == IF c \in d.routed THEN d.entry[c] ELSE NewRoute
           entry == [e \in Chats |-> IF e # c THEN d.entry[e] ELSE Merge(old, passed)]
<1>1. d.entry \in [Chats -> Route]
  BY DEF Docs
<1>2. Merge(old, passed) \in Route
  BY <1>1, NewRouteType, MergeType
<1>3. entry \in [Chats -> Route]
  BY <1>1, <1>2
<1>4. SetRouteFields(d, c, passed, create) \in {d, WithRoutes(d, d.routed \cup {c}, entry)}
  BY DEF SetRouteFields
<1> HIDE DEF entry
<1> QED
  BY <1>3, <1>4 DEF WithRoutes, Docs

LEMMA RemoveRouteType ==
  ASSUME NEW d \in Docs, NEW c \in Chats
  PROVE  RemoveRoute(d, c) \in Docs
BY NewRouteType DEF RemoveRoute, WithRoutes, Docs

LEMMA SetAdminsType ==
  ASSUME NEW d \in Docs, NEW passed \in AdminArgs
  PROVE  SetAdmins(d, passed) \in Docs
<1>1. "root" \in DOMAIN passed => passed.root \in Jids \cup {NoRoot}
  BY DEF AdminArgs
<1>2. "extra" \in DOMAIN passed => passed.extra \in SUBSET Jids
  BY DEF AdminArgs
<1> QED
  BY <1>1, <1>2 DEF SetAdmins, Docs

LEMMA ApplyType ==
  ASSUME NEW d \in Docs, NEW c \in Calls
  PROVE  Apply(d, c) \in Docs
<1>1. CASE c \in [op : {"set_route_fields"}, chat : Chats, passed : RouteArgs, create : BOOLEAN]
  BY <1>1, SetRouteFieldsType DEF Apply
<1>2. CASE c \in [op : {"remove_route"}, chat : Chats]
  BY <1>2, RemoveRouteType DEF Apply
<1>3. CASE c \in [op : {"set_skills_disabled"}, names : SUBSET Skills]
  BY <1>3 DEF Apply, SetSkillsDisabled, Docs
<1>4. CASE c \in [op : {"set_admins"}, passed : AdminArgs]
  BY <1>4, SetAdminsType DEF Apply
<1> QED
  BY <1>1, <1>2, <1>3, <1>4 DEF Calls

LEMMA EmptyDocType == EmptyDoc \in Docs
BY NewRouteType DEF EmptyDoc, Docs
-----------------------------------------------------------------------------
(* What calls do to each other                                             *)

RouteCalls == {call \in Calls : call.op \in {"set_route_fields", "remove_route"}}

LEMMA RouteCallCases ==
  ASSUME NEW call \in RouteCalls
  PROVE  /\ call.chat \in Chats
         /\ \/ call.op = "remove_route"
            \/ call.op = "set_route_fields" /\ call.passed \in RouteArgs /\ call.create \in BOOLEAN
BY DEF RouteCalls, Calls

LEMMA OtherCallCases ==
  ASSUME NEW call \in Calls \ RouteCalls
  PROVE  \/ call.op = "set_skills_disabled"
         \/ call.op = "set_admins" /\ call.passed \in AdminArgs
BY DEF RouteCalls, Calls

(* Two documents are equal if their parts are.                             *)
LEMMA SameDoc ==
  ASSUME NEW d \in Docs, NEW e \in Docs, d.routed = e.routed,
         \A c \in Chats : d.entry[c] = e.entry[c],
         d.root = e.root, d.extra = e.extra, d.skills = e.skills
  PROVE  d = e
<1>1. d.entry \in [Chats -> Route] /\ e.entry \in [Chats -> Route] BY DEF Docs
<1>2. d.entry = e.entry BY <1>1
<1>3. QED BY <1>2 DEF Docs

(* A call on a chat changes that chat's entry and nothing else.            *)
LEMMA RouteCallFrame ==
  ASSUME NEW d \in Docs, NEW call \in RouteCalls
  PROVE  /\ Apply(d, call).root = d.root
         /\ Apply(d, call).extra = d.extra
         /\ Apply(d, call).skills = d.skills
         /\ Apply(d, call).routed \in {d.routed, d.routed \cup {call.chat}, d.routed \ {call.chat}}
         /\ \A e \in Chats \ {call.chat} : Apply(d, call).entry[e] = d.entry[e]
<1>1. CASE call.op = "remove_route" BY <1>1 DEF Apply, RemoveRoute, WithRoutes
<1>2. CASE call.op = "set_route_fields"
  BY <1>2 DEF Apply, SetRouteFields, WithRoutes
<1>3. QED BY <1>1, <1>2, RouteCallCases

(* What the call makes of its own chat depends on that chat's entry alone.  *)
LEMMA RouteCallLocal ==
  ASSUME NEW d \in Docs, NEW e \in Docs, NEW call \in RouteCalls,
         call.chat \in d.routed <=> call.chat \in e.routed,
         d.entry[call.chat] = e.entry[call.chat]
  PROVE  /\ call.chat \in Apply(d, call).routed <=> call.chat \in Apply(e, call).routed
         /\ Apply(d, call).entry[call.chat] = Apply(e, call).entry[call.chat]
<1>0. call.chat \in Chats BY RouteCallCases
<1>1. CASE call.op = "remove_route" BY <1>0, <1>1 DEF Apply, RemoveRoute, WithRoutes
<1>2. CASE call.op = "set_route_fields"
  <2>1. ASSUME NEW f \in Docs
        PROVE  Apply(f, call) = SetRouteFields(f, call.chat, call.passed, call.create)
    BY <1>2 DEF Apply
  <2>2. CASE call.chat \notin d.routed /\ ~call.create
    BY <2>1, <2>2 DEF SetRouteFields
  <2>3. CASE ~(call.chat \notin d.routed /\ ~call.create)
    <3>1. ASSUME NEW f \in Docs, call.chat \in d.routed <=> call.chat \in f.routed
          PROVE  /\ call.chat \in Apply(f, call).routed
                 /\ Apply(f, call).entry[call.chat]
                      = Merge(IF call.chat \in f.routed THEN f.entry[call.chat] ELSE NewRoute, call.passed)
      BY <1>0, <2>1, <2>3, <3>1 DEF SetRouteFields, WithRoutes
    <3>2. QED BY <3>1
  <2>4. QED BY <2>2, <2>3
<1>3. QED BY <1>1, <1>2, RouteCallCases

(* The other calls leave the routes alone.                                 *)
LEMMA OtherCallFrame ==
  ASSUME NEW d \in Docs, NEW call \in Calls \ RouteCalls
  PROVE  Apply(d, call).routed = d.routed /\ Apply(d, call).entry = d.entry
BY OtherCallCases DEF Apply, SetSkillsDisabled, SetAdmins

(* The calls that touch different things: different chats, or different     *)
(* sections of the file.                                                   *)
Apart(a, b) ==
  IF a \in RouteCalls /\ b \in RouteCalls THEN a.chat # b.chat
  ELSE a \in RouteCalls \/ b \in RouteCalls \/ a.op # b.op

LEMMA RoutesCommute ==
  ASSUME NEW d \in Docs, NEW a \in RouteCalls, NEW b \in RouteCalls, a.chat # b.chat
  PROVE  Apply(Apply(d, a), b) = Apply(Apply(d, b), a)
<1> DEFINE da == Apply(d, a)
           db == Apply(d, b)
           ab == Apply(da, b)
           ba == Apply(db, a)
<1>1. a \in Calls /\ b \in Calls /\ a.chat \in Chats /\ b.chat \in Chats
  BY RouteCallCases DEF RouteCalls
<1>2. da \in Docs /\ db \in Docs /\ ab \in Docs /\ ba \in Docs BY <1>1, ApplyType
<1>3. /\ da.root = d.root /\ da.extra = d.extra /\ da.skills = d.skills
      /\ da.routed \in {d.routed, d.routed \cup {a.chat}, d.routed \ {a.chat}}
      /\ \A e \in Chats \ {a.chat} : da.entry[e] = d.entry[e]
  BY RouteCallFrame
<1>4. /\ db.root = d.root /\ db.extra = d.extra /\ db.skills = d.skills
      /\ db.routed \in {d.routed, d.routed \cup {b.chat}, d.routed \ {b.chat}}
      /\ \A e \in Chats \ {b.chat} : db.entry[e] = d.entry[e]
  BY RouteCallFrame
<1>5. /\ ab.root = da.root /\ ab.extra = da.extra /\ ab.skills = da.skills
      /\ ab.routed \in {da.routed, da.routed \cup {b.chat}, da.routed \ {b.chat}}
      /\ \A e \in Chats \ {b.chat} : ab.entry[e] = da.entry[e]
  BY <1>2, RouteCallFrame
<1>6. /\ ba.root = db.root /\ ba.extra = db.extra /\ ba.skills = db.skills
      /\ ba.routed \in {db.routed, db.routed \cup {a.chat}, db.routed \ {a.chat}}
      /\ \A e \in Chats \ {a.chat} : ba.entry[e] = db.entry[e]
  BY <1>2, RouteCallFrame
<1>7. (b.chat \in ab.routed <=> b.chat \in db.routed) /\ ab.entry[b.chat] = db.entry[b.chat]
  <2>1. (b.chat \in da.routed <=> b.chat \in d.routed) /\ da.entry[b.chat] = d.entry[b.chat]
    BY <1>1, <1>3
  <2>2. QED BY <1>2, <2>1, RouteCallLocal
<1>8. (a.chat \in ba.routed <=> a.chat \in da.routed) /\ ba.entry[a.chat] = da.entry[a.chat]
  <2>1. (a.chat \in db.routed <=> a.chat \in d.routed) /\ db.entry[a.chat] = d.entry[a.chat]
    BY <1>1, <1>4
  <2>2. QED BY <1>2, <2>1, RouteCallLocal
<1> HIDE DEF da, db, ab, ba
<1>9. ASSUME NEW e \in Chats PROVE (e \in ab.routed <=> e \in ba.routed) /\ ab.entry[e] = ba.entry[e]
  <2>1. CASE e = a.chat BY <1>1, <1>5, <1>8, <2>1
  <2>2. CASE e = b.chat BY <1>1, <1>6, <1>7, <2>2
  <2>3. CASE e \notin {a.chat, b.chat} BY <1>3, <1>4, <1>5, <1>6, <2>3
  <2>4. QED BY <2>1, <2>2, <2>3
<1>10. ab.routed = ba.routed
  <2>1. ab.routed \subseteq Chats /\ ba.routed \subseteq Chats BY <1>2 DEF Docs
  <2>2. QED BY <1>9, <2>1
<1>11. ab = ba BY <1>2, <1>3, <1>4, <1>5, <1>6, <1>9, <1>10, SameDoc
<1>12. QED BY <1>11 DEF da, db, ab, ba

(* What they make of their section depends on that section alone.          *)
LEMMA OtherCallLocal ==
  ASSUME NEW d \in Docs, NEW e \in Docs, NEW call \in Calls \ RouteCalls,
         d.root = e.root, d.extra = e.extra, d.skills = e.skills
  PROVE  /\ Apply(d, call).root = Apply(e, call).root
         /\ Apply(d, call).extra = Apply(e, call).extra
         /\ Apply(d, call).skills = Apply(e, call).skills
BY OtherCallCases DEF Apply, SetSkillsDisabled, SetAdmins

LEMMA SectionsCommute ==
  ASSUME NEW d \in Docs, NEW a \in RouteCalls, NEW b \in Calls \ RouteCalls
  PROVE  Apply(Apply(d, a), b) = Apply(Apply(d, b), a)
<1> DEFINE da == Apply(d, a)
           db == Apply(d, b)
           ab == Apply(da, b)
           ba == Apply(db, a)
<1>1. a \in Calls /\ b \in Calls /\ a.chat \in Chats BY RouteCallCases DEF RouteCalls
<1>2. da \in Docs /\ db \in Docs /\ ab \in Docs /\ ba \in Docs BY <1>1, ApplyType
<1>3. da.root = d.root /\ da.extra = d.extra /\ da.skills = d.skills BY RouteCallFrame
<1>4. ab.root = db.root /\ ab.extra = db.extra /\ ab.skills = db.skills
  BY <1>2, <1>3, OtherCallLocal
<1>5. ba.root = db.root /\ ba.extra = db.extra /\ ba.skills = db.skills
  BY <1>2, RouteCallFrame
<1>6. db.routed = d.routed /\ db.entry = d.entry /\ ab.routed = da.routed /\ ab.entry = da.entry
  BY <1>2, OtherCallFrame
<1>7. (a.chat \in ba.routed <=> a.chat \in da.routed) /\ ba.entry[a.chat] = da.entry[a.chat]
  BY <1>2, <1>6, RouteCallLocal
<1>8. /\ ba.routed \in {d.routed, d.routed \cup {a.chat}, d.routed \ {a.chat}}
      /\ \A e \in Chats \ {a.chat} : ba.entry[e] = d.entry[e]
  BY <1>2, <1>6, RouteCallFrame
<1>9. /\ da.routed \in {d.routed, d.routed \cup {a.chat}, d.routed \ {a.chat}}
      /\ \A e \in Chats \ {a.chat} : da.entry[e] = d.entry[e]
  BY RouteCallFrame
<1> HIDE DEF da, db, ab, ba
<1>10. ab.routed = ba.routed BY <1>6, <1>7, <1>8, <1>9
<1>11. ASSUME NEW e \in Chats PROVE ab.entry[e] = ba.entry[e]
  <2>1. CASE e = a.chat BY <1>6, <1>7, <2>1
  <2>2. CASE e # a.chat BY <1>6, <1>8, <1>9, <2>2
  <2>3. QED BY <2>1, <2>2
<1>12. ab = ba BY <1>2, <1>4, <1>5, <1>10, <1>11, SameDoc
<1>13. QED BY <1>12 DEF da, db, ab, ba

(* Writers that touch different things may take their turns in any order:   *)
(* the whole file is loaded and dumped, but a call depends on its own part  *)
(* of it and leaves the rest as it was (set_route_fields, remove_route,     *)
(* set_skills_disabled, set_admins).                                       *)
THEOREM WritersCommute ==
  ASSUME NEW d \in Docs, NEW a \in Calls, NEW b \in Calls, Apart(a, b)
  PROVE  Apply(Apply(d, a), b) = Apply(Apply(d, b), a)
<1>1. CASE a \in RouteCalls /\ b \in RouteCalls BY <1>1, RoutesCommute DEF Apart
<1>2. CASE a \in RouteCalls /\ b \notin RouteCalls BY <1>2, SectionsCommute
<1>3. CASE a \notin RouteCalls /\ b \in RouteCalls BY <1>3, SectionsCommute
<1>4. CASE a \notin RouteCalls /\ b \notin RouteCalls
  <2>1. a.op # b.op BY <1>4 DEF Apart
  <2>2. ASSUME NEW s \in Calls \ RouteCalls, NEW t \in Calls \ RouteCalls,
               s.op = "set_skills_disabled", t.op = "set_admins"
        PROVE  Apply(Apply(d, s), t) = Apply(Apply(d, t), s)
    BY <2>2 DEF Apply, SetSkillsDisabled, SetAdmins
  <2>3. QED BY <1>4, <2>1, <2>2, OtherCallCases
<1>5. QED BY <1>1, <1>2, <1>3, <1>4

LEMMA SetLeaves ==
  ASSUME NEW d \in Docs, NEW c \in Chats, NEW passed, NEW create \in BOOLEAN,
         c \in d.routed \/ create
  PROVE  /\ SetRouteFields(d, c, passed, create).routed = d.routed \cup {c}
         /\ SetRouteFields(d, c, passed, create).entry[c]
              = Merge(IF c \in d.routed THEN d.entry[c] ELSE NewRoute, passed)
BY DEF SetRouteFields, WithRoutes

(* A call that is made again changes nothing, so a pull may apply the same  *)
(* snapshot twice, and the writers' "nothing changed" test is sound         *)
(* (set_route_fields, hub_sync.pull_and_apply).                            *)
THEOREM RepeatsChangeNothing ==
  ASSUME NEW d \in Docs, NEW call \in Calls
  PROVE  Apply(Apply(d, call), call) = Apply(d, call)
<1> DEFINE e == Apply(d, call)
<1>1. e \in Docs /\ Apply(e, call) \in Docs BY ApplyType
<1>2. CASE call \in RouteCalls
  <2>1. call.chat \in Chats BY <1>2, RouteCallCases
  <2>2. (call.chat \in Apply(e, call).routed <=> call.chat \in e.routed)
        /\ Apply(e, call).entry[call.chat] = e.entry[call.chat]
    <3>1. CASE call.op = "remove_route" BY <2>1, <3>1 DEF Apply, RemoveRoute, WithRoutes
    <3>2. CASE call.op = "set_route_fields"
      <4>1. \A f : Apply(f, call) = SetRouteFields(f, call.chat, call.passed, call.create)
        BY <3>2 DEF Apply
      <4>2. CASE call.chat \notin d.routed /\ ~call.create
        BY <4>1, <4>2 DEF SetRouteFields
      <4>3. CASE ~(call.chat \notin d.routed /\ ~call.create)
        <5> DEFINE old == IF call.chat \in d.routed THEN d.entry[call.chat] ELSE NewRoute
        <5>1. call.chat \in e.routed /\ e.entry[call.chat] = Merge(old, call.passed)
          BY <1>2, <2>1, <3>2, <4>1, <4>3, SetLeaves, RouteCallCases
        <5>2. call.chat \in Apply(e, call).routed
              /\ Apply(e, call).entry[call.chat] = Merge(e.entry[call.chat], call.passed)
          BY <2>1, <4>1, <5>1 DEF SetRouteFields, WithRoutes
        <5>3. \A r : Merge(Merge(r, call.passed), call.passed) = Merge(r, call.passed) BY DEF Merge
        <5> HIDE DEF e, old
        <5>4. QED BY <5>1, <5>2, <5>3
      <4>4. QED BY <4>2, <4>3
    <3>3. QED BY <1>2, <3>1, <3>2, RouteCallCases
  <2>3. /\ Apply(e, call).root = e.root /\ Apply(e, call).extra = e.extra
        /\ Apply(e, call).skills = e.skills
        /\ Apply(e, call).routed \in {e.routed, e.routed \cup {call.chat}, e.routed \ {call.chat}}
        /\ \A c \in Chats \ {call.chat} : Apply(e, call).entry[c] = e.entry[c]
    BY <1>1, <1>2, RouteCallFrame
  <2> HIDE DEF e
  <2>4. Apply(e, call).routed = e.routed BY <2>2, <2>3
  <2>5. Apply(e, call) = e BY <1>1, <2>2, <2>3, <2>4, SameDoc
  <2>6. QED BY <2>5 DEF e
<1>3. CASE call \notin RouteCalls
  BY <1>3, OtherCallCases DEF Apply, SetSkillsDisabled, SetAdmins
<1>4. QED BY <1>2, <1>3
=============================================================================
