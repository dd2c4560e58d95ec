------------------------------ MODULE ConfigDoc ------------------------------
(***************************************************************************)
(* The part of config.yaml the WhatsApp listener owns, and what one call   *)
(* of a writer of config_routes.py makes of it.  A document is a value:    *)
(* the writers load it, change the loaded copy and dump it back, so each   *)
(* of them is an operator from a document and its arguments to a document. *)
(*                                                                         *)
(* Names, reasons, profiles and flags are members of Values; what matters  *)
(* is which of them are equal.  A field of a route that the file does not  *)
(* hold is the value "unset".  The order of whatsapp_admins.extra and of   *)
(* the route list is not kept: no reader depends on it.                    *)
(***************************************************************************)
EXTENDS Naturals

CONSTANTS Chats,   \* chat ids a route entry may have
          Values,  \* the values of a route's fields
          Jids,    \* the users an admin list may name
          Skills   \* names of skills that can be disabled

ASSUME ValuesAssumption ==
  {"unset", "default", "false", "true", "wa-"} \subseteq Values

RouteFields == {"name", "profile", "reply", "no_mention", "paused", "pause_reason"}

Route == [RouteFields -> Values]

Blank == [f \in RouteFields |-> "unset"]

NoRoot == ""

(* A document: the routed chats, the entry of each (Blank if it has none),  *)
(* the root admin, the extra admins and the disabled skills.               *)
Docs == [routed : SUBSET Chats,
         entry  : [Chats -> Route],
         root   : Jids \cup {NoRoot},
         extra  : SUBSET Jids,
         skills : SUBSET Skills]

(* What the readers make of a file that they cannot parse.                 *)
EmptyDoc == [routed |-> {}, entry |-> [c \in Chats |-> Blank],
             root |-> NoRoot, extra |-> {}, skills |-> {}]

FieldOf(doc, c, f) == doc.entry[c][f]

WithRoutes(doc, routed, entry) ==
  [routed |-> routed, entry |-> entry,
   root |-> doc.root, extra |-> doc.extra, skills |-> doc.skills]

(* The entry set_route_fields appends for a chat that has none.            *)
NewRoute == [f \in RouteFields |-> IF f = "name" THEN "wa-"
                                  ELSE IF f = "profile" THEN "default" ELSE "unset"]

(* The arguments of set_route_fields; those not passed are "None".         *)
RouteArgs == [RouteFields -> Values \cup {"None"}]

Merge(route, passed) ==
  [f \in RouteFields |-> IF passed[f] = "None" THEN route[f] ELSE passed[f]]

SetRouteFields(doc, c, passed, create) ==
  IF c \notin doc.routed /\ ~create
  THEN doc
  ELSE WithRoutes(doc, doc.routed \cup {c},
         [d \in Chats |->
            IF d # c THEN doc.entry[d]
            ELSE Merge(IF c \in doc.routed THEN doc.entry[c] ELSE NewRoute, passed)])

RemoveRoute(doc, c) ==
  WithRoutes(doc, doc.routed \ {c}, [d \in Chats |-> IF d = c THEN Blank ELSE doc.entry[d]])

SetSkillsDisabled(doc, names) ==
  [routed |-> doc.routed, entry |-> doc.entry,
   root |-> doc.root, extra |-> doc.extra, skills |-> names]

(* The arguments of set_admins: a root, extra admins, or both.             *)
AdminArgs == [root : Jids \cup {NoRoot}] \cup [extra : SUBSET Jids]
               \cup [root : Jids \cup {NoRoot}, extra : SUBSET Jids]

SetAdmins(doc, passed) ==
  [routed |-> doc.routed, entry |-> doc.entry,
   root   |-> IF "root"  \in DOMAIN passed THEN passed.root  ELSE doc.root,
   extra  |-> IF "extra" \in DOMAIN passed THEN passed.extra ELSE doc.extra,
   skills |-> doc.skills]

-----------------------------------------------------------------------------
(* One call of a writer.                                                   *)
Calls ==
  [op : {"set_route_fields"}, chat : Chats, passed : RouteArgs, create : BOOLEAN]
  \cup [op : {"remove_route"}, chat : Chats]
  \cup [op : {"set_skills_disabled"}, names : SUBSET Skills]
  \cup [op : {"set_admins"}, passed : AdminArgs]

(* The call that writes one field.                                         *)
SetField(c, f, v, create) ==
  [op |-> "set_route_fields", chat |-> c, create |-> create,
   passed |-> [g \in RouteFields |-> IF g = f THEN v ELSE "None"]]

(* The document a call leaves in its loaded copy.  A writer that finds      *)
(* nothing to change returns False and writes nothing: that is the case     *)
(* Apply(doc, call) = doc.                                                  *)
Apply(doc, call) ==
  IF call.op = "set_route_fields"
  THEN SetRouteFields(doc, call.chat, call.passed, call.create)
  ELSE IF call.op = "remove_route" THEN RemoveRoute(doc, call.chat)
  ELSE IF call.op = "set_skills_disabled" THEN SetSkillsDisabled(doc, call.names)
  ELSE SetAdmins(doc, call.passed)
=============================================================================
