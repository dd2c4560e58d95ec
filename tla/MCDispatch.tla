----------------------------- MODULE MCDispatch -----------------------------
(* Instances of Dispatch for TLC: a group, a peer whose DM has a phone and  *)
(* a LID form, and the root admin.                                         *)
EXTENDS Dispatch, TLC

MCJids == {"amy", "amy@lid", "boss", "zoe"}
MCChats == {"team"} \cup MCJids
MCGroups == {"team"}
MCValues == {"unset", "default", "false", "true", "wa-", "cgpt", "personal"}
MCPhone == [c \in MCChats |-> IF c = "amy@lid" THEN "amy" ELSE c]
MCLid == [c \in MCChats |-> IF c = "amy" THEN "amy@lid" ELSE c]

Set(c, f, v) == SetField(c, f, v, TRUE)

(* A document with a default entry for the group and for the peer.         *)
Doc(team, amy) ==
  [routed |-> {"team", "amy"},
   entry |-> [c \in MCChats |-> CASE c = "team" -> team @@ NewRoute
                                  [] c = "amy" -> amy @@ NewRoute
                                  [] OTHER -> Blank],
   root |-> "boss", extra |-> {}, skills |-> {}]

SetExtra(S) == [op |-> "set_admins", passed |-> [extra |-> S]]

Msg(chat, user, cmd, act, target, mention) ==
  [chat |-> chat, user |-> user, cmd |-> cmd, act |-> act, target |-> target,
   mention |-> mention]
Text(chat, user, mention) == Msg(chat, user, "text", "run", chat, mention)

(* Decisions: the flags of the group and the pause of the peer change; the  *)
(* peer's phone form is whitelisted, so it may mention the bot in the group. *)
Off == [f \in {"reply", "paused", "no_mention"} |-> "false"]
PlainDoc == Doc(Off, [reply |-> "true", paused |-> "false"])
FlagEdits ==
  {Set("team", f, v) : f \in {"reply", "paused", "no_mention"}, v \in {"true", "false"}}
DecisionMessages ==
  {Text("team", "amy@lid", m) : m \in {"bot", "both"}}
  \cup {Text("team", "boss", m) : m \in {"none", "bot"}}
  \cup {Text("amy@lid", "amy@lid", "none")}
  \cup {Msg("team", u, "keyword-research", "run", "team", "none") : u \in {"boss", "zoe"}}

(* Commands: from an admin and from somebody who may become one.           *)
AdminEdits == {SetExtra({"amy"})}
CommandMessages ==
  {Msg(c, "amy@lid", "whitelist", "add", "team", "none") : c \in {"team", "amy@lid"}}
  \cup {Msg("team", "amy@lid", "no-mention", a, "team", "none") : a \in {"remove", "usage"}}
  \cup {Msg("amy@lid", "amy@lid", "admin", "remove", t, "none") : t \in {"amy", "boss"}}
  \cup {Msg("team", "amy@lid", "admin", "add", "zoe", "none")}
  \cup {Msg("team", "amy@lid", cmd, "usage", "team", "none") :
          cmd \in {"wajid", "login", "keyword-research", "pause"}}

HookMessages == DecisionMessages \cup CommandMessages
HookEdits == FlagEdits \cup AdminEdits

(* Profiles: the group and the peer are moved between profiles.            *)
ReplyingDoc == Doc([reply |-> "true"], [reply |-> "true"])
ProfileEdits ==
  {Set(c, "profile", p) : c \in {"team", "amy"}, p \in {"default", "cgpt", "personal"}}
ProfileMessages ==
  {Text("team", "boss", m) : m \in {"none", "bot"}}
  \cup {Text("amy", "amy", "none"), Text("amy@lid", "amy@lid", "none")}

(* One message each, for what the documentation says.                      *)
ResearchMessages == {Msg("team", "boss", "keyword-research", "run", "team", "none")}
PersonalDoc == Doc([reply |-> "true", profile |-> "personal"], <<>>)
NoEdits == {}
=============================================================================
