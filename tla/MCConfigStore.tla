---------------------------- MODULE MCConfigStore ----------------------------
(* Instances of ConfigStore for TLC: one chat, one admin, four calls.      *)
EXTENDS ConfigStore, TLC

MCChats == {"dm"}
MCValues == {"unset", "default", "false", "true", "wa-"}
MCJids == {"amy"}
MCSkills == {}

(* Calls on two fields of one entry, on the admins, and one that takes the  *)
(* entry away.                                                             *)
MCRequests == {SetField("dm", "paused", "true", FALSE), SetField("dm", "reply", "true", TRUE),
               [op |-> "set_admins", passed |-> [extra |-> {"amy"}]],
               [op |-> "remove_route", chat |-> "dm"]}

MCInitDoc == [EmptyDoc EXCEPT !.routed = {"dm"}, !.entry = [c \in MCChats |-> NewRoute]]

OneProcess == [t \in {"t1", "t2", "r"} |-> "gateway"]
TwoProcesses == [t \in {"t1", "t2", "r"} |-> IF t = "t2" THEN "cron" ELSE "gateway"]
=============================================================================
