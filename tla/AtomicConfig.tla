---------------------------- MODULE AtomicConfig ----------------------------
(***************************************************************************)
(* What config_routes.py promises its callers ("Atomic + comment-          *)
(* preserving.  Thread-safe"): the calls take effect on the document one    *)
(* at a time, each of them applied to what all the earlier ones left.      *)
(***************************************************************************)
EXTENDS ConfigDoc

CONSTANTS Requests,  \* the calls the callers make
          InitDoc    \* the document of the first start

VARIABLE config

Init == config = InitDoc

Commit(c) == config' = Apply(config, c)

Next == \E c \in Requests : Commit(c)

Spec == Init /\ [][Next]_config
=============================================================================
