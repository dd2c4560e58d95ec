------------------------------ MODULE AgentTurns ------------------------------
(***************************************************************************)
(* The turns of the agent together with the death of the gateway they run   *)
(* in: a turn lives in the gateway's memory, so a kill drops it where it is *)
(* and the only trace of it is what the scan of the next start reports.     *)
(*                                                                         *)
(* The plugin registers its hooks and scans before the gateway takes        *)
(* messages, so turns and scans alternate; a gateway that stops in good     *)
(* order does so between two turns.                                        *)
(***************************************************************************)
EXTENDS ErrorScan, Handoff

CONSTANT AskDeaths  \* bound: no turn begins after more deaths than that

ASSUME TurnsAssumption == AskDeaths \in Nat

VARIABLES dropped  \* history: the deaths that dropped a turn

everything == <<scanVars, turnVars, dropped>>

Idle == stage \in {"idle", "over"}

Init == ScanInit /\ TurnInit /\ dropped = {}

Drop(kind, spread) ==
  /\ Die(kind, spread)
  /\ dropped' = IF Idle THEN dropped ELSE dropped \cup {deaths'}
  /\ Forget

StopIdle == Stop /\ Idle /\ Forget /\ dropped' = dropped

Turn ==
  /\ gateway = "running"
  /\ deaths > AskDeaths => ~Idle
  /\ Agent
  /\ UNCHANGED <<scanVars, dropped>>

Next ==
  \/ (Scan \/ Tick \/ \E l \in hidden : Surface(l)) /\ UNCHANGED <<turnVars, dropped>>
  \/ Turn \/ StopIdle
  \/ \E kind \in {"oom", "crash"}, spread \in 0 .. Spread : Drop(kind, spread)

(* systemd starts the gateway again, a scan takes its steps, and a turn its *)
(* own: every call in it has a time-out.                                   *)
Fairness ==
  /\ WF_everything(Scan /\ UNCHANGED <<turnVars, dropped>>)
  /\ WF_everything(Turn /\ ~Idle /\ latest' = latest)

Spec == Init /\ [][Next]_everything /\ Fairness

-----------------------------------------------------------------------------
(* The types of the variables.                                             *)
TypeOK == ScanTypeOK /\ TurnTypeOK /\ dropped \subseteq 1 .. deaths

(* The hub has a row of the death, at least one it shares with a death of   *)
(* the same ten seconds, or a scan passed over it (unheard).               *)
Heard(n) ==
  \E l \in journal :
     l.death = n /\ (l \in unheard \/ \E r \in rows : BucketOf(r.line) = BucketOf(l))

(* The window of the next scan that can read the watermark, if there is     *)
(* one, or of one without, holds a line of the death.                      *)
Awaited(n) ==
  \E l \in journal :
     l.death = n /\ l.at > (IF mark = Never THEN clock - Lookback ELSE mark) - Overlap

(* There is no watermark, and the death is older than six hours.           *)
Forgotten(n) ==
  mark = Never /\ \A l \in journal : l.death = n => l.at <= clock - Lookback - Overlap

(* "A turn that died silently still shows up": every turn comes to its end  *)
(* in the chat or in an alert, or the death that dropped it is heard of;    *)
(* unless the alert itself could not be sent, which nobody hears of.        *)
Accounted ==
  (stage = "thinking") ~> (customer # None \/ alert # None \/ \E n \in dropped : Heard(n))

(* What that rests on at any moment, also between two steps of a scan: the  *)
(* death that dropped a turn is heard of, or the window of the next scan    *)
(* still holds a line of it; unless no scan ever left a watermark, or it is  *)
(* lost, and nobody starts the gateway for six hours.                       *)
DropsHeard == \A n \in dropped : Heard(n) \/ Awaited(n) \/ Forgotten(n)
=============================================================================
