---------------------------- MODULE RelinkWatcher ----------------------------
(***************************************************************************)
(* The relink watcher (relink_watcher.py): a thread of the gateway that     *)
(* polls the WhatsApp bridge, reports its status to the hub, and, when the  *)
(* bridge process has been gone for a while, restarts it or pairs anew.     *)
(*                                                                         *)
(* External, as relink_watcher.py tells of them: the bridge process (it     *)
(* exits when it is logged out, and answers /health only once it is up),    *)
(* WhatsApp, the person who scans the QR code, and the hub, which keeps the *)
(* status it received last.  Status posts run in threads of their own, so   *)
(* they may be lost and may overtake each other.                            *)
(***************************************************************************)
EXTENDS Naturals

CONSTANTS GracePolls,  \* _PROCESS_GONE_POLLS
          Elsewhere,   \* TRUE: somebody may pair the session from elsewhere
          MaxFaults    \* bound: crashes, log-outs, failed launches and the like

ASSUME WatcherAssumption ==
  GracePolls \in Nat \ {0} /\ Elsewhere \in BOOLEAN /\ MaxFaults \in Nat

VARIABLES pc,        \* where the watcher is
          connected, \* its /health poll said connected
          gone,      \* gone_polls, up to GracePolls
          reported,  \* last_reported
          since,     \* seconds since last_push_ts, up to Heartbeat
          session,   \* the credentials: "none", "stale" (rejected), "valid"
          bridge,    \* the bot bridge: "absent", "deaf" (no /health), "trying", "connected"
          known,     \* bridge.pid holds its PID
          net,       \* the status posts under way
          hub,       \* the status the hub has
          stopping,  \* HERMES_GATEWAY_SHUTTING_DOWN
          faults,    \* how many faults there were
          paired,    \* history: the session was paired elsewhere during this relink
          late       \* history: it was, after the directory was found to be bare

watcher == <<pc, connected, gone, reported, since>>
world == <<session, bridge, known>>
feed == <<net, hub>>
history == <<paired, late>>
vars == <<watcher, world, feed, stopping, faults, history>>

(* Seconds between polls.                                                  *)
Heartbeat == 45
UnlinkedInterval == 12
BadPollInterval == 15

Report(status, qr) == [status |-> status, qr |-> qr]

Init ==
  /\ pc = "poll" /\ connected = FALSE /\ gone = 0
  /\ reported = "none" /\ since = Heartbeat
  /\ session \in {"none", "valid"}
  /\ bridge = IF session = "valid" THEN "deaf" ELSE "absent"
  /\ known = TRUE
  /\ net = {} /\ hub = Report("none", FALSE)
  /\ stopping = FALSE /\ faults = 0 /\ paired = FALSE /\ late = FALSE

Fault == faults < MaxFaults /\ faults' = faults + 1

-----------------------------------------------------------------------------
(* The watch loop                                                          *)

PollHealth ==
  /\ pc = "poll"
  /\ connected' = (bridge = "connected")
  /\ pc' = "present"
  /\ UNCHANGED <<gone, reported, since, world, feed, stopping, faults, history>>

(* Mutant: the pidfile is not asked.                                       *)
PresentByHealth == bridge \in {"trying", "connected"}

(* /health answers, or the PID in the pidfile is alive.                    *)
Present == bridge \in {"trying", "connected"} \/ (bridge = "deaf" /\ known)

(* Mutant: the loss is off by one, and never sustained.                    *)
CountShort(seen) ==
  IF connected \/ seen THEN 0 ELSE IF gone + 1 < GracePolls THEN gone + 1 ELSE gone

Count(seen) ==
  IF connected \/ seen THEN 0 ELSE IF gone < GracePolls THEN gone + 1 ELSE gone

Status(count) ==
  IF connected THEN "connected" ELSE IF count = GracePolls THEN "unlinked" ELSE "disconnected"

Sleep(status) ==
  IF status = "connected" THEN Heartbeat
  ELSE IF status = "unlinked" THEN UnlinkedInterval ELSE BadPollInterval

Later(t, d) == IF t + d < Heartbeat THEN t + d ELSE Heartbeat

(* Mutant: the status is reported when it changes, and only then.          *)
DueOnChange(status) == status # reported
(* A status is reported when it changed, or as a keep-alive.               *)
Due(status) == status # reported \/ since = Heartbeat

Judge ==
  /\ pc = "present"
  /\ gone' = Count(Present)
  /\ LET status == Status(gone') IN
       /\ IF Due(status)
          THEN /\ net' = net \cup {Report(status, FALSE)}
               /\ reported' = status
               /\ since' = Sleep(status)
          ELSE /\ since' = Later(since, Sleep(status))
               /\ UNCHANGED <<net, reported>>
       /\ pc' = IF status = "unlinked" /\ ~stopping THEN "stop" ELSE "poll"
  /\ UNCHANGED <<connected, world, hub, stopping, faults, history>>

-----------------------------------------------------------------------------
(* One relink                                                              *)

(* bridge.js is not found, or an exception: the watcher goes on polling.   *)
RelinkAborts ==
  /\ pc \in {"stop", "clear"}
  /\ Fault
  /\ pc' = "poll"
  /\ UNCHANGED <<connected, gone, reported, since, world, feed, stopping, history>>

(* SIGTERM to the PID in the pidfile, if it is alive; it may not help.     *)
StopBridge ==
  /\ pc = "stop"
  /\ pc' = "check"
  /\ \/ bridge' = IF known THEN "absent" ELSE bridge
     \/ UNCHANGED bridge
  /\ paired' = FALSE
  /\ UNCHANGED <<connected, gone, reported, since, session, known, feed, stopping, faults, late>>

(* Mutant: the session is cleared and paired, whatever it holds.           *)
CheckNothing ==
  /\ pc = "check"
  /\ pc' = "clear"
  /\ UNCHANGED <<connected, gone, reported, since, world, feed, stopping, faults, history>>
(* Mutant: the session with credentials is left alone, and the bridge too. *)
CheckAndLeave ==
  /\ pc = "check"
  /\ pc' = IF session # "none" THEN "poll" ELSE "clear"
  /\ UNCHANGED <<connected, gone, reported, since, world, feed, stopping, faults, history>>

(* creds.json is there: the session is not to be cleared.                   *)
CheckCreds ==
  /\ pc = "check"
  /\ pc' = IF session # "none" THEN "refuse" ELSE "clear"
  /\ UNCHANGED <<connected, gone, reported, since, world, feed, stopping, faults, history>>

(* Mutant: the directory is moved aside, whatever has appeared in it.       *)
ClearUnseen ==
  /\ pc \in {"clear", "refuse"}
  /\ pc' = IF pc = "clear" THEN "move" ELSE IF session = "none" THEN "evict" ELSE "restart"
  /\ late' = FALSE
  /\ UNCHANGED <<connected, gone, reported, since, world, feed, stopping, faults, paired>>

(* The directory is to be moved aside unless it now holds credentials.      *)
(* After a refusal the bridge is restarted if there were some before, too;   *)
(* if not, pair-only is launched in any case; so it is without a directory. *)
ClearSession ==
  /\ pc \in {"clear", "refuse"}
  /\ \/ session = "none" /\ pc' = IF pc = "clear" THEN "move" ELSE "evict"
     \/ pc' = IF pc = "clear" THEN "pair" ELSE "restart"
  /\ late' = FALSE
  /\ UNCHANGED <<connected, gone, reported, since, world, feed, stopping, faults, paired>>

(* It is moved a few lines on, whatever it then holds, bridge.pid included;  *)
(* or the move fails, which is taken for a refusal.                        *)
MoveSession ==
  /\ pc \in {"move", "evict"}
  /\ \/ /\ session' = "none" /\ known' = FALSE
        /\ pc' = "pair" /\ UNCHANGED faults
     \/ /\ Fault /\ UNCHANGED <<session, known>>
        /\ pc' = IF pc = "move" THEN "pair" ELSE "restart"
  /\ UNCHANGED <<connected, gone, reported, since, bridge, feed, stopping, history>>

(* A bridge that still runs keeps the port: the new one then exits.        *)
StartBridge ==
  \/ /\ bridge = "absent"
     /\ bridge' = "deaf" /\ known' = FALSE
     /\ UNCHANGED faults
  \/ bridge # "absent" /\ UNCHANGED <<bridge, known, faults>>
  \/ Fault /\ UNCHANGED <<bridge, known>>

(* Not a reconnection: gone stays what it is.                              *)
Restart ==
  /\ pc = "restart"
  /\ StartBridge
  /\ pc' = "poll"
  /\ UNCHANGED <<connected, gone, reported, since, session, feed, stopping, history>>

(* pair-only surfaces a QR code, a new one every 20 seconds.               *)
ShowQr ==
  /\ pc = "pair"
  /\ net' = net \cup {Report("unlinked", TRUE)}
  /\ UNCHANGED <<watcher, world, hub, stopping, faults, history>>

(* The watchdog stops pair-only, or it ends by itself, without a scan.     *)
PairEnds ==
  /\ pc = "pair"
  /\ pc' = "poll"
  /\ since' = Heartbeat
  /\ UNCHANGED <<connected, gone, reported, world, feed, stopping, faults, history>>

Scan ==
  /\ pc = "pair"
  /\ session' = "valid"
  /\ pc' = "launch"
  /\ UNCHANGED <<connected, gone, reported, since, bridge, known, feed, stopping, faults, history>>

Launch ==
  /\ pc = "launch"
  /\ StartBridge
  /\ pc' = "confirm"
  /\ UNCHANGED <<connected, gone, reported, since, session, feed, stopping, history>>

(* After at most 20 polls, "connected" is reported, be it so or not.       *)
Confirm ==
  /\ pc = "confirm"
  /\ net' = net \cup {Report("connected", FALSE)}
  /\ gone' = 0 /\ reported' = "connected" /\ since' = UnlinkedInterval
  /\ pc' = "poll"
  /\ UNCHANGED <<connected, world, hub, stopping, faults, history>>

Watch ==
  \/ PollHealth \/ Judge
  \/ RelinkAborts \/ StopBridge \/ CheckCreds \/ ClearSession \/ MoveSession \/ Restart
  \/ Launch \/ Confirm

-----------------------------------------------------------------------------
(* The world                                                               *)

Boot ==
  /\ bridge = "deaf"
  /\ bridge' = "trying"
  /\ UNCHANGED <<watcher, session, known, feed, stopping, faults, history>>

Connect ==
  /\ bridge = "trying" /\ session = "valid"
  /\ bridge' = "connected"
  /\ UNCHANGED <<watcher, session, known, feed, stopping, faults, history>>

(* Logged out: the bot bridge exits.                                       *)
Exit ==
  /\ bridge = "trying" /\ session # "valid"
  /\ bridge' = "absent"
  /\ UNCHANGED <<watcher, session, known, feed, stopping, faults, history>>

(* It crashes, loses its connection, or is too busy to answer.             *)
Fail ==
  /\ bridge # "absent" /\ Fault
  /\ bridge' \in {"absent", "trying", "deaf"} \ {bridge}
  /\ UNCHANGED <<watcher, session, known, feed, stopping, history>>

(* The device is removed on the phone: what credentials there are go stale. *)
Logout ==
  /\ bridge = "connected" /\ Fault
  /\ session' = IF session = "valid" THEN "stale" ELSE session
  /\ bridge' = "absent"
  /\ UNCHANGED <<watcher, known, feed, stopping, history>>

(* Somebody deletes the session that was logged out.                       *)
DeleteSession ==
  /\ session = "stale" /\ Elsewhere
  /\ session' = "none"
  /\ UNCHANGED <<watcher, bridge, known, feed, stopping, faults, history>>

PairElsewhere ==
  /\ session # "valid" /\ Elsewhere /\ Fault
  /\ session' = "valid" /\ paired' = TRUE
  /\ late' = (late \/ pc \in {"move", "evict"})
  /\ UNCHANGED <<watcher, bridge, known, feed, stopping>>

Deliver(post) ==
  /\ post \in net
  /\ net' = net \ {post} /\ hub' = post
  /\ UNCHANGED <<watcher, world, stopping, faults, history>>

Lose(post) ==
  /\ post \in net
  /\ net' = net \ {post}
  /\ UNCHANGED <<watcher, world, hub, stopping, faults, history>>

Shutdown ==
  /\ ~stopping
  /\ stopping' = TRUE
  /\ UNCHANGED <<watcher, world, feed, faults, history>>

Reports == [status : {"connected", "unlinked", "disconnected"}, qr : {FALSE}]
             \cup {Report("unlinked", TRUE)}

Next ==
  \/ Watch
  \/ ShowQr \/ PairEnds \/ Scan
  \/ Boot \/ Connect \/ Exit \/ Fail \/ Logout \/ DeleteSession \/ PairElsewhere
  \/ \E post \in Reports : Deliver(post) \/ Lose(post)
  \/ Shutdown

(* The loop goes on whatever happens, pair-only is stopped after 300 s and  *)
(* shows a code within seconds, a bridge comes up or exits, and a status    *)
(* that is posted time and again gets through.  Nobody has to scan.         *)
Fairness ==
  /\ WF_vars(Watch) /\ WF_vars(PairEnds) /\ SF_vars(ShowQr)
  /\ WF_vars(Boot) /\ WF_vars(Connect) /\ WF_vars(Exit)
  /\ \A post \in Reports : SF_vars(Deliver(post))

Spec == Init /\ [][Next]_vars /\ Fairness

-----------------------------------------------------------------------------
(* The types of the variables.                                             *)
TypeOK ==
  /\ pc \in {"poll", "present", "stop", "check", "refuse", "restart", "clear", "move",
            "evict", "pair", "launch", "confirm"}
  /\ connected \in BOOLEAN /\ gone \in 0 .. GracePolls /\ since \in 0 .. Heartbeat
  /\ reported \in {"none", "connected", "unlinked", "disconnected"}
  /\ session \in {"none", "stale", "valid"}
  /\ bridge \in {"absent", "deaf", "trying", "connected"} /\ known \in BOOLEAN
  /\ net \subseteq Reports /\ hub \in Reports \cup {Report("none", FALSE)}
  /\ stopping \in BOOLEAN /\ faults \in 0 .. MaxFaults /\ {paired, late} \subseteq BOOLEAN

(* "NEVER clear a session that still holds credentials": nothing takes a    *)
(* valid pairing away, not even one that somebody makes while a relink is    *)
(* under way; except one made between the last look into the directory and  *)
(* the move of it, which is lost (_backup_and_clear_session).               *)
CredsKept == [][session = "valid" => session' # "none" \/ late]_session

(* pair-only never runs over credentials, unless they came up after the     *)
(* relink started (the module comment, and the check of _run_relink).       *)
PairsOnlyBare == pc = "pair" /\ session # "none" => paired

(* The watcher never relinks while the bridge known to it is alive: it does *)
(* not stop one that is merely slow (_bridge_process_present).              *)
SlowNotStopped == pc = "stop" /\ known => bridge = "absent"

(* A pairing that is valid ends up in use: whatever crashed or failed to    *)
(* start is started again (_watch_loop, _run_relink).                       *)
Recovers == <>[](session = "valid" => bridge = "connected" \/ stopping)

(* A bare session is offered a QR code in the hub, unless the bridge is     *)
(* still connected with the credentials it read before they went.          *)
NeedsPairing ==
  session = "none" /\ bridge # "connected" ~> hub.qr \/ session # "none" \/ stopping

(* The hub comes to show that the bridge is connected, and no QR code, when *)
(* it stays so, whichever posts were lost or came late (_watch_loop).       *)
HubLearns == <>[](bridge = "connected") => <>[](hub = Report("connected", FALSE))

(* After a log-out the stale session is backed up and cleared and a QR code *)
(* is offered (steps 1 to 3 of the module comment).                         *)
Relinkable == session = "stale" ~> hub.qr \/ session # "stale" \/ stopping
=============================================================================
