--------------------------- MODULE AgentTurns_proofs ---------------------------
(***************************************************************************)
(* What a customer gets in a turn, and what the hub is told of the deaths    *)
(* of the gateway, for any number of turns, kills and failures: the types,  *)
(* HeldBack, PromiseKept, NothingMissed, DropsHeard, OomNamed and           *)
(* RescanAddsNothing.                                                      *)
(***************************************************************************)
EXTENDS AgentTurns, ErrorScan_proofs, TLAPS

(* How far the turn is says what there is of it: a reply only when it is to *)
(* be sent, something for the customer only when it is over, a card only    *)
(* with a ticket that is known.                                            *)
Progress ==
  /\ stage \in {"idle", "thinking", "answered", "deciding", "carding", "linking", "sending", "over"}
  /\ customer # None => stage = "over" /\ customer = reply
  /\ stage \in {"idle", "thinking", "answered"} => context = {}
  /\ stage \in {"idle", "thinking"} => reply = None /\ ticket = None
  /\ stage \in {"answered", "deciding"} => reply = "answer" /\ ticket = None
  /\ stage \in {"carding", "linking"} => reply = "holding" /\ ticket # None

(* The reply that is to be sent is the one HeldBack and PromiseKept ask of  *)
(* the one that was sent.                                                  *)
ReplyFits ==
  /\ stage \in {"sending", "over"} /\ reply = "answer" /\ (marker = "low" \/ wants)
       => context = {} \/ denied \/ raised \/ (marker # "low" /\ \A c \in context : ~c.own)
  /\ stage \in {"sending", "over"} /\ reply = "holding" => ticket # None
  /\ stage \in {"sending", "over"} /\ reply = "answer" /\ ticket # None => denied \/ raised

(* A message of the session that is the one being answered asks for a human *)
(* if and only if the turn does.                                           *)
OwnMessage ==
  /\ latest \in Messages /\ (latest.own => latest.human = wants)
  /\ stage \in {"deciding", "carding", "linking", "sending"} => \A c \in context : c \in {latest, Unquoted}

IInv == TurnTypeOK /\ Progress /\ ReplyFits /\ OwnMessage

-----------------------------------------------------------------------------
(* A new turn, and a gateway without one, have nothing that could be wrong. *)
LEMMA AnewFits ==
  ASSUME IInv, NEW next \in {"idle", "thinking"}, NEW human \in BOOLEAN, Anew(next, human),
         turns' \in 0 .. MaxTurns
  PROVE  IInv'
<1>1. TurnTypeOK' BY DEF Anew, TurnTypeOK, Messages, Markers, None
<1>2. (Progress /\ ReplyFits)' BY DEF Anew, Progress, ReplyFits, None
<1>3. OwnMessage' BY DEF Anew, OwnMessage, Messages
<1>4. QED BY <1>1, <1>2, <1>3 DEF IInv

(* What the agent does before the hook.                                    *)
LEMMA AgentFits ==
  ASSUME IInv, NEW human \in BOOLEAN, NEW m \in Markers, NEW told \in BOOLEAN,
         Ask(human) \/ Overheard(human) \/ Answer(m) \/ AgentRaises(told)
  PROVE  IInv'
<1>1. CASE Ask(human)
  <2>1. turns' \in 0 .. MaxTurns BY <1>1, HandoffAssumption DEF Ask, IInv, TurnTypeOK
  <2>2. QED BY <1>1, <2>1, AnewFits DEF Ask
<1>2. CASE Overheard(human)
  BY <1>2 DEF Overheard, IInv, TurnTypeOK, Progress, ReplyFits, OwnMessage, Messages, None
<1>3. CASE Answer(m)
  BY <1>3 DEF Answer, IInv, TurnTypeOK, Progress, ReplyFits, OwnMessage, None
<1>4. CASE AgentRaises(told)
  BY <1>4 DEF AgentRaises, IInv, TurnTypeOK, Progress, ReplyFits, OwnMessage, None
<1>5. QED BY <1>1, <1>2, <1>3, <1>4

(* The hook lets an answer through, or makes a ticket of it.               *)
LEMMA DecisionFits ==
  ASSUME IInv, NEW made \in BOOLEAN, NEW known \in BOOLEAN,
         Context \/ NoContext \/ NoMessage \/ LetThrough \/ PostTicket(made, known) \/ HookRaises(made)
  PROVE  IInv'
<1>1. CASE Context \/ NoContext \/ NoMessage
  <2>1. PICK S \in {{}, {latest}, {Unquoted}} : ReadContext(S) BY <1>1 DEF Context, NoContext, NoMessage
  <2>2. TurnTypeOK' BY <2>1 DEF ReadContext, IInv, TurnTypeOK
  <2>3. QED BY <2>1, <2>2 DEF ReadContext, IInv, Progress, ReplyFits, OwnMessage, None
<1>2. CASE LetThrough
  BY <1>2 DEF LetThrough, Escalate, Unquoted, IInv, TurnTypeOK, Progress, ReplyFits, OwnMessage, None
<1>3. CASE PostTicket(made, known)
  BY <1>3 DEF PostTicket, Posted, Quoting, IInv, TurnTypeOK, Progress, ReplyFits, OwnMessage, None
<1>4. CASE HookRaises(made)
  BY <1>4 DEF HookRaises, Quoting, IInv, TurnTypeOK, Progress, ReplyFits, OwnMessage, None
<1>5. QED BY <1>1, <1>2, <1>3, <1>4

(* The card, the link and the message to the customer.                     *)
LEMMA SendingFits ==
  ASSUME IInv, NEW told \in BOOLEAN,
         NEW c \in {None, "lost", "known"}, NEW d \in {"known", "linked"},
         PostCard(c) \/ Link(d) \/ Sent \/ SendRaises(told)
  PROVE  IInv'
<1>1. CASE PostCard(c)
  BY <1>1 DEF PostCard, IInv, TurnTypeOK, Progress, ReplyFits, OwnMessage, None
<1>2. CASE Link(d)
  BY <1>2 DEF Link, IInv, TurnTypeOK, Progress, ReplyFits, OwnMessage, None
<1>3. CASE Sent
  BY <1>3 DEF Sent, IInv, TurnTypeOK, Progress, ReplyFits, OwnMessage, None
<1>4. CASE SendRaises(told)
  BY <1>4 DEF SendRaises, IInv, TurnTypeOK, Progress, ReplyFits, OwnMessage, None
<1>5. QED BY <1>1, <1>2, <1>3, <1>4

(* Nothing changes for a turn that stands still.                           *)
LEMMA StandsStill == IInv /\ UNCHANGED turnVars => IInv'
BY DEF turnVars, IInv, TurnTypeOK, Progress, ReplyFits, OwnMessage

LEMMA TurnStep == IInv /\ [Next]_everything => IInv'
<1> SUFFICES ASSUME IInv, [Next]_everything PROVE IInv'
  OBVIOUS
<1>1. CASE Turn
  <2>1. Agent BY <1>1 DEF Turn
  <2>2. CASE \E human \in BOOLEAN : Ask(human) \/ Overheard(human)
    BY <2>2, AgentFits DEF Markers
  <2>3. CASE \E m \in Markers : Answer(m)
    BY <2>3, AgentFits
  <2>4. CASE \E told \in BOOLEAN : AgentRaises(told) \/ SendRaises(told)
    BY <2>4, AgentFits, SendingFits DEF Markers
  <2>5. CASE Hook
    <3>1. CASE Context \/ NoContext \/ NoMessage \/ LetThrough BY <3>1, DecisionFits
    <3>6. CASE \E made \in BOOLEAN : HookRaises(made) BY <3>6, DecisionFits
    <3>2. CASE \E made, known \in BOOLEAN : PostTicket(made, known) BY <3>2, DecisionFits
    <3>3. CASE \E c \in {None, "lost", "known"} : PostCard(c) BY <3>3, SendingFits
    <3>4. CASE \E c \in {"known", "linked"} : Link(c) BY <3>4, SendingFits
    <3>5. QED BY <2>5, <3>1, <3>2, <3>3, <3>4, <3>6 DEF Hook
  <2>6. CASE Sent BY <2>6, SendingFits
  <2>7. QED BY <2>1, <2>2, <2>3, <2>4, <2>5, <2>6 DEF Agent
<1>2. CASE Forget
  <2>1. turns' \in 0 .. MaxTurns BY <1>2, HandoffAssumption DEF Forget
  <2>2. QED BY <1>2, <2>1, AnewFits DEF Forget
<1>3. CASE UNCHANGED turnVars BY <1>3, StandsStill
<1>4. Turn \/ Forget \/ UNCHANGED turnVars
  BY Zenon DEF Next, everything, StopIdle, Drop
<1>5. QED BY <1>1, <1>2, <1>3, <1>4

LEMMA TurnInvariant == Spec => []IInv
<1>1. Init => IInv
  <2> SUFFICES ASSUME Init PROVE IInv
    OBVIOUS
  <2>1. turns \in 0 .. MaxTurns BY HandoffAssumption DEF Init, TurnInit
  <2>2. TurnTypeOK BY <2>1 DEF Init, TurnInit, TurnTypeOK, Messages, Markers, None
  <2>3. Progress /\ ReplyFits BY DEF Init, TurnInit, Progress, ReplyFits, None
  <2>4. OwnMessage BY DEF Init, TurnInit, OwnMessage, Messages
  <2>5. QED BY <2>2, <2>3, <2>4 DEF IInv
<1>2. QED BY <1>1, TurnStep, PTL DEF Spec

-----------------------------------------------------------------------------
(* An answer that is not sure of itself, or that was to be a human's, is    *)
(* held back, but for the exceptions HeldBack names                         *)
(* (handoff.transform_llm_output).                                         *)
THEOREM AnswersHeldBack == Spec => []HeldBack
<1>1. IInv => HeldBack
  BY DEF IInv, Progress, ReplyFits, HeldBack, None
<1>2. QED BY <1>1, TurnInvariant, PTL

(* A customer who is promised a call has a ticket, and one with a ticket    *)
(* gets no answer, unless it was not acknowledged or the hook raised.      *)
THEOREM PromisesKept == Spec => []PromiseKept
<1>1. IInv => PromiseKept
  BY DEF IInv, Progress, ReplyFits, PromiseKept, None
<1>2. QED BY <1>1, TurnInvariant, PTL

-----------------------------------------------------------------------------
(* The scan does not notice the turns                                      *)

LEMMA StepsScan == [Next]_everything => [ScanNext]_scanVars
<1>1. ASSUME [Next]_everything PROVE [ScanNext]_scanVars
  <2>1. CASE Scan \/ Tick \/ (\E l \in hidden : Surface(l)) BY <2>1 DEF ScanNext, Outside
  <2>2. CASE Turn BY <2>2 DEF Turn
  <2>3. CASE StopIdle BY <2>3 DEF StopIdle, ScanNext, Outside
  <2>4. CASE \E kind \in {"oom", "crash"}, spread \in 0 .. Spread : Drop(kind, spread)
    BY <2>4 DEF Drop, ScanNext, Killed
  <2>5. CASE UNCHANGED everything BY <2>5 DEF everything
  <2>6. QED BY <1>1, <2>1, <2>2, <2>3, <2>4, <2>5 DEF Next
<1>2. QED BY <1>1

LEMMA ScanInvariant == Spec => [](ScanTypes /\ ToldInv)
<1>1. Init => ScanTypes /\ ToldInv BY TypesStart, ToldStart DEF Init
<1>2. ScanTypes /\ ToldInv /\ [Next]_everything => (ScanTypes /\ ToldInv)'
  BY StepsScan, TypesStep, ToldStep
<1>3. QED BY <1>1, <1>2, PTL DEF Spec

(* Only deaths that were drop turns.                                       *)
DroppedIsDeaths == dropped \subseteq 1 .. deaths

LEMMA DroppedStep == ScanTypes /\ DroppedIsDeaths /\ [Next]_everything => DroppedIsDeaths'
<1> SUFFICES ASSUME ScanTypes, DroppedIsDeaths, [Next]_everything PROVE DroppedIsDeaths'
  OBVIOUS
<1>1. deaths \in Nat BY ScanAssumption DEF ScanTypes, Bounded
<1>2. CASE \E kind \in {"oom", "crash"}, spread \in 0 .. Spread : Drop(kind, spread)
  <2>1. deaths' = deaths + 1 /\ dropped' \subseteq dropped \cup {deaths'} BY <1>2 DEF Drop, Die
  <2>2. QED BY <1>1, <2>1 DEF DroppedIsDeaths
<1>3. CASE Scan /\ UNCHANGED dropped
  <2>1. UNCHANGED deaths
    BY <1>3 DEF Scan, Start, WatermarkLost, Begin, ReadJournal, JournalFails, Report, ReportLost, Marked,
                MarkFails, counts
  <2>2. QED BY <1>3, <2>1 DEF DroppedIsDeaths
<1>4. CASE (Tick \/ Stop \/ \E l \in hidden : Surface(l)) /\ UNCHANGED dropped
  BY <1>4 DEF Tick, Stop, Surface, counts, DroppedIsDeaths
<1>5. CASE UNCHANGED <<scanVars, dropped>> BY <1>5 DEF scanVars, DroppedIsDeaths
<1>6. QED BY <1>2, <1>3, <1>4, <1>5 DEF Next, Turn, StopIdle, everything

(* The types.                                                              *)
THEOREM TurnTypes == Spec => []TypeOK
<1>1. Init => DroppedIsDeaths BY DEF Init, DroppedIsDeaths
<1>2. Spec => []DroppedIsDeaths BY <1>1, DroppedStep, ScanInvariant, PTL DEF Spec
<1>3. IInv /\ ScanTypes /\ DroppedIsDeaths => TypeOK
  BY ScanTypesFit DEF IInv, TypeOK, DroppedIsDeaths
<1>4. QED BY <1>2, <1>3, TurnInvariant, ScanInvariant, PTL

(* A death whose time no scan will look at again is told, or was passed     *)
(* over, however short the lookback and the batch (_read_watermark and       *)
(* scan_and_report: the watermark is taken before the journal is read, and  *)
(* the overlap is longer than a line is late and a bucket together).        *)
THEOREM NothingIsMissed == Spec => []NothingMissed
<1>1. Init => SeenInv BY SeenStart DEF Init
<1>2. ScanTypes /\ SeenInv /\ [Next]_everything => SeenInv' BY StepsScan, SeenStep
<1>3. QED BY <1>1, <1>2, ScanInvariant, SeenEnough, PTL DEF Spec

(* Every death left a line in the journal.                                 *)
Traced == \A n \in 1 .. deaths : \E l \in journal : l.death = n

LEMMA TracedStep == ScanTypes /\ Traced /\ [Next]_everything => Traced'
<1> SUFFICES ASSUME ScanTypes, Traced, [Next]_everything PROVE Traced'
  OBVIOUS
<1>1. deaths \in Nat BY ScanAssumption DEF ScanTypes, Bounded
<1>2. CASE Killed
  <2>1. PICK kind \in {"oom", "crash"}, spread \in 0 .. Spread : Die(kind, spread) BY <1>2 DEF Killed
  <2>2. /\ deaths' = deaths + 1
        /\ [death |-> deaths', no |-> 2, kind |-> "crash", at |-> clock] \in journal'
        /\ journal \subseteq journal'
    BY <2>1 DEF Die, Burst
  <2>3. QED BY <1>1, <2>2 DEF Traced
<1>3. CASE UNCHANGED <<deaths, journal>> BY <1>3 DEF Traced
<1>4. Killed \/ UNCHANGED <<deaths, journal>>
  <2>1. [ScanNext]_scanVars BY StepsScan
  <2>2. Scan => UNCHANGED <<deaths, journal>>
    BY DEF Scan, Start, WatermarkLost, Begin, ReadJournal, JournalFails, Report, ReportLost, Marked,
           MarkFails, counts
  <2>3. Outside => UNCHANGED <<deaths, journal>> BY DEF Outside, Tick, Stop, Surface, counts
  <2>4. QED BY <2>1, <2>2, <2>3 DEF ScanNext, scanVars
<1>5. QED BY <1>2, <1>3, <1>4

(* A turn that a kill dropped is heard of or still will be, or is too old    *)
(* for a scan without a watermark: what no scan looks at again is told, and *)
(* a death leaves a line (transform_llm_output's state dies with the         *)
(* gateway, scan_and_report finds the death).                              *)
THEOREM DropsAreHeard == Spec => []DropsHeard
<1>1. Init => Traced BY DEF Init, ScanInit, Traced
<1>2. Spec => []Traced BY <1>1, TracedStep, ScanInvariant, PTL DEF Spec
<1>3. ScanTypes /\ TypeOK /\ Traced /\ NothingMissed => DropsHeard
  <2> SUFFICES ASSUME ScanTypes, TypeOK, Traced, NothingMissed, NEW n \in dropped
               PROVE  Heard(n) \/ Awaited(n) \/ Forgotten(n)
    BY DEF DropsHeard
  <2>1. PICK l \in journal : l.death = n BY DEF TypeOK, Traced
  <2>2. /\ mark - Overlap \in Int /\ clock - Lookback - Overlap \in Int
        /\ \A k \in journal : k.at \in Int
    BY ScanAssumption DEF ScanTypes, Bounded, Lines, Line
  <2>3. CASE mark # Never /\ l.at > mark - Overlap BY <2>1, <2>3 DEF Awaited
  <2>6. CASE mark = Never
    <3>1. CASE \E k \in journal : k.death = n /\ k.at > clock - Lookback - Overlap
      BY <2>6, <3>1 DEF Awaited
    <3>2. CASE ~ \E k \in journal : k.death = n /\ k.at > clock - Lookback - Overlap
      BY <2>2, <2>6, <3>2 DEF Forgotten
    <3>3. QED BY <3>1, <3>2
  <2>4. CASE mark # Never /\ l.at <= mark - Overlap BY <2>1, <2>4 DEF NothingMissed, Heard
  <2>5. QED BY <2>1, <2>2, <2>3, <2>4, <2>6
<1>4. QED BY <1>2, <1>3, TurnTypes, ScanInvariant, NothingIsMissed, PTL

(* A bucket of which every scan saw all lines or none is never the row of a *)
(* plain crash if the OOM killer is in it (_dedupe).                        *)
THEOREM OomsNamed == Spec => []OomNamed
<1>1. ToldInv => OomNamed BY DEF ToldInv
<1>2. QED BY <1>1, ScanInvariant, PTL

(* A scan that finds nothing new adds no row, whatever was re-read, because *)
(* a bucket has one representative and a representative has one id.         *)
THEOREM RescansAddNothing == Spec => RescanAddsNothing
<1>1. ScanTypes /\ ToldInv /\ [Next]_everything => [AddsOnlyNew]_scanVars
  BY StepsScan, NewRows
<1>2. Spec => [][AddsOnlyNew]_scanVars BY <1>1, ScanInvariant, PTL DEF Spec
<1>3. QED BY <1>2 DEF RescanAddsNothing, AddsOnlyNew
=============================================================================
