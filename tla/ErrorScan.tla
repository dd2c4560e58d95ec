------------------------------- MODULE ErrorScan -------------------------------
(***************************************************************************)
(* The post-mortem scan of error_scan.py: a gateway that is killed leaves    *)
(* nothing but a burst of lines in the journal, so at its next start it      *)
(* reads the journal from a watermark on, makes one row of every burst, and  *)
(* posts the rows to the hub, which ignores a row it has.                    *)
(*                                                                         *)
(* Time is in units of which Bucket are the 10 s of _dedupe and Overlap the  *)
(* 60 s before the watermark.  The journal is external: a line may become    *)
(* visible a little after its own time (Late).                               *)
(***************************************************************************)
EXTENDS Integers, FiniteSets

CONSTANTS Bucket, Overlap, Late,
          Spread,     \* the longest burst
          Announced,  \* systemd says of an OOM kill that it was one before anything else
          Lookback,   \* _FIRST_RUN_LOOKBACK_SECONDS
          Batch,      \* the rows push_errors sends at most
          MaxTime,    \* bound
          MaxDeaths,  \* bound
          MaxStarts,  \* bound: the starts of the gateway
          MaxFaults   \* bound: what fails in the scans

ASSUME ScanAssumption ==
  /\ {Bucket, Overlap, Lookback, Batch, MaxTime} \subseteq Nat \ {0}
  /\ {Late, Spread, MaxDeaths, MaxStarts, MaxFaults} \subseteq Nat
  /\ Announced \in BOOLEAN
  /\ Late + Bucket <= Overlap

VARIABLES clock,    \* the time
          deaths,   \* how many times the gateway was killed
          starts,   \* how many times it was started
          faults,   \* how many steps of scans failed
          journal,  \* the lines of the unit's journal that matter
          hidden,   \* those that are not visible yet
          gateway,  \* what the gateway does: the steps of the scan are part of its start
          mark,     \* the watermark, Never: none that can be read
          scan,     \* the scan under way: its time, its since, and the lines it read
          rows,     \* the hub's rows
          fresh,    \* history: lines that no report that arrived was made from
          unheard,  \* history: lines that a failing report or journal, the end of a batch,
                    \* or a scan that did not look back that far passed over
          partial   \* history: buckets of which a scan saw some lines and not all

Never == 0
counts == <<deaths, starts, faults>>
scanVars == <<clock, deaths, starts, faults, journal, hidden, gateway, mark, scan, rows, fresh, unheard, partial>>

NoScan == [now |-> 0, since |-> 0, lines |-> {}]
BucketOf(line) == line.at \div Bucket

(* The order of the journal.                                               *)
Before(l, m) ==
  \/ l.death < m.death
  \/ l.death = m.death /\ l.no < m.no

ScanInit ==
  /\ clock = 1 /\ deaths = 0 /\ starts = 0 /\ faults = 0 /\ journal = {} /\ hidden = {}
  /\ gateway = "down" /\ mark = Never /\ scan = NoScan
  /\ rows = {} /\ fresh = {} /\ unheard = {} /\ partial = {}

-----------------------------------------------------------------------------
(* The world                                                               *)

(* What systemd writes of a death: that of an out-of-memory kill is first   *)
(* Announced (by a systemd that does), then a process killed by signal 9,   *)
(* like any other, and a unit failed with a result, which may come later.   *)
Burst(n, kind, spread) ==
  LET line(no, k, at) == [death |-> n, no |-> no, kind |-> k, at |-> at]
  IN  {l \in {line(1, "oom", clock)} : Announced /\ kind = "oom"}
        \cup {line(2, "crash", clock), line(3, kind, clock + spread)}

(* The gateway is killed, in the middle of whatever it does.               *)
Die(kind, spread) ==
  /\ gateway # "down" /\ deaths < MaxDeaths /\ clock + spread <= MaxTime
  /\ \A l \in hidden : clock + spread <= l.at + Late
  /\ deaths' = deaths + 1 /\ clock' = clock + spread
  /\ hidden' \in {hidden, hidden \cup {l \in Burst(deaths', kind, spread) : l.no = 3}}
  /\ journal' = journal \cup Burst(deaths', kind, spread)
  /\ fresh' = fresh \cup Burst(deaths', kind, spread)
  /\ gateway' = "down" /\ scan' = NoScan
  /\ UNCHANGED <<starts, faults, mark, rows, unheard, partial>>

Surface(l) ==
  /\ l \in hidden /\ hidden' = hidden \ {l}
  /\ UNCHANGED <<counts, clock, journal, gateway, mark, scan, rows, fresh, unheard, partial>>

(* Time passes; that of a scan passes while it reads the journal.          *)
Tick ==
  /\ gateway \in {"down", "reading", "running"}
  /\ clock < MaxTime /\ \A l \in hidden : clock < l.at + Late
  /\ clock' = clock + 1
  /\ UNCHANGED <<counts, journal, hidden, gateway, mark, scan, rows, fresh, unheard, partial>>

(* A stop in good order, which writes nothing (bound: a start is left for   *)
(* it and for every death to come).                                        *)
Stop ==
  /\ starts + MaxDeaths - deaths < MaxStarts
  /\ gateway = "running" /\ gateway' = "down"
  /\ UNCHANGED <<counts, clock, journal, hidden, mark, scan, rows, fresh, unheard, partial>>

-----------------------------------------------------------------------------
(* The scan                                                                *)

(* One more failure.                                                       *)
Fault == faults < MaxFaults /\ faults' = faults + 1

(* Mutant: the watermark is written before the report is sent.             *)
BeginMarks(found, otherwise) ==
  /\ gateway = "down" /\ starts < MaxStarts
  /\ gateway' = "reading" /\ starts' = starts + 1
  /\ scan' = [now |-> clock, lines |-> {},
              since |-> IF found = Never THEN otherwise ELSE found]
  /\ mark' = clock
  /\ UNCHANGED <<deaths, clock, journal, hidden, rows, fresh, unheard, partial>>

(* _read_watermark: no file, or none that can be read, is a first run.     *)
Begin(found, otherwise) ==
  /\ gateway = "down" /\ starts < MaxStarts
  /\ gateway' = "reading" /\ starts' = starts + 1
  /\ scan' = [now |-> clock, lines |-> {},
              since |-> IF found = Never THEN otherwise ELSE found]
  /\ UNCHANGED <<deaths, clock, journal, hidden, mark, rows, fresh, unheard, partial>>

Start == Begin(mark, clock - Lookback) /\ UNCHANGED faults
WatermarkLost == mark # Never /\ Begin(Never, clock - Lookback) /\ Fault

(* Mutant: without an overlap.                                             *)
FromMark(since) == since

(* Where the journal is read from.                                         *)
From(since) == IF since < Overlap THEN 0 ELSE since - Overlap

(* The line that stands for a bucket: the first, or the first that speaks   *)
(* of the OOM killer.                                                       *)
First(lines) == CHOOSE l \in lines : \A m \in lines : m = l \/ Before(l, m)
Ooms(lines) == {l \in lines : l.kind = "oom"}

(* Mutant: a crash is not upgraded.                                        *)
KeepFirst(lines) == {First(lines)}

Representative(lines) == {IF Ooms(lines) = {} THEN First(lines) ELSE First(Ooms(lines))}

Dedupe(lines) == UNION {Representative({l \in lines : BucketOf(l) = b}) : b \in {BucketOf(l) : l \in lines}}

(* Mutant: an id of its own for every report.                              *)
FreshId(l, now) == [line |-> l, id |-> now]

(* A row: its id is a hash of the line's time in microseconds and its kind. *)
Row(l, now) == [line |-> l, id |-> 0]

(* Mutant: the overlap is read, and what is in it is dropped.              *)
ReportsProper == {Row(l, scan.now) : l \in {m \in Dedupe(scan.lines) : m.at > scan.since}}

(* What is at or before the overlap's beginning is dropped, after the       *)
(* bursts were collapsed.                                                  *)
Reports == {Row(l, scan.now) : l \in {m \in Dedupe(scan.lines) : m.at > scan.since - Overlap}}

(* What a scan without a watermark does not look back to, though no scan    *)
(* before it has; and what shares a bucket with that.                      *)
TooOld ==
  {l \in journal : \E m \in journal :
     /\ BucketOf(m) = BucketOf(l) /\ m.at <= scan.since - Overlap
     /\ mark = Never \/ m.at > mark - Overlap}

ReadJournal ==
  /\ gateway = "reading"
  /\ gateway' = "reporting"
  /\ LET read == {l \in journal \ hidden : l.at >= From(scan.since)}
         missed == {l \in journal : l \in hidden \/ l.at <= scan.since - Overlap}
     IN  /\ scan' = [scan EXCEPT !.lines = read]
         /\ partial' = partial \cup ({BucketOf(l) : l \in read} \cap {BucketOf(l) : l \in missed})
  /\ unheard' = unheard \cup TooOld
  /\ UNCHANGED <<counts, clock, journal, hidden, mark, rows, fresh>>

(* "journalctl unavailable (ignored)": nothing is found.                   *)
JournalFails ==
  /\ Fault
  /\ gateway = "reading"
  /\ gateway' = "reporting"
  /\ unheard' = unheard \cup (journal \ hidden)
  /\ UNCHANGED <<deaths, starts, clock, journal, hidden, mark, scan, rows, fresh, partial>>

(* The oldest rows are sent, and the lines of the others passed over.       *)
Batched == {r \in Reports : Cardinality({q \in Reports : q.line.at < r.line.at}) < Batch}
Beyond == {l \in scan.lines : \E r \in Reports \ Batched : BucketOf(r.line) = BucketOf(l)}

(* push_errors waits for the answer; an answer that is lost changes nothing. *)
Report ==
  /\ gateway = "reporting"
  /\ rows' = rows \cup Batched
  /\ fresh' = IF Reports = {} THEN fresh ELSE fresh \ (scan.lines \ Beyond)
  /\ unheard' = unheard \cup Beyond
  /\ gateway' = "marking"
  /\ UNCHANGED <<counts, clock, journal, hidden, mark, scan, partial>>

ReportLost ==
  /\ Fault
  /\ gateway = "reporting" /\ Reports # {}
  /\ unheard' = unheard \cup scan.lines
  /\ gateway' = "marking"
  /\ UNCHANGED <<deaths, starts, clock, journal, hidden, mark, scan, rows, fresh, partial>>

(* The watermark is the time the scan began, whatever came of the report.  *)
Marked ==
  /\ gateway = "marking"
  /\ gateway' = "running" /\ scan' = NoScan
  /\ mark' = scan.now
  /\ UNCHANGED <<counts, clock, journal, hidden, rows, fresh, unheard, partial>>

(* "could not persist watermark (ignored)".                                *)
MarkFails ==
  /\ Fault
  /\ gateway = "marking"
  /\ gateway' = "running" /\ scan' = NoScan
  /\ UNCHANGED <<deaths, starts, clock, journal, hidden, mark, rows, fresh, unheard, partial>>

Scan == Start \/ WatermarkLost \/ ReadJournal \/ JournalFails \/ Report \/ ReportLost \/ Marked \/ MarkFails
Outside == Tick \/ Stop \/ (\E l \in hidden : Surface(l))
Killed == \E kind \in {"oom", "crash"}, spread \in 0 .. Spread : Die(kind, spread)

ScanNext == Scan \/ Outside \/ Killed
ScanSpec == ScanInit /\ [][ScanNext]_scanVars /\ WF_scanVars(Scan)

-----------------------------------------------------------------------------
Line == [death : 1 .. MaxDeaths, no : 1 .. 3, kind : {"oom", "crash"}, at : 0 .. MaxTime]

(* The types of the variables.                                             *)
ScanTypeOK ==
  /\ clock \in 0 .. MaxTime /\ deaths \in 0 .. MaxDeaths
  /\ starts \in 0 .. MaxStarts /\ faults \in 0 .. MaxFaults /\ mark \in 0 .. MaxTime
  /\ journal \subseteq Line /\ hidden \subseteq journal /\ fresh \subseteq journal /\ unheard \subseteq journal
  /\ gateway \in {"down", "reading", "reporting", "marking", "running"}
  /\ scan.now \in 0 .. clock /\ scan.since <= clock /\ scan.lines \subseteq journal
  /\ gateway \in {"down", "running"} => scan = NoScan
  /\ \A r \in rows : r.line \in journal

(* A death that no scan will look at again is told: every line that lies    *)
(* before the window of all scans to come is in a bucket with a row, unless *)
(* it was passed over (unheard): the journal or the report failed on it, it  *)
(* was beyond the hundred rows of a report, or older than the six hours that *)
(* a scan without a watermark looks back.  So the watermark may be taken     *)
(* before the journal is read and lines may come late, and the gateway may  *)
(* be killed between any two steps of a scan.                               *)
NothingMissed ==
  \A l \in journal :
     mark # Never /\ l.at <= mark - Overlap
       => l \in unheard \/ \E r \in rows : BucketOf(r.line) = BucketOf(l)

(* "An OOM is never mis-filed as a plain crash": a death by the OOM killer   *)
(* is the row of a plain crash only if a scan saw a part of its bucket, or   *)
(* its burst went over into the next one.                                  *)
OomNamed ==
  \A r \in rows :
     r.line.kind = "crash" /\ (\E l \in Ooms(journal) : l.death = r.line.death /\ BucketOf(l) = BucketOf(r.line))
       => BucketOf(r.line) \in partial

(* "Runs on every boot and must not re-report the same kill each time": a   *)
(* report adds a row only for a bucket of which there is something new, or  *)
(* of which some scan did not see all the lines.                            *)
RescanAddsNothing ==
  [][\A r \in rows' \ rows :
       BucketOf(r.line) \in partial \/ \E l \in fresh : BucketOf(l) = BucketOf(r.line)]_scanVars

(* "Collapse events describing ONE death into a single row" (_dedupe): a     *)
(* death gets one row.                                                      *)
OneRowPerDeath == \A n \in 1 .. deaths : Cardinality({r \in rows : r.line.death = n}) <= 1
=============================================================================
