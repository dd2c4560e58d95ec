--------------------------- MODULE ErrorScan_proofs ---------------------------
(***************************************************************************)
(* Theorems about the post-mortem scan, for any bucket, overlap and journal, *)
(* any number of deaths, starts and failures.                               *)
(***************************************************************************)
EXTENDS ErrorScan, WellFoundedInduction, TLAPS

-----------------------------------------------------------------------------
(* The representative of a bucket                                          *)

(* A line is identified by its death and its place in the burst.            *)
Unique(lines) == \A l, m \in lines : l.death = m.death /\ l.no = m.no => l = m

LEMMA Smallest ==
  ASSUME NEW S \in SUBSET Nat, S # {}
  PROVE  \E n \in S : \A m \in S : n <= m
<1>1. PICK n \in S : \A m \in S : ~ (<<m, n>> \in OpToRel(<, Nat))
  BY NatLessThanWellFounded, WFMin
<1>2. ASSUME NEW m \in S PROVE n <= m
  <2>1. m \in Nat /\ n \in Nat OBVIOUS
  <2>2. ~(m < n) BY <1>1, <2>1 DEF OpToRel
  <2>3. QED BY <2>1, <2>2
<1>3. QED BY <1>2

LEMMA FirstIsOne ==
  ASSUME NEW S \in SUBSET Line, S # {}, Unique(S)
  PROVE  First(S) \in S
<1> DEFINE deathsOf == {l.death : l \in S}
<1>1. \A l \in S : l.death \in Nat /\ l.no \in Nat BY ScanAssumption DEF Line
<1>2. deathsOf \in SUBSET Nat /\ deathsOf # {} BY <1>1
<1>3. PICK d \in deathsOf : \A e \in deathsOf : d <= e BY <1>2, Smallest
<1> DEFINE T == {l \in S : l.death = d}
           nos == {l.no : l \in T}
<1>4. nos \in SUBSET Nat /\ nos # {} BY <1>1, <1>3
<1>5. PICK n \in nos : \A k \in nos : n <= k BY <1>4, Smallest
<1>6. PICK l \in S : l.death = d /\ l.no = n BY <1>5
<1>7. ASSUME NEW m \in S PROVE m = l \/ Before(l, m)
  <2>1. d <= m.death /\ d \in Nat /\ m.death \in Nat BY <1>1, <1>2, <1>3
  <2>2. CASE m.death = d
    <3>1. n <= m.no BY <1>5, <2>2
    <3>2. n \in Nat /\ m.no \in Nat BY <1>1, <1>4, <1>5
    <3>3. CASE m.no = n BY <1>6, <2>2, <3>3 DEF Unique
    <3>4. CASE n < m.no BY <1>6, <2>2, <3>4 DEF Before
    <3>5. QED BY <3>1, <3>2, <3>3, <3>4
  <2>3. CASE d < m.death BY <1>6, <2>3 DEF Before
  <2>4. QED BY <2>1, <2>2, <2>3
<1>8. QED BY <1>6, <1>7 DEF First

(* The representative of lines is one of them, and of the kind "oom" if any *)
(* of them is.                                                             *)
LEMMA RepresentativeIsOne ==
  ASSUME NEW S \in SUBSET Line, S # {}, Unique(S)
  PROVE  \E r \in S : Representative(S) = {r} /\ (Ooms(S) # {} => r.kind = "oom")
<1>1. CASE Ooms(S) = {} BY <1>1, FirstIsOne DEF Representative
<1>2. CASE Ooms(S) # {}
  <2>1. Ooms(S) \in SUBSET Line /\ Ooms(S) \subseteq S /\ Unique(Ooms(S)) BY DEF Ooms, Unique
  <2>2. First(Ooms(S)) \in Ooms(S) BY <1>2, <2>1, FirstIsOne
  <2>3. QED BY <1>2, <2>1, <2>2 DEF Representative, Ooms
<1>3. QED BY <1>1, <1>2

(* Lines of one bucket are less than a bucket apart.                       *)
LEMMA SameBucket ==
  ASSUME NEW l \in Line, NEW m \in Line, BucketOf(l) = BucketOf(m)
  PROVE  m.at < l.at + Bucket
<1>1. l.at \in Nat /\ m.at \in Nat /\ Bucket \in Nat /\ Bucket > 0 BY ScanAssumption DEF Line
<1>2. ASSUME NEW a \in Nat, NEW b \in Nat, NEW n \in Nat, n > 0, a \div n = b \div n
      PROVE  b < a + n
  BY <1>2
<1>3. l.at \div Bucket = m.at \div Bucket BY DEF BucketOf
<1>4. QED BY <1>1, <1>2, <1>3

-----------------------------------------------------------------------------
(* Types, and what the clock says of the lines                             *)

Scanning == {"reading", "reporting", "marking"}

Bounded ==
  /\ clock \in 0 .. MaxTime /\ deaths \in 0 .. MaxDeaths
  /\ starts \in 0 .. MaxStarts /\ faults \in 0 .. MaxFaults
  /\ mark \in 0 .. clock

Lines ==
  /\ journal \subseteq Line
  /\ hidden \subseteq journal /\ fresh \subseteq journal /\ unheard \subseteq journal
  /\ \A r \in rows : r.line \in journal
  /\ Unique(journal)
  /\ \A l \in journal : l.death <= deaths /\ l.at <= clock
  /\ \A l \in hidden : clock <= l.at + Late

Scans ==
  /\ gateway \in {"down", "running"} \cup Scanning
  /\ scan \in [now : Nat, since : Int, lines : SUBSET Line]
  /\ scan.now <= clock /\ scan.since <= clock /\ scan.lines \subseteq journal
  /\ gateway \in {"down", "running"} => scan = NoScan

ScanTypes == Bounded /\ Lines /\ Scans

LEMMA ScanTypesFit == ScanTypes => ScanTypeOK
BY ScanAssumption DEF ScanTypes, Bounded, Lines, Scans, Scanning, ScanTypeOK

LEMMA NoScanType == NoScan \in [now : Nat, since : Int, lines : SUBSET Line]
BY DEF NoScan

(* The lines of a bucket that a scan read, and their representative.        *)
InBucket(lines, b) == {l \in lines : BucketOf(l) = b}

LEMMA BucketRepresentative ==
  ASSUME Lines, NEW S \in SUBSET journal, NEW l \in S
  PROVE  \E r \in InBucket(S, BucketOf(l)) :
           /\ Representative(InBucket(S, BucketOf(l))) = {r}
           /\ Ooms(InBucket(S, BucketOf(l))) # {} => r.kind = "oom"
<1> DEFINE T == InBucket(S, BucketOf(l))
<1>1. l \in T BY DEF InBucket
<1>2. T \in SUBSET Line /\ Unique(T) BY DEF Lines, Unique, InBucket
<1>3. QED BY <1>1, <1>2, RepresentativeIsOne

(* A report has a row for each bucket that was read, unless its             *)
(* representative is outside of the window, and no other.                   *)
LEMMA ReportsAre ==
  ASSUME Lines, Scans
  PROVE  /\ \A r \in Reports :
              /\ r.line \in scan.lines /\ r.line.at > scan.since - Overlap
              /\ r = Row(r.line, scan.now)
              /\ Representative(InBucket(scan.lines, BucketOf(r.line))) = {r.line}
         /\ \A l \in scan.lines : \A r :
              /\ Representative(InBucket(scan.lines, BucketOf(l))) = {r}
              /\ r.at > scan.since - Overlap
              => Row(r, scan.now) \in Reports
<1>0. scan.lines \in SUBSET journal BY DEF Scans
<1>1. ASSUME NEW x \in Dedupe(scan.lines)
      PROVE  x \in scan.lines /\ Representative(InBucket(scan.lines, BucketOf(x))) = {x}
  <2>1. PICK l \in scan.lines : x \in Representative(InBucket(scan.lines, BucketOf(l)))
    BY <1>1 DEF Dedupe, InBucket
  <2>2. PICK r \in InBucket(scan.lines, BucketOf(l)) :
          Representative(InBucket(scan.lines, BucketOf(l))) = {r}
    BY <1>0, BucketRepresentative
  <2>3. x = r BY <2>1, <2>2
  <2>4. x \in scan.lines /\ BucketOf(x) = BucketOf(l) BY <2>2, <2>3 DEF InBucket
  <2>5. QED BY <2>2, <2>3, <2>4
<1>2. ASSUME NEW l \in scan.lines, NEW r, Representative(InBucket(scan.lines, BucketOf(l))) = {r}
      PROVE  r \in Dedupe(scan.lines)
  BY <1>2 DEF Dedupe, InBucket
<1>3. ASSUME NEW r \in Reports
      PROVE  \E x \in Dedupe(scan.lines) : x.at > scan.since - Overlap /\ r = Row(x, scan.now)
  BY <1>3 DEF Reports
<1>4. \A x : Row(x, scan.now).line = x BY DEF Row
<1>5. QED BY <1>1, <1>2, <1>3, <1>4 DEF Reports

(* A burst                                                                 *)
LEMMA BurstLines ==
  ASSUME Bounded, NEW kind \in {"oom", "crash"}, NEW spread \in 0 .. Spread,
         deaths < MaxDeaths, clock + spread <= MaxTime
  PROVE  /\ Burst(deaths + 1, kind, spread) \subseteq Line
         /\ Unique(Burst(deaths + 1, kind, spread))
         /\ \A l \in Burst(deaths + 1, kind, spread) :
              l.death = deaths + 1 /\ clock <= l.at /\ l.at <= clock + spread
         /\ \A l \in Burst(deaths + 1, kind, spread) : l.no = 3 => l.at = clock + spread
<1>1. clock \in 0 .. MaxTime /\ clock + spread \in 0 .. MaxTime /\ deaths + 1 \in 1 .. MaxDeaths
      /\ spread \in Nat /\ clock \in Nat
  BY ScanAssumption DEF Bounded
<1>2. QED BY <1>1 DEF Burst, Line, Unique

LEMMA DieTypes ==
  ASSUME ScanTypes, NEW kind \in {"oom", "crash"}, NEW spread \in 0 .. Spread, Die(kind, spread)
  PROVE  ScanTypes'
<1> USE DEF ScanTypes
<1> DEFINE B == Burst(deaths + 1, kind, spread)
<1>1. deaths < MaxDeaths /\ clock + spread <= MaxTime /\ clock' = clock + spread /\ deaths' = deaths + 1
  BY DEF Die
<1>2. /\ B \subseteq Line /\ Unique(B)
      /\ \A l \in B : l.death = deaths + 1 /\ clock <= l.at /\ l.at <= clock + spread
      /\ \A l \in B : l.no = 3 => l.at = clock + spread
  BY <1>1, BurstLines
<1>3. /\ journal' = journal \cup B /\ fresh' = fresh \cup B
      /\ hidden' \subseteq hidden \cup {l \in B : l.no = 3}
      /\ UNCHANGED <<starts, faults, mark, rows, unheard>>
      /\ \A l \in hidden : clock + spread <= l.at + Late
  BY <1>1 DEF Die
<1>4. clock \in Nat /\ deaths \in Nat /\ spread \in Nat /\ mark \in Nat
      /\ MaxTime \in Nat /\ MaxDeaths \in Nat /\ Late \in Nat
  BY ScanAssumption DEF Bounded
<1>5. Bounded' BY <1>1, <1>3, <1>4 DEF Bounded
<1> HIDE DEF B
<1>6. Unique(journal')
  <2>1. \A l \in journal : l.death <= deaths /\ l.death \in Nat BY <1>4 DEF Lines, Line
  <2>2. \A l \in journal, m \in B : l.death # m.death BY <1>2, <1>4, <2>1
  <2>3. QED BY <1>2, <1>3, <2>2 DEF Lines, Unique
<1>7. \A l \in journal' : l.death <= deaths' /\ l.at <= clock'
  <2>1. \A l \in journal : l.death \in Nat /\ l.at \in Nat /\ l.death <= deaths /\ l.at <= clock
    BY ScanAssumption DEF Lines, Line
  <2>2. QED BY <1>1, <1>2, <1>3, <1>4, <2>1
<1>8. \A l \in hidden' : clock' <= l.at + Late
  <2>1. \A l \in B : l.no = 3 => clock + spread <= l.at + Late BY <1>2, <1>4
  <2>2. QED BY <1>1, <1>3, <2>1
<1>9. Lines' BY <1>2, <1>3, <1>6, <1>7, <1>8 DEF Lines
<1>10. gateway' = "down" /\ scan' = NoScan BY DEF Die
<1>11. Scans' BY <1>1, <1>4, <1>10, NoScanType DEF Scans, NoScan, Scanning
<1>12. QED BY <1>5, <1>9, <1>11

(* The other steps leave the lines alone.                                  *)
LEMMA SameLines ==
  ASSUME Lines, UNCHANGED <<journal, deaths>>, hidden' \subseteq hidden, fresh' \subseteq fresh,
         unheard' \subseteq journal, \A r \in rows' : r.line \in journal, clock' \in Nat, clock <= clock',
         clock \in Nat, \A l \in hidden' : clock' <= l.at + Late
  PROVE  Lines'
<1>1. \A l \in journal : l.at \in Nat /\ l.at <= clock BY ScanAssumption DEF Lines, Line
<1>2. \A l \in journal' : l.at <= clock' BY <1>1
<1>3. QED BY <1>2 DEF Lines, Unique

LEMMA TimeTypes ==
  ASSUME ScanTypes, Tick \/ Stop \/ \E l \in hidden : Surface(l)
  PROVE  ScanTypes'
<1> USE DEF ScanTypes
<1>1. clock \in Nat /\ MaxTime \in Nat BY ScanAssumption DEF Bounded
<1>2. unheard \subseteq journal /\ \A r \in rows : r.line \in journal BY DEF Lines
<1>3. \A l \in hidden : clock <= l.at + Late /\ l.at + Late \in Nat
  BY ScanAssumption DEF Lines, Line
<1>4. CASE Tick
  <2>1. /\ clock' = clock + 1 /\ clock < MaxTime
        /\ UNCHANGED <<counts, journal, hidden, gateway, mark, scan, rows, fresh, unheard>>
        /\ \A l \in hidden : clock < l.at + Late
    BY <1>4 DEF Tick
  <2>2. Bounded' BY <1>1, <2>1 DEF Bounded, counts
  <2>3. Lines' BY <1>1, <1>2, <1>3, <2>1, SameLines DEF counts
  <2>4. Scans' BY <1>1, <2>1 DEF Scans, Scanning
  <2>5. QED BY <2>2, <2>3, <2>4
<1>5. CASE Stop
  <2>1. /\ gateway = "running" /\ gateway' = "down"
        /\ UNCHANGED <<counts, clock, journal, hidden, mark, scan, rows, fresh, unheard>>
    BY <1>5 DEF Stop
  <2>2. Bounded' BY <2>1 DEF Bounded, counts
  <2>3. Lines' BY <1>1, <1>2, <1>3, <2>1, SameLines DEF counts
  <2>4. Scans' BY <2>1 DEF Scans, Scanning
  <2>5. QED BY <2>2, <2>3, <2>4
<1>6. ASSUME NEW l \in hidden, Surface(l) PROVE ScanTypes'
  <2>1. /\ hidden' \subseteq hidden
        /\ UNCHANGED <<counts, clock, journal, gateway, mark, scan, rows, fresh, unheard>>
    BY <1>6 DEF Surface
  <2>2. Bounded' BY <2>1 DEF Bounded, counts
  <2>3. Lines' BY <1>1, <1>2, <1>3, <2>1, SameLines DEF counts
  <2>4. Scans' BY <2>1 DEF Scans, Scanning
  <2>5. QED BY <2>2, <2>3, <2>4
<1>7. QED BY <1>4, <1>5, <1>6

LEMMA StartTypes ==
  ASSUME ScanTypes, Start \/ WatermarkLost
  PROVE  ScanTypes'
<1> USE DEF ScanTypes
<1>1. clock \in Nat /\ mark \in Nat /\ mark <= clock /\ Lookback \in Nat /\ Never \in Nat /\ MaxFaults \in Nat
  BY ScanAssumption DEF Bounded, Never
<1>2. PICK found \in {mark, Never} : Begin(found, clock - Lookback) BY DEF Start, WatermarkLost
<1>3. faults' \in 0 .. MaxFaults
  BY <1>1 DEF Start, WatermarkLost, Fault, Bounded
<1>4. /\ gateway' = "reading" /\ starts < MaxStarts /\ starts' = starts + 1
      /\ scan' = [now |-> clock, lines |-> {}, since |-> IF found = Never THEN clock - Lookback ELSE found]
      /\ UNCHANGED <<deaths, clock, journal, hidden, mark, rows, fresh, unheard>>
  BY <1>2 DEF Begin
<1>5. Bounded' BY <1>3, <1>4, ScanAssumption DEF Bounded
<1>6. Lines' BY <1>4 DEF Lines, Unique
<1> DEFINE since == IF found = Never THEN clock - Lookback ELSE found
<1>7. since \in Int /\ since <= clock BY <1>1, <1>2
<1> HIDE DEF since
<1>8. scan' = [now |-> clock, lines |-> {}, since |-> since] BY <1>4 DEF since
<1>9. Scans' BY <1>1, <1>4, <1>7, <1>8 DEF Scans, Scanning
<1>10. QED BY <1>5, <1>6, <1>9

LEMMA ReadTypes ==
  ASSUME ScanTypes, ReadJournal \/ JournalFails
  PROVE  ScanTypes'
<1> USE DEF ScanTypes
<1>1. /\ gateway' = "reporting" /\ UNCHANGED <<deaths, starts, clock, journal, hidden, mark, rows, fresh>>
      /\ unheard' \subseteq journal
  BY DEF ReadJournal, TooOld, JournalFails, counts, Lines
<1>2. faults' \in 0 .. MaxFaults
  BY ScanAssumption DEF ReadJournal, JournalFails, Fault, Bounded, counts
<1>3. \E S \in SUBSET journal : scan' = [scan EXCEPT !.lines = S]
  <2>1. CASE ReadJournal BY <2>1 DEF ReadJournal
  <2>2. CASE JournalFails
    <3>1. scan' = [scan EXCEPT !.lines = scan.lines] BY <2>2 DEF JournalFails, Scans
    <3>2. QED BY <3>1 DEF Scans
  <2>3. QED BY <2>1, <2>2
<1>4. Bounded' BY <1>1, <1>2 DEF Bounded
<1>5. Lines' BY <1>1 DEF Lines, Unique
<1>6. journal \subseteq Line BY DEF Lines
<1>7. Scans' BY <1>1, <1>3, <1>6 DEF Scans, Scanning
<1>8. QED BY <1>4, <1>5, <1>7

LEMMA ReportTypes ==
  ASSUME ScanTypes, Report \/ ReportLost
  PROVE  ScanTypes'
<1> USE DEF ScanTypes
<1>1. /\ gateway' = "marking" /\ UNCHANGED <<deaths, starts, clock, journal, hidden, mark, scan>>
      /\ fresh' \subseteq fresh /\ unheard' \subseteq journal
  BY DEF Report, Beyond, ReportLost, counts, Lines, Scans
<1>2. faults' \in 0 .. MaxFaults
  BY ScanAssumption DEF Report, ReportLost, Fault, Bounded, counts
<1>3. \A r \in rows' : r.line \in journal
  <2>1. \A r \in Reports : r.line \in journal BY ReportsAre DEF Scans
  <2>2. rows' \subseteq rows \cup Reports BY DEF Report, Batched, ReportLost
  <2>3. QED BY <2>1, <2>2 DEF Lines
<1>4. Bounded' BY <1>1, <1>2 DEF Bounded
<1>5. Lines' BY <1>1, <1>3 DEF Lines, Unique
<1>6. Scans' BY <1>1 DEF Scans, Scanning
<1>7. QED BY <1>4, <1>5, <1>6

LEMMA MarkTypes ==
  ASSUME ScanTypes, Marked \/ MarkFails
  PROVE  ScanTypes'
<1> USE DEF ScanTypes
<1>1. /\ gateway' = "running" /\ scan' = NoScan
      /\ UNCHANGED <<deaths, starts, clock, journal, hidden, rows, fresh, unheard>>
      /\ mark' \in {mark, scan.now}
  BY DEF Marked, MarkFails, counts
<1>2. faults' \in 0 .. MaxFaults
  BY ScanAssumption DEF Marked, MarkFails, Fault, Bounded, counts
<1>3. mark' \in 0 .. clock /\ clock \in Nat BY <1>1, ScanAssumption DEF Bounded, Scans
<1>4. Bounded' BY <1>1, <1>2, <1>3 DEF Bounded
<1>5. Lines' BY <1>1 DEF Lines, Unique
<1>6. Scans' BY <1>1, <1>3, NoScanType DEF Scans, Scanning, NoScan
<1>7. QED BY <1>4, <1>5, <1>6

LEMMA TypesStep == ScanTypes /\ [ScanNext]_scanVars => ScanTypes'
<1> SUFFICES ASSUME ScanTypes, [ScanNext]_scanVars PROVE ScanTypes'
  OBVIOUS
<1>1. CASE UNCHANGED scanVars BY <1>1 DEF scanVars, ScanTypes, Bounded, Lines, Unique, Scans
<1>2. CASE Scan BY <1>2, StartTypes, ReadTypes, ReportTypes, MarkTypes DEF Scan
<1>3. CASE Outside BY <1>3, TimeTypes DEF Outside
<1>4. CASE Killed BY <1>4, DieTypes DEF Killed
<1>5. QED BY <1>1, <1>2, <1>3, <1>4 DEF ScanNext

LEMMA TypesStart == ScanInit => ScanTypes
<1> SUFFICES ASSUME ScanInit PROVE ScanTypes
  OBVIOUS
<1>1. Bounded BY ScanAssumption DEF ScanInit, Bounded, Never
<1>2. Lines BY DEF ScanInit, Lines, Unique
<1>3. Scans BY NoScanType DEF ScanInit, Scans, NoScan, Scanning
<1>4. QED BY <1>1, <1>2, <1>3 DEF ScanTypes

-----------------------------------------------------------------------------
(* What no scan will read again has been told.                             *)

Told(l) == l \in unheard \/ \E r \in rows : BucketOf(r.line) = BucketOf(l)

Mates(l) == InBucket(journal, BucketOf(l))

(* The whole bucket of such a line: the line that a later scan still reads  *)
(* may have a representative that it does not.                             *)
Behind ==
  mark # Never =>
    \A l \in journal : l.at <= mark - Overlap => \A m \in Mates(l) : Told(m)

Covered(l) == \E m \in Mates(l) : m.at <= scan.since - Overlap

Settled(l) == l.at + Late < scan.now

ReadAll ==
  /\ gateway = "reporting" => \A l \in journal : Covered(l) => Told(l)
  /\ gateway = "reporting" => \A l \in journal : Settled(l) => l \in scan.lines \/ Told(l)
  /\ gateway = "marking" => \A l \in journal : Settled(l) => Told(l)

SeenInv == Behind /\ ReadAll

LEMMA Numbers ==
  ASSUME ScanTypes
  PROVE  /\ {Bucket, Overlap, Lookback, MaxTime, Late} \subseteq Nat /\ Overlap > 0 /\ Late + Bucket <= Overlap
         /\ clock \in Nat /\ clock <= MaxTime /\ mark \in Nat /\ mark <= clock
         /\ scan.now \in Nat /\ scan.now <= clock /\ scan.since \in Int
         /\ \A l \in journal : l \in Line /\ l.at \in Nat /\ l.at <= clock
BY ScanAssumption DEF ScanTypes, Bounded, Lines, Scans, Line

LEMMA SinceIsPast == ScanTypes => scan.since <= clock
BY DEF ScanTypes, Scans

LEMMA MatesAre ==
  ASSUME ScanTypes, NEW l \in journal
  PROVE  l \in Mates(l) /\ \A m \in Mates(l) : m \in journal /\ m.at < l.at + Bucket
<1>1. \A m \in Mates(l) : m \in journal /\ BucketOf(m) = BucketOf(l) BY DEF Mates, InBucket
<1>2. QED BY <1>1, Numbers, SameBucket DEF Mates, InBucket

(* What was told stays told.                                               *)
LEMMA BehindStays ==
  ASSUME Behind, UNCHANGED <<journal, mark>>, unheard \subseteq unheard', rows \subseteq rows'
  PROVE  Behind'
<1>1. ASSUME NEW l \in journal, Told(l) PROVE Told(l)' BY <1>1 DEF Told
<1>2. QED BY <1>1 DEF Behind, Mates, InBucket

LEMMA DieSeen ==
  ASSUME ScanTypes, SeenInv, NEW kind \in {"oom", "crash"}, NEW spread \in 0 .. Spread, Die(kind, spread)
  PROVE  SeenInv'
<1> DEFINE B == Burst(deaths + 1, kind, spread)
<1>1. deaths < MaxDeaths /\ clock + spread <= MaxTime /\ journal' = journal \cup B
      /\ UNCHANGED <<mark, unheard, rows>> /\ gateway' = "down"
  BY DEF Die
<1>2. \A m \in B : m \in Line /\ m.at \in Nat /\ clock <= m.at
  BY <1>1, BurstLines, ScanAssumption DEF ScanTypes, Line
<1> HIDE DEF B
<1>3. ASSUME mark # Never, NEW l \in journal', l.at <= mark - Overlap,
             NEW m \in journal', BucketOf(m) = BucketOf(l)
      PROVE  Told(m)
  <2>1. l \in journal BY <1>1, <1>2, <1>3, Numbers
  <2>2. m \in Line BY <1>1, <1>2, Numbers
  <2>3. m.at < l.at + Bucket BY <1>3, <2>1, <2>2, SameBucket, Numbers
  <2>4. m \in journal BY <1>1, <1>2, <1>3, <2>1, <2>3, Numbers
  <2>5. QED BY <1>3, <2>1, <2>4 DEF SeenInv, Behind, Mates, InBucket
<1>4. Behind' BY <1>1, <1>3 DEF Behind, Mates, InBucket, Told
<1>5. ReadAll' BY <1>1 DEF ReadAll
<1>6. QED BY <1>4, <1>5 DEF SeenInv

LEMMA TimeSeen ==
  ASSUME SeenInv, Tick \/ Stop \/ (\E l \in hidden : Surface(l)) \/ UNCHANGED scanVars
  PROVE  SeenInv'
<1>1. UNCHANGED <<journal, mark, scan, rows, unheard>> /\ gateway' \in {gateway, "down"}
  BY DEF Tick, Stop, Surface, scanVars
<1>2. QED BY <1>1 DEF SeenInv, Behind, ReadAll, Told, Covered, Mates, InBucket, Settled

LEMMA StartSeen ==
  ASSUME SeenInv, Start \/ WatermarkLost
  PROVE  SeenInv'
<1>1. PICK found \in {mark, Never} : Begin(found, clock - Lookback) BY DEF Start, WatermarkLost
<1>2. /\ gateway' = "reading" /\ UNCHANGED <<journal, mark, rows, unheard>>
  BY <1>1 DEF Begin
<1>3. Behind' BY <1>2, BehindStays DEF SeenInv
<1>4. ReadAll' BY <1>2 DEF ReadAll
<1>5. QED BY <1>3, <1>4 DEF SeenInv

LEMMA ReadSeen ==
  ASSUME ScanTypes, SeenInv, ReadJournal \/ JournalFails
  PROVE  SeenInv'
<1>1. /\ gateway = "reading" /\ gateway' = "reporting" /\ UNCHANGED <<journal, hidden, mark, rows>>
      /\ unheard \subseteq unheard'
  BY DEF ReadJournal, JournalFails, counts
<1>2. scan'.now = scan.now /\ scan'.since = scan.since
  BY DEF ReadJournal, JournalFails, ScanTypes, Scans
<1>3. Behind' BY <1>1, BehindStays DEF SeenInv
<1>4. ASSUME NEW l \in journal, Covered(l) PROVE Told(l)'
  <2>1. PICK k \in Mates(l) : k.at <= scan.since - Overlap BY <1>4 DEF Covered
  <2>2. k \in journal /\ BucketOf(k) = BucketOf(l) /\ l \in Mates(k) BY <2>1 DEF Mates, InBucket
  <2>3. CASE mark # Never /\ k.at <= mark - Overlap
    <3>1. Told(l) BY <2>2, <2>3 DEF SeenInv, Behind
    <3>2. QED BY <1>1, <3>1 DEF Told
  <2>4. CASE mark = Never \/ k.at > mark - Overlap
    <3>1. CASE ReadJournal
      <4>1. l \in TooOld BY <1>4, <2>1, <2>2, <2>4 DEF TooOld
      <4>2. QED BY <3>1, <4>1 DEF ReadJournal, Told
    <3>2. CASE JournalFails
      <4>1. l.at < k.at + Bucket BY <2>2, MatesAre
      <4>2. l.at + Late < clock BY <2>1, <2>2, <4>1, Numbers, SinceIsPast
      <4>3. l \notin hidden BY <4>2, Numbers DEF ScanTypes, Lines
      <4>4. QED BY <3>2, <4>3 DEF JournalFails, Told
    <3>3. QED BY <3>1, <3>2
  <2>5. QED BY <2>2, <2>3, <2>4, Numbers
<1>5. ASSUME NEW l \in journal, Settled(l)
      PROVE  l \in scan'.lines \/ Told(l)'
  <2>1. l \notin hidden BY <1>5, Numbers DEF Settled, ScanTypes, Lines
  <2>2. CASE ReadJournal
    <3>1. scan'.lines = {k \in journal \ hidden : k.at >= From(scan.since)}
      BY <2>2 DEF ReadJournal, ScanTypes, Scans
    <3>2. CASE l.at >= From(scan.since) BY <2>1, <3>1, <3>2
    <3>3. CASE ~(l.at >= From(scan.since))
      <4>1. l.at <= scan.since - Overlap BY <3>3, Numbers DEF From
      <4>2. Covered(l) BY <4>1, MatesAre DEF Covered
      <4>3. QED BY <1>4, <4>2
    <3>4. QED BY <3>2, <3>3
  <2>3. CASE JournalFails BY <2>1, <2>3 DEF JournalFails, Told
  <2>4. QED BY <2>2, <2>3
<1>6. ReadAll' BY <1>1, <1>2, <1>4, <1>5 DEF ReadAll, Settled, Covered, Mates, InBucket
<1>7. QED BY <1>3, <1>6 DEF SeenInv

LEMMA ReportSeen ==
  ASSUME ScanTypes, SeenInv, Report \/ ReportLost
  PROVE  SeenInv'
<1>1. /\ gateway = "reporting" /\ gateway' = "marking" /\ UNCHANGED <<journal, mark, scan>>
      /\ unheard \subseteq unheard' /\ rows \subseteq rows'
  BY DEF Report, ReportLost
<1>2. Behind' BY <1>1, BehindStays DEF SeenInv
<1>3. ASSUME NEW l \in journal, Told(l) PROVE Told(l)' BY <1>1, <1>3 DEF Told
<1>4. ASSUME NEW l \in journal, l \in scan.lines PROVE Told(l)'
  <2>1. CASE ReportLost BY <1>4, <2>1 DEF ReportLost, Told
  <2>2. CASE Report
    <3>1. Lines /\ scan.lines \in SUBSET journal /\ Scans BY DEF ScanTypes, Scans
    <3>2. PICK r \in InBucket(scan.lines, BucketOf(l)) :
            Representative(InBucket(scan.lines, BucketOf(l))) = {r}
      BY <1>4, <3>1, BucketRepresentative
    <3>3. r \in scan.lines /\ BucketOf(r) = BucketOf(l) /\ r \in journal BY <3>1, <3>2 DEF InBucket
    <3>4. CASE r.at > scan.since - Overlap
      <4>1. Row(r, scan.now) \in Reports BY <1>4, <3>1, <3>2, <3>4, ReportsAre
      <4>2. Row(r, scan.now).line = r BY DEF Row
      <4>3. CASE Row(r, scan.now) \in Batched BY <2>2, <3>3, <4>2, <4>3 DEF Report, Told
      <4>4. CASE Row(r, scan.now) \notin Batched
        <5>1. l \in Beyond BY <1>4, <3>3, <4>1, <4>2, <4>4 DEF Beyond
        <5>2. QED BY <2>2, <5>1 DEF Report, Told
      <4>5. QED BY <4>3, <4>4
    <3>5. CASE ~(r.at > scan.since - Overlap)
      <4>1. r.at <= scan.since - Overlap BY <3>3, <3>5, Numbers
      <4>2. Covered(l) BY <3>3, <4>1 DEF Covered, Mates, InBucket
      <4>3. QED BY <1>1, <1>3, <4>2 DEF SeenInv, ReadAll
    <3>6. QED BY <3>4, <3>5
  <2>3. QED BY <2>1, <2>2
<1>5. ReadAll' BY <1>1, <1>3, <1>4 DEF SeenInv, ReadAll, Settled
<1>6. QED BY <1>2, <1>5 DEF SeenInv

LEMMA MarkSeen ==
  ASSUME ScanTypes, SeenInv, Marked \/ MarkFails
  PROVE  SeenInv'
<1>1. gateway = "marking" /\ gateway' = "running" /\ UNCHANGED <<journal, rows, unheard>>
  BY DEF Marked, MarkFails
<1>2. CASE MarkFails
  <2>1. Behind' BY <1>1, <1>2, BehindStays DEF MarkFails, SeenInv
  <2>2. QED BY <1>1, <2>1 DEF SeenInv, ReadAll
<1>3. CASE Marked
  <2>1. mark' = scan.now BY <1>3 DEF Marked
  <2>2. ASSUME NEW l \in journal, l.at <= scan.now - Overlap, NEW m \in Mates(l) PROVE Told(m)
    <3>1. m \in journal /\ m.at < l.at + Bucket /\ BucketOf(m) = BucketOf(l)
      BY MatesAre DEF Mates, InBucket
    <3>2. Settled(m) BY <2>2, <3>1, Numbers DEF Settled
    <3>3. QED BY <1>1, <3>1, <3>2 DEF SeenInv, ReadAll
  <2>3. Behind' BY <1>1, <2>1, <2>2 DEF Behind, Mates, InBucket, Told
  <2>4. QED BY <1>1, <2>3 DEF SeenInv, ReadAll
<1>4. QED BY <1>2, <1>3

LEMMA SeenStep == ScanTypes /\ SeenInv /\ [ScanNext]_scanVars => SeenInv'
<1> SUFFICES ASSUME ScanTypes, SeenInv, [ScanNext]_scanVars PROVE SeenInv'
  OBVIOUS
<1>1. CASE UNCHANGED scanVars BY <1>1, TimeSeen
<1>2. CASE Scan BY <1>2, StartSeen, ReadSeen, ReportSeen, MarkSeen DEF Scan
<1>3. CASE Outside BY <1>3, TimeSeen DEF Outside
<1>4. CASE Killed BY <1>4, DieSeen DEF Killed
<1>5. QED BY <1>1, <1>2, <1>3, <1>4 DEF ScanNext

LEMMA SeenStart == ScanInit => SeenInv
BY DEF ScanInit, SeenInv, Behind, ReadAll

LEMMA SeenEnough == ScanTypes /\ SeenInv => NothingMissed
<1> SUFFICES ASSUME ScanTypes, SeenInv, NEW l \in journal, mark # Never, l.at <= mark - Overlap
             PROVE  Told(l)
  BY DEF NothingMissed, Told
<1>1. QED BY MatesAre DEF SeenInv, Behind

-----------------------------------------------------------------------------
(* A bucket of which no scan saw a part is one whose report speaks of all    *)
(* its lines.                                                              *)

WholeReads ==
  /\ gateway = "reading" => scan.lines = {}
  /\ gateway = "reporting" =>
       \A l \in scan.lines : BucketOf(l) \notin partial =>
         \A m \in Mates(l) : m \in scan.lines /\ m.at > scan.since - Overlap

(* Such a bucket, with nothing in it that is new, has its row.              *)
HasRow ==
  \A l \in journal : BucketOf(l) \notin partial /\ Mates(l) \cap fresh = {} =>
    \E r \in Mates(l) : Representative(Mates(l)) = {r} /\ Row(r, 0) \in rows

ToldInv == WholeReads /\ HasRow /\ OomNamed

(* What a report says of such a bucket.                                    *)
LEMMA WholeReport ==
  ASSUME ScanTypes, WholeReads, gateway = "reporting", NEW l \in scan.lines, BucketOf(l) \notin partial
  PROVE  /\ InBucket(scan.lines, BucketOf(l)) = Mates(l)
         /\ \E r \in Mates(l) :
              /\ Representative(Mates(l)) = {r} /\ Row(r, 0) \in Reports
              /\ Ooms(Mates(l)) # {} => r.kind = "oom"
<1>1. Lines /\ Scans /\ scan.lines \in SUBSET journal BY DEF ScanTypes, Scans
<1>2. InBucket(scan.lines, BucketOf(l)) = Mates(l) BY <1>1 DEF WholeReads, Mates, InBucket
<1>3. PICK r \in Mates(l) : Representative(Mates(l)) = {r} /\ (Ooms(Mates(l)) # {} => r.kind = "oom")
  BY <1>1, <1>2, BucketRepresentative
<1>4. r.at > scan.since - Overlap BY <1>3 DEF WholeReads
<1>5. Row(r, scan.now) \in Reports BY <1>1, <1>2, <1>3, <1>4, ReportsAre
<1>6. Row(r, scan.now) = Row(r, 0) BY DEF Row
<1>7. QED BY <1>2, <1>3, <1>5, <1>6

(* A report whose bucket was seen whole is the one above.                   *)
LEMMA ReportOfWhole ==
  ASSUME ScanTypes, WholeReads, gateway = "reporting", NEW r \in Reports, BucketOf(r.line) \notin partial
  PROVE  /\ r.line \in scan.lines /\ Representative(Mates(r.line)) = {r.line} /\ r = Row(r.line, 0)
         /\ Ooms(Mates(r.line)) # {} => r.line.kind = "oom"
<1>1. /\ r.line \in scan.lines /\ r = Row(r.line, scan.now)
      /\ Representative(InBucket(scan.lines, BucketOf(r.line))) = {r.line}
  BY ReportsAre DEF ScanTypes
<1>2. PICK k \in Mates(r.line) : /\ InBucket(scan.lines, BucketOf(r.line)) = Mates(r.line)
                                 /\ Representative(Mates(r.line)) = {k}
                                 /\ Ooms(Mates(r.line)) # {} => k.kind = "oom"
  BY <1>1, WholeReport
<1>3. k = r.line BY <1>1, <1>2
<1>4. r = Row(r.line, 0) BY <1>1 DEF Row
<1>5. QED BY <1>1, <1>2, <1>3, <1>4

LEMMA DieTold ==
  ASSUME ScanTypes, ToldInv, NEW kind \in {"oom", "crash"}, NEW spread \in 0 .. Spread, Die(kind, spread)
  PROVE  ToldInv'
<1> DEFINE B == Burst(deaths + 1, kind, spread)
<1>1. deaths < MaxDeaths /\ clock + spread <= MaxTime /\ journal' = journal \cup B /\ fresh' = fresh \cup B
      /\ UNCHANGED <<rows, partial>> /\ gateway' = "down"
  BY DEF Die
<1>2. \A m \in B : m.death = deaths + 1 BY <1>1, BurstLines DEF ScanTypes
<1> HIDE DEF B
<1>3. WholeReads' BY <1>1 DEF WholeReads
<1>4. ASSUME NEW l \in journal', BucketOf(l) \notin partial, Mates(l)' \cap fresh' = {}
      PROVE  \E r \in Mates(l)' : Representative(Mates(l)') = {r} /\ Row(r, 0) \in rows
  <2>1. Mates(l)' \cap B = {} BY <1>1, <1>4
  <2>2. Mates(l)' = Mates(l) BY <1>1, <2>1 DEF Mates, InBucket
  <2>3. l \in journal BY <1>1, <2>1 DEF Mates, InBucket
  <2>4. Mates(l) \cap fresh = {} BY <1>1, <1>4, <2>2
  <2>5. QED BY <1>4, <2>2, <2>3, <2>4 DEF ToldInv, HasRow
<1>5. HasRow' BY <1>1, <1>4 DEF HasRow
<1>6. \A r \in rows : r.line.death <= deaths /\ r.line.death \in Nat /\ deaths \in Nat
  BY ScanAssumption DEF ScanTypes, Bounded, Lines, Line
<1>7. \A r \in rows, l \in B : l.death # r.line.death BY <1>2, <1>6
<1>8. OomNamed' BY <1>1, <1>7 DEF ToldInv, OomNamed, Ooms
<1>9. QED BY <1>3, <1>5, <1>8 DEF ToldInv

LEMMA ReadTold ==
  ASSUME ScanTypes, ToldInv, ReadJournal \/ JournalFails
  PROVE  ToldInv'
<1>1. /\ gateway = "reading" /\ gateway' = "reporting" /\ UNCHANGED <<journal, rows, fresh>>
      /\ partial \subseteq partial'
  BY DEF ReadJournal, JournalFails, counts
<1>2. HasRow' BY <1>1 DEF ToldInv, HasRow, Mates, InBucket
<1>3. OomNamed' BY <1>1 DEF ToldInv, OomNamed
<1>4. CASE JournalFails
  <2>1. scan'.lines = {} BY <1>4 DEF JournalFails, ToldInv, WholeReads
  <2>2. QED BY <1>1, <1>2, <1>3, <2>1 DEF ToldInv, WholeReads
<1>5. CASE ReadJournal
  <2> DEFINE read == {l \in journal \ hidden : l.at >= From(scan.since)}
             missed == {l \in journal : l \in hidden \/ l.at <= scan.since - Overlap}
  <2>1. /\ scan'.lines = read /\ scan'.since = scan.since
        /\ partial' = partial \cup ({BucketOf(l) : l \in read} \cap {BucketOf(l) : l \in missed})
    BY <1>5 DEF ReadJournal, ScanTypes, Scans
  <2>2. ASSUME NEW m \in journal, m \notin missed PROVE m \in read /\ m.at > scan.since - Overlap
    <3>1. m \notin hidden /\ m.at > scan.since - Overlap BY <2>2, Numbers
    <3>2. m.at >= From(scan.since) BY <3>1, Numbers DEF From
    <3>3. QED BY <3>1, <3>2
  <2> HIDE DEF read, missed
  <2>3. ASSUME NEW l \in read, BucketOf(l) \notin partial', NEW m \in Mates(l)
        PROVE  m \in read /\ m.at > scan.since - Overlap
    <3>1. m \in journal /\ BucketOf(m) = BucketOf(l) BY <2>3 DEF Mates, InBucket
    <3>2. m \notin missed BY <2>1, <2>3, <3>1
    <3>3. QED BY <2>2, <3>1, <3>2
  <2>4. WholeReads' BY <1>1, <2>1, <2>3 DEF WholeReads, Mates, InBucket
  <2>5. QED BY <1>2, <1>3, <2>4 DEF ToldInv
<1>6. QED BY <1>4, <1>5

LEMMA ReportTold ==
  ASSUME ScanTypes, ToldInv, Report
  PROVE  ToldInv'
<1>1. /\ gateway = "reporting" /\ gateway' = "marking" /\ UNCHANGED <<journal, partial, scan>>
      /\ rows' = rows \cup Batched /\ Batched \subseteq Reports
      /\ fresh \ (scan.lines \ Beyond) \subseteq fresh'
  BY DEF Report, Batched
<1>2. WholeReads' BY <1>1 DEF WholeReads
<1>3. ASSUME NEW l \in journal, BucketOf(l) \notin partial, Mates(l) \cap fresh' = {}
      PROVE  \E r \in Mates(l) : Representative(Mates(l)) = {r} /\ Row(r, 0) \in rows'
  <2>1. CASE Mates(l) \cap fresh = {} BY <1>1, <1>3, <2>1 DEF ToldInv, HasRow
  <2>2. CASE Mates(l) \cap fresh # {}
    <3>1. PICK m \in Mates(l) : m \in scan.lines /\ m \notin Beyond BY <1>1, <1>3, <2>2
    <3>2. BucketOf(m) = BucketOf(l) /\ Mates(m) = Mates(l) BY <3>1 DEF Mates, InBucket
    <3>3. PICK r \in Mates(m) : Representative(Mates(m)) = {r} /\ Row(r, 0) \in Reports
      BY <1>1, <1>3, <3>1, <3>2, WholeReport DEF ToldInv
    <3>4. BucketOf(Row(r, 0).line) = BucketOf(m) BY <3>3 DEF Row, Mates, InBucket
    <3>5. Row(r, 0) \in Batched BY <3>1, <3>3, <3>4 DEF Beyond
    <3>6. QED BY <1>1, <3>2, <3>3, <3>5
  <2>3. QED BY <2>1, <2>2
<1>4. HasRow' BY <1>1, <1>3 DEF HasRow, Mates, InBucket
<1>5. ASSUME NEW r \in Reports, r.line.kind = "crash", BucketOf(r.line) \notin partial,
             NEW l \in Ooms(journal), BucketOf(l) = BucketOf(r.line)
      PROVE  FALSE
  <2>1. l \in Ooms(Mates(r.line)) BY <1>5 DEF Ooms, Mates, InBucket
  <2>2. r.line.kind = "oom" BY <1>1, <1>5, <2>1, ReportOfWhole DEF ToldInv
  <2>3. QED BY <1>5, <2>2
<1>6. OomNamed' BY <1>1, <1>5 DEF ToldInv, OomNamed
<1>7. QED BY <1>2, <1>4, <1>6 DEF ToldInv

LEMMA OtherTold ==
  ASSUME ToldInv,
         \/ Start \/ WatermarkLost \/ ReportLost \/ Marked \/ MarkFails
         \/ Tick \/ Stop \/ (\E l \in hidden : Surface(l)) \/ UNCHANGED scanVars
  PROVE  ToldInv'
<1>1. UNCHANGED <<journal, rows, fresh, partial>>
  BY DEF Start, WatermarkLost, Begin, ReportLost, Marked, MarkFails, Tick, Stop, Surface, scanVars
<1>2. \/ gateway' = "reading" /\ scan'.lines = {}
      \/ gateway' \in {"marking", "running", "down"}
      \/ UNCHANGED <<gateway, scan>>
  BY DEF Start, WatermarkLost, Begin, ReportLost, Marked, MarkFails, Tick, Stop, Surface, scanVars
<1>3. WholeReads' BY <1>1, <1>2 DEF ToldInv, WholeReads, Mates, InBucket
<1>4. HasRow' BY <1>1 DEF ToldInv, HasRow, Mates, InBucket
<1>5. OomNamed' BY <1>1 DEF ToldInv, OomNamed
<1>6. QED BY <1>3, <1>4, <1>5 DEF ToldInv

LEMMA ToldStep == ScanTypes /\ ToldInv /\ [ScanNext]_scanVars => ToldInv'
<1> SUFFICES ASSUME ScanTypes, ToldInv, [ScanNext]_scanVars PROVE ToldInv'
  OBVIOUS
<1>1. CASE UNCHANGED scanVars BY <1>1, OtherTold
<1>2. CASE Scan BY <1>2, ReadTold, ReportTold, OtherTold DEF Scan
<1>3. CASE Outside BY <1>3, OtherTold DEF Outside
<1>4. CASE Killed BY <1>4, DieTold DEF Killed
<1>5. QED BY <1>1, <1>2, <1>3, <1>4 DEF ScanNext

LEMMA ToldStart == ScanInit => ToldInv
BY DEF ScanInit, ToldInv, WholeReads, HasRow, OomNamed

(* What RescanAddsNothing says of a step.                                  *)
AddsOnlyNew ==
  \A r \in rows' \ rows : BucketOf(r.line) \in partial \/ \E l \in fresh : BucketOf(l) = BucketOf(r.line)

LEMMA NewRows == ScanTypes /\ ToldInv /\ [ScanNext]_scanVars => AddsOnlyNew
<1> SUFFICES ASSUME ScanTypes, ToldInv, [ScanNext]_scanVars, NEW r \in rows' \ rows,
                    BucketOf(r.line) \notin partial
             PROVE  \E l \in fresh : BucketOf(l) = BucketOf(r.line)
  BY DEF AddsOnlyNew
<1>1. Report \/ UNCHANGED rows
  BY DEF ScanNext, Scan, Outside, Killed, Die, Start, WatermarkLost, Begin, ReadJournal, JournalFails,
         ReportLost, Marked, MarkFails, Tick, Stop, Surface, scanVars
<1>2. gateway = "reporting" /\ r \in Reports BY <1>1 DEF Report, Batched
<1>3. r.line \in scan.lines /\ Representative(Mates(r.line)) = {r.line} /\ r = Row(r.line, 0)
  BY <1>2, ReportOfWhole DEF ToldInv
<1>4. r.line \in journal BY <1>3 DEF ScanTypes, Scans
<1>5. Mates(r.line) \cap fresh # {} BY <1>3, <1>4 DEF ToldInv, HasRow
<1>6. QED BY <1>5 DEF Mates, InBucket

=============================================================================
