--------------------------- MODULE SampleQueries ---------------------------
(***************************************************************************)
(* Reading the samples of one session: the pages of api.SessionSamples and *)
(* the queries of api.SessionReport (ch.Reader), while the writer stores   *)
(* further samples.  A page takes a count and a query, a report takes      *)
(* three queries; nothing holds the data still between them.               *)
(***************************************************************************)
EXTENDS GoInt, Sequences, FiniteSets, Totals

CONSTANTS PageSize, MaxSamples,  \* bound: samples stored
          LastInstant,           \* bound: instants at which samples are taken
          SampleIPs,             \* addresses that probes return
          Pages,                 \* page numbers asked for
          ShortBucket, LongBucket, ShortRange
ASSUME SampleQueriesAssumption ==
  /\ PageSize \in Nat \ {0} /\ ShortBucket \in Nat \ {0} /\ LongBucket \in Nat \ {0}
  /\ LastInstant \in Nat /\ Pages \subseteq Int /\ Nil \notin SampleIPs

VARIABLES
  stored,   \* sample_events of the session, in the order of sampled_at, sample_seq:
            \* stored[i] is the sample with sample_seq i
  range,    \* [from, to], Nil for no limit
  reading,  \* [op, pc, page, total]: the request in progress
  shown,    \* page -> set of samples shown on it, by sample_seq
  atStart,  \* history: samples that matched when the walk began
  report    \* the report

Instants  == 0 .. LastInstant
queryVars == <<stored, range, reading, shown, atStart, report>>

NoReading == [op |-> "none", pc |-> "ready", page |-> 1, total |-> 0]
NoReport == [series |-> Nil, holds |-> Nil, growth |-> Nil]
QueryFresh == reading = NoReading /\ shown = [p \in {} |-> {}] /\ atStart = {} /\ report = NoReport
QueryInit == stored = <<>> /\ range \in [from : Instants \cup {Nil}, to : Instants \cup {Nil}] /\ QueryFresh
QueryIdle == stored = <<>> /\ range = Nil /\ QueryFresh

-----------------------------------------------------------------------------
(* The tables.                                                             *)

\* A sample of one probe; new counts an address not seen before.
Store(at, ip) ==
  /\ range # Nil /\ Len(stored) < MaxSamples
  /\ \A i \in DOMAIN stored : stored[i].at <= at
  /\ stored' = Append(stored, [at |-> at, ip |-> ip,
       new |-> IF ip # Nil /\ \A i \in DOMAIN stored : stored[i].ip # ip THEN 1 ELSE 0])
  /\ UNCHANGED <<range, reading, shown, atStart, report>>

\* optionalRange and invalidOptionalRange.
InvalidRange(from, to) == from # Nil /\ to # Nil /\ from > to
\* sampleWhere: both limits are inclusive.
SampleWhere(from, to) ==
  {i \in DOMAIN stored : (from = Nil \/ stored[i].at >= from) /\ (to = Nil \/ stored[i].at <= to)}
Matching == SampleWhere(range.from, range.to)

-----------------------------------------------------------------------------
(* Pages, newest first.                                                    *)

\* Mutant of CheckedPageOffset: the product is not checked.
CheckedPageOffsetWraps(page) == Wrap((page - 1) * PageSize)
CheckedPageOffset(page) ==
  IF page - 1 > MaxInt \div PageSize THEN Nil ELSE (page - 1) * PageSize

\* ORDER BY sampled_at DESC, sample_seq DESC: the place of a sample is the
\* number of newer ones; LIMIT and OFFSET select by that place.
Place(i, samples) == Cardinality({j \in samples : j > i})
PageOf(samples, offset) ==
  {i \in samples : offset >= 0 /\ Place(i, samples) \in offset .. offset + PageSize - 1}

\* The checks of SessionSamples before anything is read.
SessionSamples(page) ==
  /\ range # Nil /\ reading.pc = "ready" /\ reading.op = "none"
  /\ reading' = [op |-> "samples", page |-> page, total |-> 0,
                 pc |-> IF InvalidRange(range.from, range.to) \/ page < 1 THEN "invalid" ELSE "count"]
  /\ atStart' = Matching
  /\ UNCHANGED <<stored, range, shown, report>>

CountSamples ==
  /\ reading.op = "samples" /\ reading.pc = "count"
  /\ reading' = IF CheckedPageOffset(reading.page) = Nil THEN [reading EXCEPT !.pc = "invalid"]
                ELSE [reading EXCEPT !.pc = "rows", !.total = Cardinality(Matching)]
  /\ UNCHANGED <<stored, range, shown, atStart, report>>

\* The page is answered; a client that walks all pages asks for the next one
\* until a page is not full.  (The total of an answer was counted before its
\* rows were read: a client that trusts it can stop one page too early.)
QueryPage ==
  /\ reading.op = "samples" /\ reading.pc = "rows"
  /\ shown' = [p \in DOMAIN shown \cup {reading.page} |->
       IF p = reading.page
       THEN PageOf(Matching, CheckedPageOffset(p))
       ELSE shown[p]]
  /\ reading' = IF Cardinality(shown'[reading.page]) < PageSize THEN [reading EXCEPT !.pc = "done"]
                ELSE [reading EXCEPT !.pc = "count", !.page = reading.page + 1]
  /\ UNCHANGED <<stored, range, atStart, report>>

-----------------------------------------------------------------------------
(* Reports.                                                                *)

Bucket(from, to) == IF to - from > ShortRange THEN LongBucket ELSE ShortBucket

\* Series: one point for each bucket that holds a sample.
StartOfInterval(i, width) == stored[i].at - (stored[i].at % width)
Members(samples, width, b) == {i \in samples : StartOfInterval(i, width) = b}
Successful(samples) == {i \in samples : stored[i].ip # Nil}   \* probes_ok > 0
Series(samples, width) ==
  [b \in {StartOfInterval(i, width) : i \in samples} |->
     [attempted |-> Cardinality(Members(samples, width, b)),
      ok        |-> Cardinality(Successful(Members(samples, width, b)))]]

\* The loop of deriveStickiness: a sample extends the current hold, the last
\* one, or ends it with a rotation and begins the next.
NoHolds == [holds |-> <<>>, rotations |-> <<>>]
ExtendHold(acc, e) ==
  LET n     == Len(acc.holds)
      last  == acc.holds[n]
      fresh == [ip |-> e.ip, started |-> e.at, ended |-> e.at, samples |-> 1]
  IN IF n > 0 /\ last.ip = e.ip
     THEN [acc EXCEPT !.holds = [@ EXCEPT ![n] = [last EXCEPT !.ended = e.at, !.samples = last.samples + 1]]]
     ELSE [holds     |-> Append(acc.holds, fresh),
           rotations |-> IF n = 0 THEN acc.rotations
                         ELSE Append(acc.rotations, [at |-> e.at, from |-> last.ip, to |-> e.ip])]
DeriveStickiness(samples) ==
  LET loop[n \in 0 .. Len(stored)] ==
        IF n = 0 THEN NoHolds
        ELSE IF n \in samples THEN ExtendHold(loop[n - 1], stored[n])
        ELSE loop[n - 1]
  IN loop[Len(stored)]
Stickiness(samples) == DeriveStickiness(Successful(samples))

\* PoolGrowth: the running total of new addresses, for each sample.
PoolGrowth(samples) ==
  [i \in samples |-> Total([j \in samples |-> stored[j].new], {j \in samples : j <= i})]

\* SessionReport: the range ends now unless the request says otherwise.
SessionReport ==
  /\ range # Nil /\ reading.op = "none" /\ reading.pc = "ready" /\ stored # <<>>
  /\ LET from == IF range.from = Nil THEN 0 ELSE range.from
         to   == IF range.to = Nil THEN stored[Len(stored)].at ELSE range.to
     IN /\ range' = [from |-> from, to |-> to]
        /\ reading' = [NoReading EXCEPT !.op = "report", !.pc = IF from > to THEN "invalid" ELSE "series"]
  /\ UNCHANGED <<stored, shown, atStart, report>>
QuerySeries ==
  /\ reading.op = "report" /\ reading.pc = "series"
  /\ report' = [report EXCEPT !.series =
       Series(Matching, Bucket(range.from, range.to))]
  /\ reading' = [reading EXCEPT !.pc = "stickiness"]
  /\ UNCHANGED <<stored, range, shown, atStart>>
QueryStickiness ==
  /\ reading.op = "report" /\ reading.pc = "stickiness"
  /\ report' = [report EXCEPT !.holds = Stickiness(Matching)]
  /\ reading' = [reading EXCEPT !.pc = "growth"]
  /\ UNCHANGED <<stored, range, shown, atStart>>
QueryGrowth ==
  /\ reading.op = "report" /\ reading.pc = "growth"
  /\ report' = [report EXCEPT !.growth = PoolGrowth(Matching)]
  /\ reading' = [reading EXCEPT !.pc = "done"]
  /\ UNCHANGED <<stored, range, shown, atStart>>

Querying ==
  \/ \E at \in Instants, ip \in SampleIPs \cup {Nil} : Store(at, ip)
  \/ \E page \in Pages : SessionSamples(page)
  \/ CountSamples \/ QueryPage
  \/ SessionReport \/ QuerySeries \/ QueryStickiness \/ QueryGrowth

-----------------------------------------------------------------------------
(* Properties.                                                             *)

\* A walk over the pages from the first one on misses no sample that matched
\* when it began, however many samples are stored on the way; and a page shows
\* only samples of its own place, one so far out that its offset does not fit
\* an int64 included: it is refused.
PagesMissNothing ==
  /\ reading.op = "samples" /\ reading.pc = "done" /\ 1 \in DOMAIN shown =>
       atStart \subseteq UNION {shown[p] : p \in DOMAIN shown}
  /\ \A p \in DOMAIN shown : (p - 1) * PageSize >= Len(stored) => shown[p] = {}

\* The holds are maximal, follow each other in time and rotate into each other.
HoldsFollow(sticky) ==
  /\ Len(sticky.rotations) = IF sticky.holds = <<>> THEN 0 ELSE Len(sticky.holds) - 1
  /\ \A i \in DOMAIN sticky.rotations :
       LET hold == sticky.holds[i]  next == sticky.holds[i + 1]  rotation == sticky.rotations[i]
       IN /\ rotation.from = hold.ip /\ rotation.to = next.ip /\ hold.ip # next.ip
          /\ hold.started <= hold.ended /\ hold.ended <= next.started
          /\ rotation.at = next.started

\* The samples that the holds count, and that the points of a series count.
Held(sticky) == Total([i \in DOMAIN sticky.holds |-> sticky.holds[i].samples], DOMAIN sticky.holds)
Charted(series, field) == Total([b \in DOMAIN series |-> series[b][field]], DOMAIN series)

\* The parts of a report agree although they are read one after the other: the
\* holds follow each other, each part covers at least the samples of the parts
\* read before it, and the pool only grows.
ReportCoherent ==
  reading.op = "report" /\ reading.pc = "done" =>
    /\ HoldsFollow(report.holds)
    /\ Charted(report.series, "ok") <= Held(report.holds)
    /\ Charted(report.series, "attempted") <= Cardinality(DOMAIN report.growth)
    /\ Held(report.holds) <= Cardinality(DOMAIN report.growth)
    /\ \A i, j \in DOMAIN report.growth : i <= j => report.growth[i] <= report.growth[j]

\* Reading while the writer stores further samples shows a consistent picture
\* (Reader.Samples, Series, Stickiness, PoolGrowth and the handlers above them).
ReadsCoherent == PagesMissNothing /\ ReportCoherent
=============================================================================
