----------------------------- MODULE Aggregate -----------------------------
(***************************************************************************)
(* sampler/aggregate.go: how the ordered results of a sample's probes are  *)
(* folded into one sample.  A result has an address (NoIP if none), a      *)
(* country, a round-trip time and an error ("" if none).                   *)
(***************************************************************************)
EXTENDS Integers, Sequences, FiniteSets, FiniteSetsExt

CONSTANT NoIP        \* the invalid address

MaxUInt8 == 255
ClampUInt8(n) == IF n > MaxUInt8 THEN MaxUInt8 ELSE n

\* The tests at the head of the loop.
Counts(r) == r.err = "" /\ r.ip # NoIP /\ r.rtt >= 0
ErrorOf(r) == CASE r.err = "" /\ r.ip # NoIP -> "probe returned negative RTT"
                [] r.err # ""                -> r.err
                [] OTHER                     -> "probe returned invalid IP"

Good(results) == {i \in DOMAIN results : Counts(results[i])}
\* The addresses the good probes saw, each with the probes that saw it.
SeenBy(results, good) == [a \in {results[i].ip : i \in good} |-> {i \in good : results[i].ip = a}]

\* The address with the most hits; among equals the one probed first.
PrimaryIP(by) ==
  LET most == {a \in DOMAIN by : \A b \in DOMAIN by : Cardinality(by[b]) <= Cardinality(by[a])}
  IN IF most = {} THEN NoIP ELSE CHOOSE a \in most : \A b \in most : Min(by[a]) <= Min(by[b])

\* The times of the good probes in ascending order: the k-th one has fewer
\* than k below it and at least k up to it.
SortedRTTs(results, good) ==
  LET UpTo(t) == Cardinality({i \in good : results[i].rtt <= t})
  IN [k \in 1 .. Cardinality(good) |-> Min({t \in {results[i].rtt : i \in good} : UpTo(t) >= k})]

\* Integer division, which rounds down: the difference is not negative.
RTTMed(rtts) ==
  LET middle == Len(rtts) \div 2
  IN IF Len(rtts) % 2 = 0 THEN rtts[middle] + (rtts[middle + 1] - rtts[middle]) \div 2
                          ELSE rtts[middle + 1]

\* joinProbeErrors, without the wording: the distinct messages.
JoinProbeErrors(results) == {ErrorOf(results[i]) : i \in DOMAIN results \ Good(results)}

IPChanged(previous, primary) == previous # NoIP /\ primary # NoIP /\ previous # primary

Aggregate(all, previous, seen) ==
  LET results == IF Len(all) <= MaxUInt8 THEN all ELSE SubSeq(all, 1, MaxUInt8)
      good    == Good(results)
      by      == SeenBy(results, good)
      rtts    == SortedRTTs(results, good)
      n       == Len(rtts)
      primary == PrimaryIP(by)
  IN [probesAttempted |-> ClampUInt8(Len(results)),
      probesOK        |-> ClampUInt8(n),
      primary         |-> primary,
      distinctIPs     |-> ClampUInt8(Cardinality(DOMAIN by)),
      changed         |-> IPChanged(previous, primary),
      newIPs          |-> ClampUInt8(Cardinality(DOMAIN by \ seen)),
      \* as the first probe that saw the primary address reported it
      country         |-> IF primary = NoIP THEN "" ELSE results[Min(by[primary])].country,
      hits            |-> [a \in DOMAIN by |-> Cardinality(by[a])],
      rttMin          |-> IF n = 0 THEN 0 ELSE rtts[1],
      rttMed          |-> IF n = 0 THEN 0 ELSE RTTMed(rtts),
      rttMax          |-> IF n = 0 THEN 0 ELSE rtts[n],
      error           |-> IF n = 0 THEN JoinProbeErrors(results) ELSE {}]
=============================================================================
