----------------------------- MODULE TickProofs -----------------------------
(***************************************************************************)
(* What the database, the worker and ClickHouse know of a session's        *)
(* addresses agrees, for every number of probes, of slots, of addresses,   *)
(* of ticks and of re-enables.                                             *)
(***************************************************************************)
EXTENDS Tick, FiniteSetTheorems, WellFoundedInduction, TLAPS

(***************************************************************************)
(* The inductive invariant.  TickConsistent and ChangesAreReal speak of    *)
(* the row, of the inventory and of an event; the next tick is computed    *)
(* from the worker's memory, which a lost acknowledgement leaves behind    *)
(* both.  So the same facts are needed of the memory, and of a tick whose  *)
(* probes are under way.                                                   *)
(***************************************************************************)
Typed ==
  /\ row \in [status : {"running", "stopped"}, samples : Nat, ok : Nat, total : Nat, distinct : Nat,
              primary : IPs \cup {NoIP}]
  /\ ips \in [IPs -> Nat] /\ reported \in [IPs -> Nat] /\ news \in Nat /\ ticks \in 0 .. MaxTicks
  /\ own \in {"none", "live", "held"} /\ phase \in {"idle", "loop", "probe", "save", "enqueue"}
  /\ mem \in [seen : SUBSET IPs, previous : IPs \cup {NoIP}, seq : Nat, ok : Nat, total : Nat]
  /\ probe \in [Probes -> Outcomes \cup {Waiting, Running}]
  /\ event \in [primary : IPs \cup {NoIP}, changed : BOOLEAN, new : Nat, hits : [IPs -> Nat],
                before : SUBSET IPs, known : SUBSET IPs]
  /\ cancelled \in BOOLEAN /\ committed \subseteq IPs /\ known \subseteq IPs

\* What the variables hold outside of the phase that uses them.
Placed ==
  /\ own = "live" <=> phase # "idle"
  /\ own = "none" => mem = NoMemory
  /\ phase # "enqueue" => event = NoEvent
  /\ phase \notin {"probe", "save"} => probe = [i \in Probes |-> Waiting]
  /\ phase = "save" => probe \in [Probes -> Outcomes]

\* A probe is cut off only by a cancellation, and what it interrupts is not stored.
CutByCancel == ~cut /\ ((\E i \in Probes : probe[i] = Cut) => cancelled)

Slots == Cardinality(Busy) <= Limit

\* The counters of the row and of the memory, neither of which is ahead of the other for good.
Counted(samples, ok, total) ==
  /\ samples <= ticks /\ (phase \in {"probe", "save"} => samples < ticks)
  /\ total = samples * ProbesPerSample /\ ok <= total /\ ok <= Cardinality(Hits(ips))

Inventory ==
  /\ row.distinct <= Cardinality(SessionIPs)
  /\ mem.seen \subseteq SessionIPs
  /\ \A a \in IPs : reported[a] + event.hits[a] <= ips[a]

\* The last primary address of the row and of the memory is one that was stored
\* in a run the worker serves, and there is one as soon as it knows of one of
\* the present run.
Primaries ==
  /\ committed \subseteq SessionIPs
  /\ row.primary # NoIP => row.primary \in committed
  /\ mem.previous # NoIP => mem.previous \in committed
  /\ known # {} => row.primary # NoIP /\ (own # "none" => mem.previous # NoIP)

\* An address that was called new is in the inventory, and the worker remembers it.
NewKnown ==
  /\ news <= Cardinality(SessionIPs)
  /\ own # "none" => news + event.new <= Cardinality(mem.seen)

Inv ==
  /\ Typed /\ Placed /\ CutByCancel /\ Slots
  /\ Counted(row.samples, row.ok, row.total) /\ Counted(mem.seq, mem.ok, mem.total)
  /\ Inventory /\ Primaries /\ ChangesAreReal /\ NewKnown

-----------------------------------------------------------------------------
(* The aggregate of a Sample.                                              *)

\* The least element of a set of naturals.
LEMMA MinIn ==
  ASSUME NEW S \in SUBSET Nat, S # {}
  PROVE  Min(S) \in S /\ \A y \in S : Min(S) <= y
<1>1. PICK x \in S : \A y \in S : ~(<<y, x>> \in OpToRel(<, Nat))
  BY NatLessThanWellFounded, WFMin
<1>2. ASSUME NEW y \in S PROVE x <= y
  <2>1. x \in Nat /\ y \in Nat
    OBVIOUS
  <2>2. y < x => <<y, x>> \in OpToRel(<, Nat)
    BY <2>1 DEF OpToRel
  <2>3. ~(y < x)
    BY <1>1, <2>2
  <2> QED
    BY <2>1, <2>3
<1> QED
  BY <1>2 DEF Min

\* In a set of things with a rank there is one of the least rank.
LEMMA LeastOf ==
  ASSUME NEW S, S # {}, NEW rank \in [S -> Nat]
  PROVE  \E a \in S : \A b \in S : rank[a] <= rank[b]
<1> DEFINE R == {rank[a] : a \in S}
<1>1. R \subseteq Nat /\ R # {}
  OBVIOUS
<1>2. Min(R) \in R /\ \A y \in R : Min(R) <= y
  BY <1>1, MinIn
<1> HIDE DEF R
<1>3. PICK a \in S : Min(R) = rank[a]
  BY <1>2 DEF R
<1>4. ASSUME NEW b \in S PROVE rank[a] <= rank[b]
  BY <1>2, <1>3 DEF R
<1> QED
  BY <1>4

\* In a finite set of things with a rank there is one of the greatest rank.
LEMMA GreatestOf ==
  ASSUME NEW S, S # {}, NEW rank \in [S -> Nat], NEW top \in Nat, \A a \in S : rank[a] <= top
  PROVE  \E a \in S : \A b \in S : rank[b] <= rank[a]
<1> DEFINE gap == [a \in S |-> top - rank[a]]
<1>1. gap \in [S -> Nat]
  OBVIOUS
<1>2. PICK a \in S : \A b \in S : gap[a] <= gap[b]
  <2> HIDE DEF gap
  <2> QED
    BY <1>1, LeastOf
<1>3. ASSUME NEW b \in S PROVE rank[b] <= rank[a]
  BY <1>2
<1> QED
  BY <1>3

LEMMA ProbesFinite ==
  /\ ProbesPerSample \in 1 .. 255 /\ ProbesPerSample \in Nat
  /\ IsFiniteSet(Probes) /\ Cardinality(Probes) = ProbesPerSample /\ Probes \subseteq Nat
<1>1. ProbesPerSample \in 1 .. 255
  BY TickAssumption
<1> QED
  BY <1>1, FS_Interval DEF Probes

\* The probes that saw an address, and the ones that saw this address.
GoodOf(results) == {i \in Probes : results[i].ip \in IPs}
SawOf(results, a) == {i \in GoodOf(results) : results[i].ip = a}
SeenAt(results) == {results[i].ip : i \in GoodOf(results)}

LEMMA AddressCounts ==
  ASSUME NEW a \in IPs
  PROVE  Result(a, "").ip = a /\ Counts(Result(a, ""))
<1>1. Result(a, "").ip = a
  BY DEF Result
<1>2. Result(a, "").err = ""
  BY DEF Result
<1>3. Result(a, "").rtt = 1
  BY DEF Result
<1>4. 1 >= 0
  OBVIOUS
<1>5. Result(a, "").rtt >= 0
  BY <1>3, <1>4, Zenon
<1>6. a # NoIP
  BY TickAssumption
<1> QED
  BY <1>1, <1>2, <1>5, <1>6, Zenon DEF Counts

LEMMA GoodIs ==
  ASSUME NEW results \in [Probes -> Outcomes]
  PROVE  /\ DOMAIN results = Probes /\ Len(results) = ProbesPerSample
         /\ Good(results) = GoodOf(results)
<1>1. DOMAIN results = Probes
  OBVIOUS
<1>2. Len(results) = ProbesPerSample
  BY ProbesFinite, <1>1 DEF Probes
<1>3. ASSUME NEW i \in Probes PROVE Counts(results[i]) <=> results[i].ip \in IPs
  <2>1. results[i] \in Outcomes
    OBVIOUS
  <2>2. CASE \E a \in IPs : results[i] = Result(a, "")
    <3>1. PICK a \in IPs : results[i] = Result(a, "")
      BY <2>2
    <3>2. results[i].ip = a /\ Counts(results[i])
      BY <3>1, AddressCounts
    <3> QED
      BY <3>2
  <2>3. CASE results[i] \in {Result(NoIP, "failed"), Cut}
    <3>1. results[i].ip = NoIP
      BY <2>3 DEF Result, Cut
    <3> QED
      BY <3>1, TickAssumption DEF Counts
  <2> QED
    BY <2>1, <2>2, <2>3 DEF Outcomes
<1> QED
  BY <1>1, <1>2, <1>3 DEF Good, GoodOf

LEMMA EndedIsNotRunning == \A r \in Outcomes : r # Running
<1> SUFFICES ASSUME NEW r \in Outcomes PROVE r.err # Running.err
  OBVIOUS
<1>1. Running.err = "running" /\ Cut.err = "cancelled" /\ Result(NoIP, "failed").err = "failed"
  BY DEF Running, Cut, Result
<1>2. CASE \E a \in IPs : r = Result(a, "")
  <2>1. PICK a \in IPs : r = Result(a, "")
    BY <1>2
  <2>2. r.err = ""
    BY <2>1 DEF Result
  <2> QED
    BY <1>1, <2>2
<1>3. CASE r \in {Result(NoIP, "failed"), Cut}
  BY <1>1, <1>3
<1> QED
  BY <1>2, <1>3 DEF Outcomes

LEMMA GoodFinite ==
  ASSUME NEW results
  PROVE  /\ GoodOf(results) \subseteq Probes /\ IsFiniteSet(GoodOf(results))
         /\ Cardinality(GoodOf(results)) \in 0 .. ProbesPerSample
         /\ \A a : /\ SawOf(results, a) \subseteq Probes /\ IsFiniteSet(SawOf(results, a))
                   /\ Cardinality(SawOf(results, a)) \in 0 .. ProbesPerSample
         /\ \A a \in SeenAt(results) : /\ a \in IPs /\ SawOf(results, a) # {}
                                       /\ Cardinality(SawOf(results, a)) \in 1 .. ProbesPerSample
         /\ SeenAt(results) \subseteq IPs
<1>1. ASSUME NEW T \in SUBSET Probes PROVE IsFiniteSet(T) /\ Cardinality(T) \in 0 .. ProbesPerSample
  <2>1. IsFiniteSet(T) /\ Cardinality(T) <= ProbesPerSample
    BY ProbesFinite, FS_Subset
  <2>2. Cardinality(T) \in Nat
    BY <2>1, FS_CardinalityType
  <2> QED
    BY <2>1, <2>2, ProbesFinite
<1>2. GoodOf(results) \subseteq Probes
  BY DEF GoodOf
<1>3. \A a : SawOf(results, a) \subseteq Probes
  BY <1>2 DEF SawOf
<1>4. ASSUME NEW a \in SeenAt(results)
      PROVE  a \in IPs /\ SawOf(results, a) # {}
  BY DEF SeenAt, SawOf, GoodOf
<1>5. ASSUME NEW a \in SeenAt(results)
      PROVE  Cardinality(SawOf(results, a)) \in 1 .. ProbesPerSample
  <2>1. IsFiniteSet(SawOf(results, a)) /\ Cardinality(SawOf(results, a)) \in 0 .. ProbesPerSample
    BY <1>1, <1>3
  <2>2. Cardinality(SawOf(results, a)) # 0
    BY <2>1, <1>4, FS_EmptySet
  <2> QED
    BY <2>1, <2>2, ProbesFinite
<1> QED
  BY <1>1, <1>2, <1>3, <1>4, <1>5

LEMMA SeenByIs ==
  ASSUME NEW results \in [Probes -> Outcomes]
  PROVE  SeenBy(results, Good(results)) = [a \in SeenAt(results) |-> SawOf(results, a)]
BY GoodIs DEF SeenBy, SeenAt, SawOf

\* The primary address is one of those seen, if any was.
LEMMA PrimaryIs ==
  ASSUME NEW results \in [Probes -> Outcomes]
  PROVE  LET p == PrimaryIP(SeenBy(results, Good(results)))
         IN  IF SeenAt(results) = {} THEN p = NoIP ELSE p \in SeenAt(results)
<1> DEFINE by == [a \in SeenAt(results) |-> SawOf(results, a)]
           most == {a \in DOMAIN by : \A b \in DOMAIN by : Cardinality(by[b]) <= Cardinality(by[a])}
<1>1. SeenBy(results, Good(results)) = by
  BY SeenByIs
<1>2. DOMAIN by = SeenAt(results) /\ \A a \in SeenAt(results) : by[a] = SawOf(results, a)
  OBVIOUS
<1> HIDE DEF by
<1>3. most \subseteq SeenAt(results)
  BY <1>2
<1>4. SeenAt(results) # {} => most # {}
  <2> SUFFICES ASSUME SeenAt(results) # {} PROVE most # {}
    OBVIOUS
  <2> DEFINE size == [a \in SeenAt(results) |-> Cardinality(by[a])]
  <2>1. size \in [SeenAt(results) -> Nat] /\ \A a \in SeenAt(results) : size[a] <= ProbesPerSample
    BY <1>2, GoodFinite, ProbesFinite
  <2>2. PICK a \in SeenAt(results) : \A b \in SeenAt(results) : size[b] <= size[a]
    <3> HIDE DEF size
    <3> QED
      BY <2>1, ProbesFinite, GreatestOf
  <2> QED
    BY <1>2, <2>2
<1>5. ASSUME most # {}
      PROVE  \E a \in most : \A b \in most : Min(by[a]) <= Min(by[b])
  <2> DEFINE first == [a \in most |-> Min(by[a])]
  <2>1. ASSUME NEW a \in most PROVE Min(by[a]) \in Nat
    <3>1. by[a] \subseteq Nat /\ by[a] # {}
      BY <1>2, <1>3, GoodFinite, ProbesFinite
    <3> QED
      BY <3>1, MinIn
  <2>2. first \in [most -> Nat]
    BY <2>1
  <2> HIDE DEF most
  <2>3. \E a \in most : \A b \in most : first[a] <= first[b]
    <3> HIDE DEF first
    <3> QED
      BY <1>5, <2>2, LeastOf
  <2> QED
    BY <2>3
<1>6. PrimaryIP(by) = IF most = {} THEN NoIP ELSE CHOOSE a \in most : \A b \in most : Min(by[a]) <= Min(by[b])
  BY DEF PrimaryIP
<1> HIDE DEF most
<1>7. IF most = {} THEN PrimaryIP(by) = NoIP ELSE PrimaryIP(by) \in most
  BY <1>5, <1>6
<1> QED
  BY <1>1, <1>3, <1>4, <1>7

\* What Aggregate says of a sample of ProbesPerSample ended probes.
LEMMA AggregateIs ==
  ASSUME NEW results \in [Probes -> Outcomes], NEW previous, NEW seen \in SUBSET IPs
  PROVE  LET s == Aggregate(results, previous, seen)
         IN  /\ s.probesAttempted = ProbesPerSample
             /\ s.probesOK = Cardinality(GoodOf(results))
             /\ s.primary = PrimaryIP(SeenBy(results, Good(results)))
             /\ s.changed = IPChanged(previous, s.primary)
             /\ s.newIPs \in Nat /\ s.newIPs <= Cardinality(SeenAt(results) \ seen)
             /\ s.hits = [a \in SeenAt(results) |-> Cardinality(SawOf(results, a))]
<1> DEFINE good == Good(results)
           by == SeenBy(results, good)
           rtts == SortedRTTs(results, good)
           s == Aggregate(results, previous, seen)
<1>1. Len(results) = ProbesPerSample /\ Len(results) <= MaxUInt8
  BY GoodIs, ProbesFinite DEF MaxUInt8
<1>2. good = GoodOf(results) /\ by = [a \in SeenAt(results) |-> SawOf(results, a)]
  BY GoodIs, SeenByIs
<1>3. Len(rtts) = Cardinality(good) /\ Cardinality(good) \in 0 .. ProbesPerSample
  BY <1>2, GoodFinite, ProbesFinite DEF SortedRTTs
<1>4. /\ s.probesAttempted = ClampUInt8(Len(results)) /\ s.probesOK = ClampUInt8(Len(rtts))
      /\ s.primary = PrimaryIP(by) /\ s.changed = IPChanged(previous, s.primary)
      /\ s.newIPs = ClampUInt8(Cardinality(DOMAIN by \ seen))
      /\ s.hits = [a \in DOMAIN by |-> Cardinality(by[a])]
  <2>1. (IF Len(results) <= MaxUInt8 THEN results ELSE SubSeq(results, 1, MaxUInt8)) = results
    BY <1>1
  <2> HIDE DEF good, by, rtts
  <2> QED
    BY <2>1 DEF Aggregate, good, by, rtts
<1>5. ClampUInt8(Len(results)) = ProbesPerSample /\ ClampUInt8(Len(rtts)) = Cardinality(good)
  <2> HIDE DEF good, rtts
  <2> QED
    BY <1>1, <1>3, ProbesFinite DEF ClampUInt8, MaxUInt8
<1>6. /\ ClampUInt8(Cardinality(SeenAt(results) \ seen)) \in Nat
      /\ ClampUInt8(Cardinality(SeenAt(results) \ seen)) <= Cardinality(SeenAt(results) \ seen)
  <2>1. SeenAt(results) \ seen \in SUBSET IPs
    BY GoodFinite
  <2>2. Cardinality(SeenAt(results) \ seen) \in Nat
    BY <2>1, TickAssumption, FS_Subset, FS_CardinalityType
  <2> QED
    BY <2>2 DEF ClampUInt8, MaxUInt8
<1>7. DOMAIN by = SeenAt(results) /\ \A a \in SeenAt(results) : by[a] = SawOf(results, a)
  BY <1>2
<1> HIDE DEF good, by, rtts, s
<1>8. s.hits = [a \in SeenAt(results) |-> Cardinality(SawOf(results, a))]
  BY <1>4, <1>7
<1> QED
  BY <1>2, <1>4, <1>5, <1>6, <1>7, <1>8 DEF s, by, good

\* The sample, as the save uses it.
LEMMA SampleFacts ==
  ASSUME NEW results \in [Probes -> Outcomes], NEW previous, NEW seen \in SUBSET IPs
  PROVE  LET s == Aggregate(results, previous, seen)
         IN  /\ s.probesAttempted = ProbesPerSample
             /\ s.probesOK = Cardinality(GoodOf(results)) /\ s.probesOK \in 0 .. ProbesPerSample
             /\ DOMAIN s.hits = SeenAt(results) /\ DOMAIN s.hits \subseteq IPs
             /\ \A a \in DOMAIN s.hits : /\ s.hits[a] = Cardinality(SawOf(results, a))
                                         /\ s.hits[a] \in Nat /\ s.hits[a] >= 1
             /\ s.primary = NoIP \/ s.primary \in DOMAIN s.hits
             /\ s.changed = IPChanged(previous, s.primary)
             /\ s.newIPs \in Nat /\ s.newIPs <= Cardinality(DOMAIN s.hits \ seen)
<1> DEFINE s == Aggregate(results, previous, seen)
<1>1. /\ s.probesAttempted = ProbesPerSample
      /\ s.probesOK = Cardinality(GoodOf(results))
      /\ s.primary = PrimaryIP(SeenBy(results, Good(results)))
      /\ s.changed = IPChanged(previous, s.primary)
      /\ s.newIPs \in Nat /\ s.newIPs <= Cardinality(SeenAt(results) \ seen)
      /\ s.hits = [a \in SeenAt(results) |-> Cardinality(SawOf(results, a))]
  BY AggregateIs
<1> HIDE DEF s
<1>2. DOMAIN s.hits = SeenAt(results) /\ \A a \in SeenAt(results) : s.hits[a] = Cardinality(SawOf(results, a))
  BY <1>1
<1>3. s.primary = NoIP \/ s.primary \in SeenAt(results)
  BY <1>1, PrimaryIs
<1>4. ASSUME NEW a \in SeenAt(results) PROVE s.hits[a] \in Nat /\ s.hits[a] >= 1
  BY <1>2, GoodFinite, ProbesFinite
<1>5. SeenAt(results) \subseteq IPs /\ s.probesOK \in 0 .. ProbesPerSample
  BY <1>1, GoodFinite
<1> QED
  BY <1>1, <1>2, <1>3, <1>4, <1>5 DEF s

-----------------------------------------------------------------------------
(* The hits of an inventory.                                               *)

LEMMA HitsIn ==
  ASSUME NEW count, NEW p
  PROVE  p \in Hits(count) <=> \E a \in IPs : \E k \in 1 .. count[a] : p = <<a, k>>
BY DEF Hits

LEMMA HitsFinite ==
  ASSUME NEW count \in [IPs -> Nat]
  PROVE  IsFiniteSet(Hits(count)) /\ Cardinality(Hits(count)) \in Nat
<1> DEFINE part == [a \in IPs |-> {a} \X (1 .. count[a])]
           parts == {{a} \X (1 .. count[a]) : a \in IPs}
<1>1. part \in Surjection(IPs, parts)
  BY DEF Surjection
<1>2. IsFiniteSet(parts)
  <2> HIDE DEF part, parts
  <2> QED
    BY <1>1, TickAssumption, FS_Surjection
<1>3. ASSUME NEW T \in parts PROVE IsFiniteSet(T)
  <2>1. PICK a \in IPs : T = {a} \X (1 .. count[a])
    OBVIOUS
  <2>2. IsFiniteSet({a}) /\ IsFiniteSet(1 .. count[a])
    <3>1. IsFiniteSet({a})
      BY FS_Singleton
    <3>2. count[a] \in Int /\ 1 \in Int
      OBVIOUS
    <3> QED
      BY <3>1, <3>2, FS_Interval
  <2> QED
    BY <2>1, <2>2, FS_Product
<1>4. IsFiniteSet(UNION parts)
  <2> HIDE DEF parts
  <2> QED
    BY <1>2, <1>3, FS_UNION
<1>5. IsFiniteSet(Hits(count))
  BY <1>4 DEF Hits
<1> QED
  BY <1>5, FS_CardinalityType

\* Every good probe of a sample is a hit of its own.
LEMMA HitsGrow ==
  ASSUME NEW results \in [Probes -> Outcomes], NEW before \in [IPs -> Nat], NEW after \in [IPs -> Nat],
         \A a \in IPs : after[a] >= before[a],
         \A a \in SeenAt(results) : after[a] = before[a] + Cardinality(SawOf(results, a))
  PROVE  Cardinality(Hits(before)) + Cardinality(GoodOf(results)) <= Cardinality(Hits(after))
<1> DEFINE good == GoodOf(results)
           added == Hits(after) \ Hits(before)
           number(a) == CHOOSE f : f \in Bijection(SawOf(results, a), 1 .. Cardinality(SawOf(results, a)))
           hit == [i \in good |-> <<results[i].ip, before[results[i].ip] + number(results[i].ip)[i]>>]
<1>1. ASSUME NEW i \in good
      PROVE  /\ results[i].ip \in IPs /\ results[i].ip \in SeenAt(results) /\ i \in SawOf(results, results[i].ip)
  BY DEF GoodOf, SeenAt, SawOf
<1>2. ASSUME NEW a \in SeenAt(results)
      PROVE  number(a) \in Bijection(SawOf(results, a), 1 .. Cardinality(SawOf(results, a)))
  <2> DEFINE n == Cardinality(SawOf(results, a))
  <2>1. IsFiniteSet(SawOf(results, a)) /\ n \in Nat
    BY GoodFinite, ProbesFinite
  <2>2. IsFiniteSet(1 .. n) /\ Cardinality(1 .. n) = n
    BY <2>1, FS_Interval
  <2>3. ExistsBijection(SawOf(results, a), 1 .. n)
    BY <2>1, <2>2, FS_SameCardinalityBij
  <2> QED
    BY <2>3 DEF ExistsBijection
<1> HIDE DEF number
<1>3. ASSUME NEW a \in SeenAt(results)
      PROVE  /\ \A i \in SawOf(results, a) : number(a)[i] \in 1 .. Cardinality(SawOf(results, a))
             /\ \A i, j \in SawOf(results, a) : number(a)[i] = number(a)[j] => i = j
  BY <1>2 DEF Bijection, Injection, IsInjective
<1>4. ASSUME NEW i \in good PROVE hit[i] \in added
  <2> DEFINE a == results[i].ip
             k == number(results[i].ip)[i]
  <2>1. a \in IPs /\ a \in SeenAt(results) /\ i \in SawOf(results, a) /\ hit[i] = <<a, before[a] + k>>
    BY <1>1
  <2>2. k \in 1 .. Cardinality(SawOf(results, a)) /\ Cardinality(SawOf(results, a)) \in Nat
    BY <1>3, <2>1, GoodFinite, ProbesFinite
  <2> HIDE DEF a, k, hit
  <2>3. before[a] \in Nat /\ before[a] + k \in 1 .. after[a] /\ ~(before[a] + k \in 1 .. before[a])
    BY <2>1, <2>2
  <2>4. hit[i] \in Hits(after)
    BY <2>1, <2>3, HitsIn
  <2>5. hit[i] \notin Hits(before)
    <3> SUFFICES ASSUME hit[i] \in Hits(before) PROVE FALSE
      OBVIOUS
    <3>1. PICK b \in IPs : \E m \in 1 .. before[b] : hit[i] = <<b, m>>
      BY HitsIn
    <3>2. PICK m \in 1 .. before[b] : hit[i] = <<b, m>>
      BY <3>1
    <3>3. b = a /\ m = before[a] + k
      BY <2>1, <3>2
    <3> QED
      BY <2>3, <3>2, <3>3
  <2> QED
    BY <2>4, <2>5
<1>5. ASSUME NEW i \in good, NEW j \in good, hit[i] = hit[j] PROVE i = j
  <2> DEFINE a == results[i].ip
  <2>1. /\ hit[i] = <<results[i].ip, before[results[i].ip] + number(results[i].ip)[i]>>
        /\ hit[j] = <<results[j].ip, before[results[j].ip] + number(results[j].ip)[j]>>
    OBVIOUS
  <2> HIDE DEF hit
  <2>2. results[j].ip = a /\ before[a] + number(a)[i] = before[a] + number(a)[j]
    <3>1. <<results[i].ip, before[results[i].ip] + number(results[i].ip)[i]>>
            = <<results[j].ip, before[results[j].ip] + number(results[j].ip)[j]>>
      BY <1>5, <2>1
    <3>2. /\ results[i].ip = results[j].ip
          /\ before[results[i].ip] + number(results[i].ip)[i] = before[results[j].ip] + number(results[j].ip)[j]
      BY <3>1
    <3> QED
      BY <3>2
  <2>3. a \in IPs /\ a \in SeenAt(results) /\ i \in SawOf(results, a) /\ j \in SawOf(results, a)
    BY <1>1, <2>2
  <2> HIDE DEF a
  <2>4. number(a)[i] \in Nat /\ number(a)[j] \in Nat /\ before[a] \in Nat
    BY <1>3, <2>3, GoodFinite, ProbesFinite
  <2>5. number(a)[i] = number(a)[j]
    BY <2>2, <2>4
  <2> QED
    BY <1>3, <2>3, <2>5
<1>6. hit \in Injection(good, added)
  <2>1. hit \in [good -> added]
    BY <1>4
  <2> HIDE DEF hit, good, added
  <2> QED
    BY <1>5, <2>1 DEF Injection, IsInjective
<1>7. /\ IsFiniteSet(Hits(before)) /\ Cardinality(Hits(before)) \in Nat
      /\ IsFiniteSet(Hits(after)) /\ Cardinality(Hits(after)) \in Nat
  BY HitsFinite
<1>8. Hits(before) \subseteq Hits(after)
  <2>1. ASSUME NEW p \in Hits(before) PROVE p \in Hits(after)
    <3>1. PICK a \in IPs : \E k \in 1 .. before[a] : p = <<a, k>>
      BY HitsIn
    <3>2. PICK k \in 1 .. before[a] : p = <<a, k>>
      BY <3>1
    <3>3. k \in 1 .. after[a]
      BY <3>2
    <3> QED
      BY <3>2, <3>3, HitsIn
  <2> QED
    BY <2>1
<1>9. IsFiniteSet(added) /\ Cardinality(added) = Cardinality(Hits(after)) - Cardinality(Hits(before))
  <2>1. Hits(after) \cap Hits(before) = Hits(before)
    BY <1>8
  <2> QED
    <3>1. /\ IsFiniteSet(Hits(after) \ Hits(before))
          /\ Cardinality(Hits(after) \ Hits(before))
               = Cardinality(Hits(after)) - Cardinality(Hits(after) \cap Hits(before))
      BY <1>7, FS_Difference, Zenon
    <3> QED
      BY <2>1, <3>1
<1>10. Cardinality(good) <= Cardinality(added) /\ Cardinality(good) \in Nat
  <2> HIDE DEF hit, added
  <2>1. Cardinality(good) <= Cardinality(added)
    BY <1>6, <1>9, FS_Injection
  <2> QED
    BY <2>1, GoodFinite, ProbesFinite
<1> QED
  BY <1>7, <1>9, <1>10

-----------------------------------------------------------------------------
(* The initial state, and the commit that SaveTick and SaveTickLost share. *)

LEMMA SubsetOfIPs ==
  ASSUME NEW S \in SUBSET IPs, NEW T \in SUBSET S
  PROVE  /\ IsFiniteSet(S) /\ IsFiniteSet(T) /\ Cardinality(S) \in Nat /\ Cardinality(T) \in Nat
         /\ Cardinality(T) <= Cardinality(S) /\ Cardinality(S) <= Cardinality(IPs) /\ Cardinality(IPs) \in Nat
<1>1. IsFiniteSet(IPs)
  BY TickAssumption
<1>2. IsFiniteSet(S) /\ Cardinality(S) <= Cardinality(IPs)
  BY <1>1, FS_Subset
<1>3. IsFiniteSet(T) /\ Cardinality(T) <= Cardinality(S)
  BY <1>2, FS_Subset
<1> QED
  BY <1>1, <1>2, <1>3, FS_CardinalityType

LEMMA SessionIPsSubset == SessionIPs \subseteq IPs
  BY DEF SessionIPs

LEMMA NextMultiple ==
  ASSUME NEW n \in Nat, NEW m \in Nat
  PROVE  (n + 1) * m = n * m + m /\ n * m \in Nat
OBVIOUS

LEMMA LimitIs == Limit \in Nat \ {0} /\ Limit <= MaxConcurrentProbes /\ MaxConcurrentProbes \in Nat
<1>1. MaxConcurrentProbes \in Nat \ {0} /\ ProbesPerSample \in Nat \ {0}
  BY TickAssumption, ProbesFinite
<1>2. {ProbesPerSample, MaxConcurrentProbes} \in SUBSET Nat /\ {ProbesPerSample, MaxConcurrentProbes} # {}
  BY <1>1
<1>3. /\ Limit \in {ProbesPerSample, MaxConcurrentProbes}
      /\ \A y \in {ProbesPerSample, MaxConcurrentProbes} : Limit <= y
  BY <1>2, MinIn DEF Limit
<1> QED
  BY <1>1, <1>3

\* No probe runs before the first tick and after each.
LEMMA WaitingIdle ==
  ASSUME NEW p, p = [i \in Probes |-> Waiting]
  PROVE  /\ p \in [Probes -> Outcomes \cup {Waiting, Running}]
         /\ {i \in Probes : p[i] = Running} = {} /\ ~\E i \in Probes : p[i] = Cut
<1>1. Waiting # Running /\ Waiting # Cut
  <2>1. Waiting.err = "waiting" /\ Running.err = "running" /\ Cut.err = "cancelled"
    BY DEF Waiting, Running, Cut, Result
  <2> QED
    BY <2>1
<1> QED
  BY <1>1

LEMMA InitEstablishes == Init => Inv
<1> SUFFICES ASSUME Init PROVE Inv
  OBVIOUS
<1>1. SessionIPs = {} /\ Cardinality({}) = 0
  BY FS_EmptySet DEF Init, SessionIPs
<1>2. Cardinality(Hits(ips)) \in Nat
  BY HitsFinite DEF Init
<1>3. Typed
  <2>1. probe \in [Probes -> Outcomes \cup {Waiting, Running}]
    BY WaitingIdle DEF Init
  <2>2. event \in [primary : IPs \cup {NoIP}, changed : BOOLEAN, new : Nat, hits : [IPs -> Nat],
                before : SUBSET IPs, known : SUBSET IPs]
    BY DEF Init, NoEvent
  <2>3. mem \in [seen : SUBSET IPs, previous : IPs \cup {NoIP}, seq : Nat, ok : Nat, total : Nat]
    BY DEF Init, NoMemory
  <2> QED
    <3>1. row \in [status : {"running", "stopped"}, samples : Nat, ok : Nat, total : Nat, distinct : Nat,
                   primary : IPs \cup {NoIP}]
      BY DEF Init, InsertSession
    <3>2. ticks \in 0 .. MaxTicks
      <4>1. MaxTicks \in Nat
        BY TickAssumption
      <4> QED
        BY <4>1 DEF Init
    <3>3. /\ ips \in [IPs -> Nat] /\ reported \in [IPs -> Nat] /\ news \in Nat
          /\ own \in {"none", "live", "held"} /\ phase \in {"idle", "loop", "probe", "save", "enqueue"}
          /\ cancelled \in BOOLEAN /\ committed \subseteq IPs /\ known \subseteq IPs
      BY DEF Init
    <3> QED
      BY <2>1, <2>2, <2>3, <3>1, <3>2, <3>3 DEF Typed
<1>4. Placed
  BY DEF Init, Placed
<1>5. CutByCancel
  BY WaitingIdle DEF Init, CutByCancel
<1>6. Slots
  <2>1. Busy = {}
    BY WaitingIdle DEF Init, Busy
  <2> QED
    BY <1>1, <2>1, LimitIs DEF Slots
<1>7. Counted(row.samples, row.ok, row.total)
  BY <1>2, ProbesFinite DEF Init, InsertSession, Counted
<1>8. Counted(mem.seq, mem.ok, mem.total)
  BY <1>2, ProbesFinite DEF Init, NoMemory, Counted
<1>9. Inventory
  BY <1>1 DEF Init, Inventory, InsertSession, NoMemory, NoEvent
<1>10. Primaries
  BY DEF Init, Primaries, InsertSession, NoMemory
<1>11. ChangesAreReal
  BY DEF Init, ChangesAreReal, NoEvent
<1>12. NewKnown
  BY <1>1 DEF Init, NewKnown
<1> QED
  BY <1>3, <1>4, <1>5, <1>6, <1>7, <1>8, <1>9, <1>10, <1>11, <1>12 DEF Inv

\* What a commit stores, and what the worker remembers once it is acknowledged.
LEMMA CommitStores ==
  ASSUME Inv, phase = "save", ~cancelled, Commit
  PROVE  /\ ips' \in [IPs -> Nat] /\ SessionIPs \subseteq SessionIPs' /\ DOMAIN Sample.hits \subseteq SessionIPs'
         /\ \A a \in IPs : ips'[a] = ips[a] + (IF a \in DOMAIN Sample.hits THEN Sample.hits[a] ELSE 0)
         /\ Cardinality(Hits(ips)) + Sample.probesOK <= Cardinality(Hits(ips'))
         /\ cut' = FALSE /\ Sample.probesOK \in 0 .. ProbesPerSample /\ DOMAIN Sample.hits \subseteq IPs
<1>1. /\ probe \in [Probes -> Outcomes] /\ mem.seen \in SUBSET IPs
      /\ Sample = Aggregate(probe, mem.previous, mem.seen)
      /\ ips \in [IPs -> Nat] /\ mem.seen \subseteq SessionIPs
  BY DEF Inv, Placed, Typed, Inventory, Sample
<1>2. /\ Sample.probesOK = Cardinality(GoodOf(probe)) /\ Sample.probesOK \in 0 .. ProbesPerSample
      /\ DOMAIN Sample.hits = SeenAt(probe) /\ DOMAIN Sample.hits \subseteq IPs
      /\ \A a \in DOMAIN Sample.hits : /\ Sample.hits[a] = Cardinality(SawOf(probe, a))
                                       /\ Sample.hits[a] \in Nat /\ Sample.hits[a] >= 1
  BY <1>1, SampleFacts
<1>3. ips' = [a \in IPs |-> IF a \in DOMAIN Sample.hits THEN ips[a] + Sample.hits[a] ELSE ips[a]]
  BY DEF Commit, UpsertSessionIP
<1>4. /\ ips' \in [IPs -> Nat]
      /\ \A a \in IPs : ips'[a] >= ips[a]
      /\ \A a \in DOMAIN Sample.hits : ips'[a] = ips[a] + Sample.hits[a] /\ ips'[a] > 0
  BY <1>1, <1>2, <1>3
<1>5. \A a \in IPs : ips'[a] = ips[a] + (IF a \in DOMAIN Sample.hits THEN Sample.hits[a] ELSE 0)
  BY <1>1, <1>3
<1>6. SessionIPs \subseteq SessionIPs' /\ DOMAIN Sample.hits \subseteq SessionIPs'
  BY <1>1, <1>2, <1>4 DEF SessionIPs
<1>7. Cardinality(Hits(ips)) + Cardinality(GoodOf(probe)) <= Cardinality(Hits(ips'))
  BY <1>1, <1>2, <1>4, HitsGrow
<1>8. cut' = FALSE
  BY DEF Commit, Inv, CutByCancel
<1> QED
  BY <1>2, <1>4, <1>5, <1>6, <1>7, <1>8

\* What a sample adds to the count of an address.
LEMMA SavedHits ==
  ASSUME Inv, phase = "save", NEW a \in DOMAIN Sample.hits
  PROVE  Sample.hits[a] \in Nat
<1>1. /\ probe \in [Probes -> Outcomes] /\ mem.seen \in SUBSET IPs
      /\ Sample = Aggregate(probe, mem.previous, mem.seen)
  BY DEF Inv, Placed, Typed, Sample
<1> QED
  BY <1>1, SampleFacts

LEMMA CommitAdvances ==
  ASSUME Inv, phase = "save", ~cancelled, Commit
  PROVE  LET m == NextMemory
         IN  /\ m \in [seen : SUBSET IPs, previous : IPs \cup {NoIP}, seq : Nat, ok : Nat, total : Nat]
             /\ m.seen = mem.seen \cup DOMAIN Sample.hits /\ m.seen \subseteq SessionIPs'
             /\ m.seq <= ticks /\ m.total = m.seq * ProbesPerSample /\ m.ok <= m.total
             /\ m.ok <= Cardinality(Hits(ips'))
             /\ committed' \subseteq IPs /\ committed' \subseteq SessionIPs'
             /\ m.previous # NoIP => m.previous \in committed'
             /\ mem.previous # NoIP \/ Sample.primary # NoIP => m.previous # NoIP
             /\ row' \in [status : {"running", "stopped"}, samples : Nat, ok : Nat, total : Nat, distinct : Nat,
                          primary : IPs \cup {NoIP}]
             /\ row'.samples = m.seq /\ row'.ok = m.ok /\ row'.total = m.total /\ row'.primary = m.previous
             /\ row'.distinct = Cardinality(m.seen)
<1> DEFINE m == NextMemory
<1>1. /\ probe \in [Probes -> Outcomes] /\ mem.seen \in SUBSET IPs
      /\ Sample = Aggregate(probe, mem.previous, mem.seen)
  BY DEF Inv, Placed, Typed, Sample
<1>2. /\ mem.previous \in IPs \cup {NoIP} /\ mem.seq \in Nat /\ mem.ok \in Nat /\ mem.total \in Nat
      /\ committed \subseteq IPs /\ ticks \in Nat
      /\ row \in [status : {"running", "stopped"}, samples : Nat, ok : Nat, total : Nat, distinct : Nat,
                  primary : IPs \cup {NoIP}]
  BY TickAssumption DEF Inv, Typed
<1>3. /\ mem.seq < ticks /\ mem.total = mem.seq * ProbesPerSample /\ mem.ok <= mem.total
      /\ mem.ok <= Cardinality(Hits(ips))
  BY DEF Inv, Counted
<1>4. /\ Sample.probesAttempted = ProbesPerSample /\ Sample.probesOK \in 0 .. ProbesPerSample
      /\ DOMAIN Sample.hits \subseteq IPs
      /\ Sample.primary = NoIP \/ Sample.primary \in DOMAIN Sample.hits
  BY <1>1, SampleFacts
<1>5. /\ SessionIPs \subseteq SessionIPs' /\ DOMAIN Sample.hits \subseteq SessionIPs'
      /\ Cardinality(Hits(ips)) + Sample.probesOK <= Cardinality(Hits(ips'))
      /\ Cardinality(Hits(ips)) \in Nat /\ Cardinality(Hits(ips')) \in Nat
  BY CommitStores, HitsFinite DEF Inv, Typed
<1>6. /\ m.seen = mem.seen \cup DOMAIN Sample.hits /\ m.previous = NextPrimary /\ m.seq = mem.seq + 1
      /\ m.ok = mem.ok + Sample.probesOK /\ m.total = mem.total + Sample.probesAttempted
  BY DEF NextMemory
<1>7. NextPrimary \in IPs \cup {NoIP}
  BY <1>2, <1>4 DEF NextPrimary
<1>8. m \in [seen : SUBSET IPs, previous : IPs \cup {NoIP}, seq : Nat, ok : Nat, total : Nat]
  BY <1>1, <1>2, <1>4, <1>7, ProbesFinite DEF NextMemory
<1>9. m.seen \subseteq SessionIPs'
  BY <1>5, <1>6 DEF Inv, Inventory
<1> HIDE DEF m
<1>10. m.total = m.seq * ProbesPerSample
  <2>1. (mem.seq + 1) * ProbesPerSample = mem.seq * ProbesPerSample + ProbesPerSample
    BY <1>2, ProbesFinite, NextMultiple
  <2> QED
    BY <1>3, <1>4, <1>6, <2>1
<1>11. m.seq <= ticks /\ m.ok <= m.total /\ m.ok <= Cardinality(Hits(ips'))
  BY <1>2, <1>3, <1>4, <1>5, <1>6, ProbesFinite
<1>12. committed' = committed \cup ({Sample.primary} \ {NoIP})
  BY DEF Commit
<1>13. committed' \subseteq IPs /\ committed' \subseteq SessionIPs'
  BY <1>2, <1>4, <1>5, <1>12 DEF Inv, Primaries
<1>14. m.previous # NoIP => m.previous \in committed'
  BY <1>6, <1>12 DEF NextPrimary, Inv, Primaries
<1>15. mem.previous # NoIP \/ Sample.primary # NoIP => m.previous # NoIP
  BY <1>6 DEF NextPrimary
<1>16. row' = [row EXCEPT !.samples = m.seq, !.ok = m.ok, !.total = m.total,
                          !.distinct = Cardinality(m.seen), !.primary = m.previous]
  BY DEF Commit, UpdateSessionSnapshot, m
<1>17. Cardinality(m.seen) \in Nat
  BY <1>8, SubsetOfIPs
<1>18. /\ row' \in [status : {"running", "stopped"}, samples : Nat, ok : Nat, total : Nat, distinct : Nat,
                    primary : IPs \cup {NoIP}]
       /\ row'.samples = m.seq /\ row'.ok = m.ok /\ row'.total = m.total /\ row'.primary = m.previous
       /\ row'.distinct = Cardinality(m.seen)
  BY <1>2, <1>8, <1>16, <1>17
<1> QED
  BY <1>6, <1>8, <1>9, <1>10, <1>11, <1>13, <1>14, <1>15, <1>18 DEF m

-----------------------------------------------------------------------------
(* The steps.  What a part of the invariant says depends on few variables. *)

LEMMA Kept ==
  ASSUME Inv
  PROVE  /\ UNCHANGED <<cut, probe, cancelled>> => CutByCancel'
         /\ UNCHANGED probe => Slots'
         /\ UNCHANGED <<row, ips, ticks>> /\ (phase' \in {"probe", "save"} => phase \in {"probe", "save"})
              => Counted(row.samples, row.ok, row.total)'
         /\ UNCHANGED <<mem, ips, ticks>> /\ (phase' \in {"probe", "save"} => phase \in {"probe", "save"})
              => Counted(mem.seq, mem.ok, mem.total)'
         /\ UNCHANGED <<row, ips, mem, reported, event>> => Inventory'
         /\ UNCHANGED <<row, ips, mem, committed, known, own>> => Primaries'
         /\ UNCHANGED event => ChangesAreReal'
         /\ UNCHANGED <<news, ips, own, event, mem>> => NewKnown'
         /\ UNCHANGED ips => SessionIPs' = SessionIPs
<1> USE DEF Inv
<1>1. UNCHANGED <<cut, probe, cancelled>> => CutByCancel'
  BY DEF CutByCancel
<1>2. UNCHANGED probe => Slots'
  BY DEF Slots, Busy
<1>3. UNCHANGED <<row, ips, ticks>> /\ (phase' \in {"probe", "save"} => phase \in {"probe", "save"})
        => Counted(row.samples, row.ok, row.total)'
  BY DEF Counted
<1>4. UNCHANGED <<mem, ips, ticks>> /\ (phase' \in {"probe", "save"} => phase \in {"probe", "save"})
        => Counted(mem.seq, mem.ok, mem.total)'
  BY DEF Counted
<1>5. UNCHANGED ips => SessionIPs' = SessionIPs
  BY DEF SessionIPs
<1>6. UNCHANGED <<row, ips, mem, reported, event>> => Inventory'
  BY <1>5 DEF Inventory
<1>7. UNCHANGED <<row, ips, mem, committed, known, own>> => Primaries'
  BY <1>5 DEF Primaries
<1>8. UNCHANGED event => ChangesAreReal'
  BY DEF ChangesAreReal
<1>9. UNCHANGED <<news, ips, own, event, mem>> => NewKnown'
  BY <1>5 DEF NewKnown
<1> QED
  BY <1>1, <1>2, <1>3, <1>4, <1>5, <1>6, <1>7, <1>8, <1>9

LEMMA NothingChanges == ASSUME Inv, UNCHANGED vars PROVE Inv'
<1>1. /\ UNCHANGED <<row, ips, own, mem, phase, cancelled, probe, event>>
      /\ UNCHANGED <<reported, news, ticks, run, committed, known, cut>>
  BY DEF vars
<1>2. Typed'
  BY <1>1 DEF Inv, Typed
<1>3. Placed'
  BY <1>1 DEF Inv, Placed
<1> QED
  BY <1>1, <1>2, <1>3, Kept DEF Inv

\* A probe gets a slot, gives one back or never gets one.
LEMMA ProbeKeeps ==
  ASSUME Inv, phase = "probe", NEW i \in Probes, NEW r \in Outcomes \cup {Running},
         probe' = [probe EXCEPT ![i] = r], r = Cut => cancelled,
         r = Running => Cardinality(Busy) < Limit,
         UNCHANGED <<row, ips, own, mem, phase, cancelled, event, history>>
  PROVE  Inv'
<1>1. /\ UNCHANGED <<row, ips, own, mem, phase, cancelled, event>>
      /\ UNCHANGED <<reported, news, ticks, run, committed, known, cut>>
  BY DEF history
<1>2. probe \in [Probes -> Outcomes \cup {Waiting, Running}]
  BY DEF Inv, Typed
<1>3. probe' \in [Probes -> Outcomes \cup {Waiting, Running}]
  BY <1>2
<1>4. Typed'
  BY <1>1, <1>3 DEF Inv, Typed
<1>5. Placed'
  BY <1>1 DEF Inv, Placed
<1>6. CutByCancel'
  <2>1. ~cut' /\ cancelled' = cancelled /\ ((\E j \in Probes : probe[j] = Cut) => cancelled)
    BY <1>1 DEF Inv, CutByCancel
  <2>2. ASSUME NEW j \in Probes, probe'[j] = Cut PROVE cancelled
    <3>1. CASE j = i
      BY <1>2, <2>2, <3>1
    <3>2. CASE j # i
      BY <1>2, <2>1, <2>2, <3>2
    <3> QED
      BY <3>1, <3>2
  <2> QED
    BY <2>1, <2>2 DEF CutByCancel
<1>7. Slots'
  <2>1. IsFiniteSet(Busy) /\ Cardinality(Busy) \in Nat /\ Cardinality(Busy) <= Limit
    <3>1. Busy \in SUBSET Probes
      BY DEF Busy
    <3> QED
      BY <3>1, ProbesFinite, FS_Subset, FS_CardinalityType DEF Inv, Slots
  <2>2. CASE r = Running
    <3>1. Busy' \subseteq Busy \cup {i}
      BY <1>2 DEF Busy
    <3>2. IsFiniteSet(Busy \cup {i}) /\ Cardinality(Busy \cup {i}) <= Cardinality(Busy) + 1
      <4>1. /\ IsFiniteSet(Busy \cup {i})
            /\ Cardinality(Busy \cup {i}) = IF i \in Busy THEN Cardinality(Busy) ELSE Cardinality(Busy) + 1
        BY <2>1, FS_AddElement, Zenon
      <4> QED
        BY <2>1, <4>1
    <3>3. IsFiniteSet(Busy') /\ Cardinality(Busy') <= Cardinality(Busy \cup {i})
      BY <3>1, <3>2, FS_Subset
    <3>4. Cardinality(Busy') \in Nat /\ Cardinality(Busy \cup {i}) \in Nat
      BY <3>2, <3>3, FS_CardinalityType
    <3>5. Limit' = Limit /\ Limit \in Nat
      BY LimitIs DEF Limit
    <3> QED
      BY <2>1, <2>2, <3>2, <3>3, <3>4, <3>5 DEF Slots
  <2>3. CASE r # Running
    <3>1. Busy' \subseteq Busy
      BY <1>2, <2>3 DEF Busy
    <3>2. IsFiniteSet(Busy') /\ Cardinality(Busy') <= Cardinality(Busy)
      BY <2>1, <3>1, FS_Subset
    <3>3. Cardinality(Busy') \in Nat
      BY <3>2, FS_CardinalityType
    <3>4. Limit' = Limit /\ Limit \in Nat
      BY LimitIs DEF Limit
    <3> QED
      BY <2>1, <3>2, <3>3, <3>4 DEF Slots
  <2> QED
    BY <2>2, <2>3
<1> QED
  BY <1>1, <1>4, <1>5, <1>6, <1>7, Kept DEF Inv

LEMMA ProbesDoneKeeps == ASSUME Inv, ProbesDone PROVE Inv'
<1>1. /\ phase = "probe" /\ phase' = "save"
      /\ UNCHANGED <<row, ips, own, mem, cancelled, probe, event>>
      /\ UNCHANGED <<reported, news, ticks, run, committed, known, cut>>
  BY DEF ProbesDone, history
<1>2. Typed'
  BY <1>1 DEF Inv, Typed
<1>3. probe \in [Probes -> Outcomes]
  BY DEF ProbesDone, Inv, Typed
<1>4. Placed'
  BY <1>1, <1>3 DEF Inv, Placed
<1> QED
  BY <1>1, <1>2, <1>4, Kept DEF Inv

\* The results are thrown away at the end of a tick.
LEMMA Discarded ==
  ASSUME Discard, ~cut'
  PROVE  /\ probe' = [i \in Probes |-> Waiting] /\ probe' \in [Probes -> Outcomes \cup {Waiting, Running}]
         /\ CutByCancel' /\ Slots'
<1>1. probe' = [i \in Probes |-> Waiting]
  BY DEF Discard
<1>2. /\ probe' \in [Probes -> Outcomes \cup {Waiting, Running}]
      /\ {i \in Probes : probe'[i] = Running} = {} /\ ~\E i \in Probes : probe'[i] = Cut
  BY <1>1, WaitingIdle
<1>3. CutByCancel'
  BY <1>2 DEF CutByCancel
<1>4. Slots'
  <2>1. Busy' = {} /\ Cardinality({}) = 0
    BY <1>2, FS_EmptySet DEF Busy
  <2>2. Limit' = Limit /\ Limit \in Nat
    BY LimitIs DEF Limit
  <2> QED
    BY <2>1, <2>2 DEF Slots
<1> QED
  BY <1>1, <1>2, <1>3, <1>4

LEMMA SaveTickFailsKeeps == ASSUME Inv, SaveTickFails PROVE Inv'
<1>1. /\ phase = "save" /\ phase' = "loop" /\ Discard
      /\ UNCHANGED <<row, ips, own, mem, cancelled, event>>
      /\ UNCHANGED <<reported, news, ticks, run, committed, known, cut>>
  BY DEF SaveTickFails, history
<1>2. /\ probe' = [i \in Probes |-> Waiting] /\ probe' \in [Probes -> Outcomes \cup {Waiting, Running}]
      /\ CutByCancel' /\ Slots'
  <2>1. ~cut'
    BY <1>1 DEF Inv, CutByCancel
  <2> QED
    BY <1>1, <2>1, Discarded
<1>3. Typed'
  BY <1>1, <1>2 DEF Inv, Typed
<1>4. Placed'
  BY <1>1, <1>2 DEF Inv, Placed
<1> QED
  BY <1>1, <1>2, <1>3, <1>4, Kept DEF Inv

\* The row and the inventory move on, the worker does not.
LEMMA SaveTickLostKeeps == ASSUME Inv, SaveTickLost PROVE Inv'
<1> DEFINE m == NextMemory
<1>1. /\ phase = "save" /\ ~cancelled /\ Commit /\ phase' = "loop" /\ Discard
      /\ UNCHANGED <<own, mem, cancelled, event, reported, news, ticks, run, known>>
  BY DEF SaveTickLost
<1>2. /\ ips' \in [IPs -> Nat] /\ SessionIPs \subseteq SessionIPs' /\ DOMAIN Sample.hits \subseteq SessionIPs'
      /\ \A a \in IPs : ips'[a] = ips[a] + (IF a \in DOMAIN Sample.hits THEN Sample.hits[a] ELSE 0)
      /\ Cardinality(Hits(ips)) + Sample.probesOK <= Cardinality(Hits(ips'))
      /\ cut' = FALSE /\ Sample.probesOK \in 0 .. ProbesPerSample /\ DOMAIN Sample.hits \subseteq IPs
  BY <1>1, CommitStores
<1>3. /\ m \in [seen : SUBSET IPs, previous : IPs \cup {NoIP}, seq : Nat, ok : Nat, total : Nat]
      /\ m.seen = mem.seen \cup DOMAIN Sample.hits /\ m.seen \subseteq SessionIPs'
      /\ m.seq <= ticks /\ m.total = m.seq * ProbesPerSample /\ m.ok <= m.total
      /\ m.ok <= Cardinality(Hits(ips'))
      /\ committed' \subseteq IPs /\ committed' \subseteq SessionIPs'
      /\ m.previous # NoIP => m.previous \in committed'
      /\ mem.previous # NoIP \/ Sample.primary # NoIP => m.previous # NoIP
      /\ row' \in [status : {"running", "stopped"}, samples : Nat, ok : Nat, total : Nat, distinct : Nat,
                   primary : IPs \cup {NoIP}]
      /\ row'.samples = m.seq /\ row'.ok = m.ok /\ row'.total = m.total /\ row'.primary = m.previous
      /\ row'.distinct = Cardinality(m.seen)
  BY <1>1, CommitAdvances
<1> HIDE DEF m
<1>4. /\ Cardinality(Hits(ips)) \in Nat /\ Cardinality(Hits(ips')) \in Nat
  BY <1>2, HitsFinite DEF Inv, Typed
<1>5. ~cut'
  BY <1>2
<1>6. /\ probe' = [i \in Probes |-> Waiting] /\ probe' \in [Probes -> Outcomes \cup {Waiting, Running}]
      /\ CutByCancel' /\ Slots'
  BY <1>1, <1>5, Discarded
<1>7. Typed'
  BY <1>1, <1>2, <1>3, <1>6 DEF Inv, Typed
<1>8. Placed'
  BY <1>1, <1>6 DEF Inv, Placed
<1>9. Counted(row.samples, row.ok, row.total)'
  BY <1>1, <1>3, ProbesFinite DEF Counted
<1>10. Counted(mem.seq, mem.ok, mem.total)'
  <2>1. mem.ok \in Nat /\ mem.ok <= Cardinality(Hits(ips)) /\ Sample.probesOK \in Nat
    BY <1>2, ProbesFinite DEF Inv, Counted, Typed
  <2>2. mem.ok <= Cardinality(Hits(ips'))
    BY <1>2, <1>4, <2>1
  <2> QED
    BY <1>1, <2>2 DEF Inv, Counted
<1>11. SessionIPs' \subseteq IPs /\ Cardinality(SessionIPs') \in Nat /\ Cardinality(SessionIPs) \in Nat
       /\ Cardinality(SessionIPs) <= Cardinality(SessionIPs')
       /\ Cardinality(m.seen) <= Cardinality(SessionIPs')
  <2>1. SessionIPs' \subseteq IPs
    BY DEF SessionIPs
  <2> QED
    BY <1>2, <1>3, <2>1, SubsetOfIPs
<1>12. Inventory'
  <2>1. mem'.seen \subseteq SessionIPs'
    BY <1>1, <1>2 DEF Inv, Inventory
  <2>2. \A a \in IPs : reported'[a] + event'.hits[a] <= ips'[a]
    <3> TAKE a \in IPs
    <3>1. reported[a] + event.hits[a] <= ips[a] /\ reported[a] \in Nat /\ event.hits[a] \in Nat /\ ips[a] \in Nat
      BY DEF Inv, Inventory, Typed
    <3>2. ips'[a] \in Nat /\ ips'[a] >= ips[a]
      BY <1>1, <1>2, <3>1, SavedHits
    <3> QED
      BY <1>1, <3>1, <3>2
  <2>3. row'.distinct <= Cardinality(SessionIPs')
    BY <1>3, <1>11
  <2> QED
    BY <2>1, <2>2, <2>3 DEF Inventory
<1>13. Primaries'
  <2>1. committed \subseteq committed'
    BY <1>1 DEF Commit
  <2>2. mem'.previous # NoIP => mem'.previous \in committed'
    BY <1>1, <2>1 DEF Inv, Primaries
  <2>3. own # "none"
    BY <1>1 DEF Inv, Placed
  <2>4. known' # {} => row'.primary # NoIP /\ mem'.previous # NoIP
    BY <1>1, <1>3, <2>3 DEF Inv, Primaries
  <2> QED
    BY <1>3, <2>2, <2>4 DEF Primaries
<1>14. NewKnown'
  <2>1. own # "none" /\ news + event.new <= Cardinality(mem.seen) /\ news <= Cardinality(SessionIPs) /\ news \in Nat
    BY <1>1 DEF Inv, Placed, NewKnown, Typed
  <2> QED
    BY <1>1, <1>11, <2>1 DEF NewKnown
<1> QED
  BY <1>1, <1>6, <1>7, <1>8, <1>9, <1>10, <1>12, <1>13, <1>14, Kept DEF Inv

\* Row, inventory and worker move on, and the event says what changed.
LEMMA SaveTickKeeps == ASSUME Inv, SaveTick PROVE Inv'
<1>1. /\ phase = "save" /\ ~cancelled /\ Commit /\ phase' = "enqueue" /\ Discard
      /\ mem' = NextMemory /\ event' = SampleEvent /\ known' = known \cup ({Sample.primary} \ {NoIP})
      /\ UNCHANGED <<own, cancelled, reported, news, ticks, run>>
  BY DEF SaveTick
<1>2. /\ ips' \in [IPs -> Nat] /\ SessionIPs \subseteq SessionIPs' /\ DOMAIN Sample.hits \subseteq SessionIPs'
      /\ \A a \in IPs : ips'[a] = ips[a] + (IF a \in DOMAIN Sample.hits THEN Sample.hits[a] ELSE 0)
      /\ cut' = FALSE /\ DOMAIN Sample.hits \subseteq IPs
  BY <1>1, CommitStores
<1>3. /\ mem' \in [seen : SUBSET IPs, previous : IPs \cup {NoIP}, seq : Nat, ok : Nat, total : Nat]
      /\ mem'.seen = mem.seen \cup DOMAIN Sample.hits /\ mem'.seen \subseteq SessionIPs'
      /\ mem'.seq <= ticks /\ mem'.total = mem'.seq * ProbesPerSample /\ mem'.ok <= mem'.total
      /\ mem'.ok <= Cardinality(Hits(ips'))
      /\ committed' \subseteq IPs /\ committed' \subseteq SessionIPs'
      /\ mem'.previous # NoIP => mem'.previous \in committed'
      /\ mem.previous # NoIP \/ Sample.primary # NoIP => mem'.previous # NoIP
      /\ row' \in [status : {"running", "stopped"}, samples : Nat, ok : Nat, total : Nat, distinct : Nat,
                   primary : IPs \cup {NoIP}]
      /\ row'.samples = mem'.seq /\ row'.ok = mem'.ok /\ row'.total = mem'.total /\ row'.primary = mem'.previous
      /\ row'.distinct = Cardinality(mem'.seen)
  BY <1>1, CommitAdvances
<1>4. /\ Sample.primary = NoIP \/ Sample.primary \in DOMAIN Sample.hits
      /\ Sample.changed = IPChanged(mem.previous, Sample.primary)
      /\ Sample.newIPs \in Nat /\ Sample.newIPs <= Cardinality(DOMAIN Sample.hits \ mem.seen)
      /\ \A a \in DOMAIN Sample.hits : Sample.hits[a] \in Nat
  <2>1. /\ probe \in [Probes -> Outcomes] /\ mem.seen \in SUBSET IPs
        /\ Sample = Aggregate(probe, mem.previous, mem.seen)
    BY <1>1 DEF Inv, Placed, Typed, Sample
  <2> QED
    BY <2>1, SampleFacts
<1>5. Sample.primary \in IPs \cup {NoIP} /\ Sample.changed \in BOOLEAN
  BY <1>2, <1>4 DEF IPChanged
<1>6. /\ event'.primary = Sample.primary /\ event'.changed = Sample.changed /\ event'.new = Sample.newIPs
      /\ event'.hits = [a \in IPs |-> IF a \in DOMAIN Sample.hits THEN Sample.hits[a] ELSE 0]
      /\ event'.before = committed /\ event'.known = known
  BY <1>1 DEF SampleEvent
<1>7. event' \in [primary : IPs \cup {NoIP}, changed : BOOLEAN, new : Nat, hits : [IPs -> Nat],
                  before : SUBSET IPs, known : SUBSET IPs]
  <2>1. [a \in IPs |-> IF a \in DOMAIN Sample.hits THEN Sample.hits[a] ELSE 0] \in [IPs -> Nat]
    BY <1>4
  <2>2. committed \in SUBSET IPs /\ known \in SUBSET IPs
    BY DEF Inv, Typed
  <2> QED
    BY <1>1, <1>4, <1>5, <2>1, <2>2 DEF SampleEvent
<1>8. /\ probe' = [i \in Probes |-> Waiting] /\ probe' \in [Probes -> Outcomes \cup {Waiting, Running}]
      /\ CutByCancel' /\ Slots'
  BY <1>1, <1>2, Discarded
<1>9. Typed'
  <2>1. known' \subseteq IPs
    BY <1>1, <1>5 DEF Inv, Typed
  <2> QED
    BY <1>1, <1>2, <1>3, <1>7, <1>8, <2>1 DEF Inv, Typed
<1>10. own # "none" /\ own' # "none" /\ event = NoEvent
  BY <1>1 DEF Inv, Placed
<1>11. Placed'
  <2>1. own = "live"
    BY <1>1 DEF Inv, Placed
  <2> QED
    BY <1>1, <1>8, <2>1 DEF Placed
<1>12. Counted(row.samples, row.ok, row.total)' /\ Counted(mem.seq, mem.ok, mem.total)'
  BY <1>1, <1>3 DEF Counted
<1>13. SessionIPs' \subseteq IPs /\ Cardinality(SessionIPs') \in Nat
       /\ Cardinality(mem'.seen) \in Nat /\ Cardinality(mem'.seen) <= Cardinality(SessionIPs')
  <2>1. SessionIPs' \subseteq IPs
    BY DEF SessionIPs
  <2> QED
    BY <1>3, <2>1, SubsetOfIPs
<1>14. Inventory'
  <2>1. \A a \in IPs : reported'[a] + event'.hits[a] <= ips'[a]
    <3> TAKE a \in IPs
    <3>1. reported[a] + event.hits[a] <= ips[a] /\ reported[a] \in Nat /\ ips[a] \in Nat
      BY DEF Inv, Inventory, Typed
    <3>2. event.hits[a] = 0
      BY <1>10 DEF NoEvent
    <3>3. event'.hits[a] = IF a \in DOMAIN Sample.hits THEN Sample.hits[a] ELSE 0
      BY <1>6
    <3>4. ips'[a] = ips[a] + event'.hits[a] /\ event'.hits[a] \in Nat
      BY <1>2, <1>4, <3>3
    <3> QED
      BY <1>1, <3>1, <3>2, <3>4
  <2> QED
    BY <1>3, <1>13, <2>1 DEF Inventory
<1>15. Primaries'
  <2>1. known' # {} => mem'.previous # NoIP
    BY <1>1, <1>3, <1>10 DEF Inv, Primaries
  <2> QED
    BY <1>3, <2>1 DEF Primaries
<1>16. ChangesAreReal'
  <2>1. mem.previous # NoIP => mem.previous \in committed
    BY DEF Inv, Primaries
  <2>2. known # {} => mem.previous # NoIP
    BY <1>10 DEF Inv, Primaries
  <2>3. ASSUME event'.changed PROVE \E p \in event'.before : p # event'.primary
    <3>1. IPChanged(mem.previous, Sample.primary)
      BY <1>4, <1>6, <2>3
    <3> QED
      BY <1>6, <2>1, <3>1 DEF IPChanged
  <2>4. ASSUME ~event'.changed, event'.primary # NoIP
        PROVE  event'.known = {} \/ event'.primary \in event'.before
    <3>1. ~IPChanged(mem.previous, Sample.primary)
      BY <1>4, <1>6, <2>4
    <3> QED
      BY <1>6, <2>1, <2>2, <2>4, <3>1 DEF IPChanged
  <2> QED
    BY <2>3, <2>4 DEF ChangesAreReal
<1>17. NewKnown'
  <2>1. news + event.new <= Cardinality(mem.seen) /\ news \in Nat /\ event.new = 0
    BY <1>10 DEF Inv, NewKnown, Typed, NoEvent
  <2> DEFINE fresh == DOMAIN Sample.hits \ mem.seen
  <2>2. mem.seen \in SUBSET IPs /\ fresh \in SUBSET IPs /\ mem.seen \cap fresh = {}
        /\ mem'.seen = mem.seen \cup fresh
    BY <1>2, <1>3 DEF Inv, Typed
  <2>3. /\ IsFiniteSet(mem.seen) /\ IsFiniteSet(fresh)
        /\ Cardinality(mem.seen) \in Nat /\ Cardinality(fresh) \in Nat
    BY <2>2, SubsetOfIPs
  <2> HIDE DEF fresh
  <2>4. Cardinality(mem'.seen) = Cardinality(mem.seen) + Cardinality(fresh)
    <3>1. Cardinality(mem.seen \cup fresh)
            = Cardinality(mem.seen) + Cardinality(fresh) - Cardinality(mem.seen \cap fresh)
      BY <2>3, FS_Union, Zenon
    <3>2. Cardinality(mem.seen \cap fresh) = 0
      BY <2>2, FS_EmptySet
    <3>3. Cardinality(mem'.seen) = Cardinality(mem.seen \cup fresh)
      BY <2>2
    <3> QED
      BY <2>3, <3>1, <3>2, <3>3
  <2>5. event'.new \in Nat /\ event'.new <= Cardinality(fresh)
    BY <1>4, <1>6 DEF fresh
  <2>6. news' + event'.new <= Cardinality(mem'.seen)
    BY <1>1, <2>1, <2>3, <2>4, <2>5
  <2>7. news' <= Cardinality(SessionIPs')
    BY <1>1, <1>13, <2>1, <2>5, <2>6
  <2> QED
    BY <2>6, <2>7 DEF NewKnown
<1> QED
  BY <1>8, <1>9, <1>11, <1>12, <1>14, <1>15, <1>16, <1>17 DEF Inv

LEMMA EnqueueKeeps == ASSUME Inv, NEW taken \in BOOLEAN, Enqueue(taken) PROVE Inv'
<1>1. /\ phase = "enqueue" /\ phase' = "loop" /\ event' = NoEvent
      /\ reported' = IF taken THEN [a \in IPs |-> reported[a] + event.hits[a]] ELSE reported
      /\ news' = IF taken THEN news + event.new ELSE news
      /\ UNCHANGED <<row, ips, own, mem, cancelled, probe, ticks, run, committed, known, cut>>
  BY DEF Enqueue
<1>2. /\ reported \in [IPs -> Nat] /\ event.hits \in [IPs -> Nat] /\ news \in Nat /\ event.new \in Nat
      /\ ips \in [IPs -> Nat]
  BY DEF Inv, Typed
<1>3. reported' \in [IPs -> Nat] /\ news' \in Nat /\ news <= news' /\ news' <= news + event.new
      /\ \A a \in IPs : reported'[a] <= reported[a] + event.hits[a]
  BY <1>1, <1>2
<1>4. event' \in [primary : IPs \cup {NoIP}, changed : BOOLEAN, new : Nat, hits : [IPs -> Nat],
                  before : SUBSET IPs, known : SUBSET IPs]
      /\ event'.new = 0 /\ \A a \in IPs : event'.hits[a] = 0
  BY <1>1 DEF NoEvent
<1>5. Typed'
  BY <1>1, <1>3, <1>4 DEF Inv, Typed
<1>6. Placed'
  BY <1>1 DEF Inv, Placed
<1>7. SessionIPs' = SessionIPs
  BY <1>1, Kept
<1>8. Inventory'
  <2>1. \A a \in IPs : reported'[a] + event'.hits[a] <= ips'[a]
    <3> TAKE a \in IPs
    <3>1. reported[a] + event.hits[a] <= ips[a]
      BY DEF Inv, Inventory
    <3>2. reported'[a] <= reported[a] + event.hits[a] /\ event'.hits[a] = 0 /\ reported'[a] \in Nat
      BY <1>3, <1>4
    <3>3. reported[a] \in Nat /\ event.hits[a] \in Nat /\ ips[a] \in Nat /\ ips'[a] = ips[a]
      BY <1>1, <1>2
    <3> QED
      BY <3>1, <3>2, <3>3
  <2> QED
    BY <1>1, <1>7, <2>1 DEF Inv, Inventory
<1>9. ChangesAreReal'
  BY <1>1 DEF ChangesAreReal, NoEvent
<1>10. NewKnown'
  <2>1. own # "none" /\ news + event.new <= Cardinality(mem.seen)
    BY <1>1 DEF Inv, Placed, NewKnown
  <2>2. /\ Cardinality(mem.seen) \in Nat /\ Cardinality(SessionIPs) \in Nat
        /\ Cardinality(mem.seen) <= Cardinality(SessionIPs)
    BY SessionIPsSubset, SubsetOfIPs DEF Inv, Inventory
  <2> QED
    BY <1>1, <1>2, <1>3, <1>4, <1>7, <2>1, <2>2 DEF NewKnown
<1> QED
  BY <1>1, <1>5, <1>6, <1>8, <1>9, <1>10, Kept DEF Inv

\* Prepare reads the row and the inventory.
LEMMA PrepareKeeps == ASSUME Inv, Prepare PROVE Inv'
<1>1. /\ own = "none" /\ own' = "live" /\ phase' = "loop" /\ cancelled' = FALSE
      /\ mem' = [seen |-> SessionIPs, previous |-> row.primary, seq |-> row.samples,
                 ok |-> row.ok, total |-> row.total]
      /\ UNCHANGED <<row, ips, probe, event>>
      /\ UNCHANGED <<reported, news, ticks, run, committed, known, cut>>
  BY DEF Prepare, history
<1>2. phase = "idle" /\ event = NoEvent /\ probe = [i \in Probes |-> Waiting]
  BY <1>1 DEF Inv, Placed, Typed
<1>3. mem' \in [seen : SUBSET IPs, previous : IPs \cup {NoIP}, seq : Nat, ok : Nat, total : Nat]
  BY <1>1, SessionIPsSubset DEF Inv, Typed
<1>4. /\ mem'.seen = SessionIPs /\ mem'.previous = row.primary /\ mem'.seq = row.samples
      /\ mem'.ok = row.ok /\ mem'.total = row.total
  BY <1>1
<1>5. Typed'
  BY <1>1, <1>3 DEF Inv, Typed
<1>6. Placed'
  BY <1>1, <1>2 DEF Inv, Placed
<1>7. CutByCancel'
  BY <1>1, <1>2, WaitingIdle DEF Inv, CutByCancel
<1>8. SessionIPs' = SessionIPs
  BY <1>1, Kept
<1>9. Counted(mem.seq, mem.ok, mem.total)'
  BY <1>1, <1>4 DEF Inv, Counted
<1>10. Inventory'
  BY <1>1, <1>4, <1>8 DEF Inv, Inventory
<1>11. Primaries'
  BY <1>1, <1>4, <1>8 DEF Inv, Primaries
<1>12. NewKnown'
  <2>1. news <= Cardinality(SessionIPs) /\ news \in Nat /\ event.new = 0
    BY <1>2 DEF Inv, NewKnown, Typed, NoEvent
  <2> QED
    BY <1>1, <1>4, <1>8, <2>1 DEF NewKnown
<1> QED
  BY <1>1, <1>5, <1>6, <1>7, <1>9, <1>10, <1>11, <1>12, Kept DEF Inv

LEMMA BeginTickKeeps == ASSUME Inv, BeginTick PROVE Inv'
<1>1. /\ phase = "loop" /\ phase' = "probe" /\ ticks < MaxTicks /\ ticks' = ticks + 1 /\ own = "live"
      /\ UNCHANGED <<row, ips, own, mem, cancelled, probe, event, reported, news, run, committed, known, cut>>
  BY DEF BeginTick
<1>2. ticks' \in 0 .. MaxTicks /\ ticks \in Nat
  BY <1>1, TickAssumption DEF Inv, Typed
<1>3. Typed'
  BY <1>1, <1>2 DEF Inv, Typed
<1>4. Placed'
  BY <1>1 DEF Inv, Placed
<1>5. Counted(row.samples, row.ok, row.total)'
  <2>1. row.samples \in Nat
    BY DEF Inv, Typed
  <2> QED
    BY <1>1, <1>2, <2>1 DEF Inv, Counted
<1>6. Counted(mem.seq, mem.ok, mem.total)'
  <2>1. mem.seq \in Nat
    BY DEF Inv, Typed
  <2> QED
    BY <1>1, <1>2, <2>1 DEF Inv, Counted
<1> QED
  BY <1>1, <1>3, <1>4, <1>5, <1>6, Kept DEF Inv

LEMMA RunReturnsKeeps == ASSUME Inv, RunReturns PROVE Inv'
<1>1. /\ own = "live" /\ phase = "loop" /\ own' = "held" /\ phase' = "idle"
      /\ UNCHANGED <<row, ips, mem, cancelled, probe, event>>
      /\ UNCHANGED <<reported, news, ticks, run, committed, known, cut>>
  BY DEF RunReturns, history
<1>2. Typed'
  BY <1>1 DEF Inv, Typed
<1>3. Placed'
  BY <1>1 DEF Inv, Placed
<1>4. SessionIPs' = SessionIPs
  BY <1>1, Kept
<1>5. Primaries'
  BY <1>1, <1>4 DEF Inv, Primaries
<1>6. NewKnown'
  BY <1>1, <1>4 DEF Inv, NewKnown
<1> QED
  BY <1>1, <1>2, <1>3, <1>5, <1>6, Kept DEF Inv

LEMMA CancelKeeps == ASSUME Inv, Cancel PROVE Inv'
<1>1. /\ cancelled' = TRUE
      /\ UNCHANGED <<row, ips, own, mem, phase, probe, event>>
      /\ UNCHANGED <<reported, news, ticks, run, committed, known, cut>>
  BY DEF Cancel, history
<1>2. Typed'
  BY <1>1 DEF Inv, Typed
<1>3. Placed'
  BY <1>1 DEF Inv, Placed
<1>4. CutByCancel'
  BY <1>1 DEF Inv, CutByCancel
<1> QED
  BY <1>1, <1>2, <1>3, <1>4, Kept DEF Inv

LEMMA RelaunchKeeps == ASSUME Inv, Relaunch PROVE Inv'
<1>1. /\ own = "held" /\ own' = "live" /\ phase' = "loop" /\ cancelled' = FALSE
      /\ UNCHANGED <<row, ips, mem, probe, event>>
      /\ UNCHANGED <<reported, news, ticks, run, committed, known, cut>>
  BY DEF Relaunch, history
<1>2. phase = "idle" /\ probe = [i \in Probes |-> Waiting]
  BY <1>1 DEF Inv, Placed, Typed
<1>3. Typed'
  BY <1>1 DEF Inv, Typed
<1>4. Placed'
  BY <1>1, <1>2 DEF Inv, Placed
<1>5. CutByCancel'
  BY <1>1, <1>2, WaitingIdle DEF Inv, CutByCancel
<1>6. SessionIPs' = SessionIPs
  BY <1>1, Kept
<1>7. Primaries'
  BY <1>1, <1>6 DEF Inv, Primaries
<1>8. NewKnown'
  BY <1>1, <1>6 DEF Inv, NewKnown
<1> QED
  BY <1>1, <1>3, <1>4, <1>5, <1>7, <1>8, Kept DEF Inv

\* A worker that is gone knows nothing, and claims nothing.
LEMMA Forgotten ==
  ASSUME Inv, Forget, phase' = "idle", event' = NoEvent, UNCHANGED <<ips, reported, news, ticks, committed, known>>,
         row' \in [status : {"running", "stopped"}, samples : Nat, ok : Nat, total : Nat, distinct : Nat,
                   primary : IPs \cup {NoIP}],
         row'.distinct = row.distinct, row'.primary = row.primary
  PROVE  /\ mem' \in [seen : SUBSET IPs, previous : IPs \cup {NoIP}, seq : Nat, ok : Nat, total : Nat]
         /\ event' \in [primary : IPs \cup {NoIP}, changed : BOOLEAN, new : Nat, hits : [IPs -> Nat],
                        before : SUBSET IPs, known : SUBSET IPs]
         /\ Counted(mem.seq, mem.ok, mem.total)' /\ Inventory' /\ Primaries' /\ ChangesAreReal' /\ NewKnown'
<1>1. mem' = NoMemory /\ own' = "none"
  BY DEF Forget
<1>2. /\ mem' \in [seen : SUBSET IPs, previous : IPs \cup {NoIP}, seq : Nat, ok : Nat, total : Nat]
      /\ mem'.seen = {} /\ mem'.previous = NoIP /\ mem'.seq = 0 /\ mem'.ok = 0 /\ mem'.total = 0
  BY <1>1 DEF NoMemory
<1>3. /\ event' \in [primary : IPs \cup {NoIP}, changed : BOOLEAN, new : Nat, hits : [IPs -> Nat],
                     before : SUBSET IPs, known : SUBSET IPs]
      /\ \A a \in IPs : event'.hits[a] = 0
  BY DEF NoEvent
<1>4. SessionIPs' = SessionIPs
  BY Kept
<1>5. Counted(mem.seq, mem.ok, mem.total)'
  <2>1. Cardinality(Hits(ips)) \in Nat /\ ticks \in Nat
    BY HitsFinite DEF Inv, Typed
  <2> QED
    BY <1>2, <2>1, ProbesFinite DEF Counted
<1>6. Inventory'
  <2>1. \A a \in IPs : reported'[a] + event'.hits[a] <= ips'[a]
    <3> TAKE a \in IPs
    <3>1. reported[a] + event.hits[a] <= ips[a] /\ reported[a] \in Nat /\ event.hits[a] \in Nat /\ ips[a] \in Nat
      BY DEF Inv, Inventory, Typed
    <3> QED
      BY <1>3, <3>1
  <2> QED
    BY <1>2, <1>4, <2>1 DEF Inv, Inventory
<1>7. Primaries'
  BY <1>1, <1>2, <1>4 DEF Inv, Primaries
<1>8. ChangesAreReal'
  BY DEF ChangesAreReal, NoEvent
<1>9. NewKnown'
  BY <1>1, <1>4 DEF Inv, NewKnown
<1> QED
  BY <1>2, <1>3, <1>5, <1>6, <1>7, <1>8, <1>9

LEMMA StopSessionKeeps == ASSUME Inv, StopSession PROVE Inv'
<1>1. /\ own = "held" /\ Forget /\ own' = "none" /\ mem' = NoMemory
      /\ row' \in {row, [row EXCEPT !.status = "stopped"]}
      /\ UNCHANGED <<ips, phase, cancelled, probe, event>>
      /\ UNCHANGED <<reported, news, ticks, run, committed, known, cut>>
  BY DEF StopSession, history, Forget
<1>2. phase = "idle" /\ event = NoEvent
  BY <1>1 DEF Inv, Placed, Typed
<1>3. /\ row' \in [status : {"running", "stopped"}, samples : Nat, ok : Nat, total : Nat, distinct : Nat,
                   primary : IPs \cup {NoIP}]
      /\ row'.samples = row.samples /\ row'.ok = row.ok /\ row'.total = row.total
      /\ row'.distinct = row.distinct /\ row'.primary = row.primary
  <2>1. row \in [status : {"running", "stopped"}, samples : Nat, ok : Nat, total : Nat, distinct : Nat,
                 primary : IPs \cup {NoIP}]
    BY DEF Inv, Typed
  <2> QED
    BY <1>1, <2>1
<1>4. /\ mem' \in [seen : SUBSET IPs, previous : IPs \cup {NoIP}, seq : Nat, ok : Nat, total : Nat]
      /\ Counted(mem.seq, mem.ok, mem.total)' /\ Inventory' /\ Primaries' /\ ChangesAreReal' /\ NewKnown'
  BY <1>1, <1>2, <1>3, Forgotten
<1>5. Typed'
  BY <1>1, <1>3, <1>4 DEF Inv, Typed
<1>6. Placed'
  BY <1>1, <1>2 DEF Inv, Placed
<1>7. Counted(row.samples, row.ok, row.total)'
  BY <1>1, <1>3 DEF Inv, Counted
<1> QED
  BY <1>1, <1>4, <1>5, <1>6, <1>7, Kept DEF Inv

LEMMA CrashKeeps == ASSUME Inv, Crash PROVE Inv'
<1>1. /\ Forget /\ own' = "none" /\ mem' = NoMemory /\ phase' = "idle" /\ event' = NoEvent /\ Discard
      /\ UNCHANGED <<row, ips, cancelled>>
      /\ UNCHANGED <<reported, news, ticks, run, committed, known, cut>>
  BY DEF Crash, history, Forget
<1>2. /\ probe' = [i \in Probes |-> Waiting] /\ probe' \in [Probes -> Outcomes \cup {Waiting, Running}]
      /\ CutByCancel' /\ Slots'
  <2>1. ~cut'
    BY <1>1 DEF Inv, CutByCancel
  <2> QED
    BY <1>1, <2>1, Discarded
<1>3. row' \in [status : {"running", "stopped"}, samples : Nat, ok : Nat, total : Nat, distinct : Nat,
                primary : IPs \cup {NoIP}]
  BY <1>1 DEF Inv, Typed
<1>4. /\ mem' \in [seen : SUBSET IPs, previous : IPs \cup {NoIP}, seq : Nat, ok : Nat, total : Nat]
      /\ event' \in [primary : IPs \cup {NoIP}, changed : BOOLEAN, new : Nat, hits : [IPs -> Nat],
                     before : SUBSET IPs, known : SUBSET IPs]
      /\ Counted(mem.seq, mem.ok, mem.total)' /\ Inventory' /\ Primaries' /\ ChangesAreReal' /\ NewKnown'
  BY <1>1, <1>3, Forgotten
<1>5. Typed'
  BY <1>1, <1>2, <1>4 DEF Inv, Typed
<1>6. Placed'
  BY <1>1, <1>2 DEF Placed
<1> QED
  BY <1>1, <1>2, <1>4, <1>5, <1>6, Kept DEF Inv

\* Only the status of the row changes; the worker may run again.
LEMMA StopSessionLostKeeps == ASSUME Inv, StopSessionLost PROVE Inv'
<1>1. /\ row' = [row EXCEPT !.status = "stopped"]
      /\ UNCHANGED <<ips, own, mem, phase, cancelled, probe, event>>
      /\ UNCHANGED <<reported, news, ticks, run, committed, known, cut>>
  BY DEF StopSessionLost, history
<1>2. /\ row' \in [status : {"running", "stopped"}, samples : Nat, ok : Nat, total : Nat, distinct : Nat,
                   primary : IPs \cup {NoIP}]
      /\ row'.samples = row.samples /\ row'.ok = row.ok /\ row'.total = row.total
      /\ row'.distinct = row.distinct /\ row'.primary = row.primary
  <2>1. row \in [status : {"running", "stopped"}, samples : Nat, ok : Nat, total : Nat, distinct : Nat,
                 primary : IPs \cup {NoIP}]
    BY DEF Inv, Typed
  <2> QED
    BY <1>1, <2>1
<1>3. Typed'
  BY <1>1, <1>2 DEF Inv, Typed
<1>4. Placed'
  BY <1>1 DEF Inv, Placed
<1>5. Counted(row.samples, row.ok, row.total)'
  BY <1>1, <1>2 DEF Inv, Counted
<1>6. SessionIPs' = SessionIPs
  BY <1>1, Kept
<1>7. Inventory' /\ Primaries'
  BY <1>1, <1>2, <1>6 DEF Inv, Inventory, Primaries
<1> QED
  BY <1>1, <1>3, <1>4, <1>5, <1>7, Kept DEF Inv

\* The row forgets its last address together with the run that stored it, and
\* so does the session, unless a worker still knows of that run.
LEMMA ReenableSessionKeeps == ASSUME Inv, ReenableSession PROVE Inv'
<1>1. /\ row' = [row EXCEPT !.status = "running", !.samples = 0, !.ok = 0, !.total = 0, !.primary = NoIP]
      /\ committed' = (IF own = "none" THEN {} ELSE committed) /\ known' = {}
      /\ UNCHANGED <<ips, own, mem, phase, cancelled, probe, event, reported, news, ticks, cut>>
  BY DEF ReenableSession
<1>2. /\ row' \in [status : {"running", "stopped"}, samples : Nat, ok : Nat, total : Nat, distinct : Nat,
                   primary : IPs \cup {NoIP}]
      /\ row'.samples = 0 /\ row'.ok = 0 /\ row'.total = 0 /\ row'.primary = NoIP
      /\ row'.distinct = row.distinct
  <2>1. row \in [status : {"running", "stopped"}, samples : Nat, ok : Nat, total : Nat, distinct : Nat,
                 primary : IPs \cup {NoIP}]
    BY DEF Inv, Typed
  <2> QED
    BY <1>1, <2>1
<1>3. committed' \subseteq committed /\ (own = "none" => mem.previous = NoIP)
  BY <1>1 DEF Inv, Placed, NoMemory
<1>4. Typed'
  BY <1>1, <1>2, <1>3 DEF Inv, Typed
<1>5. Placed'
  BY <1>1 DEF Inv, Placed
<1>6. Counted(row.samples, row.ok, row.total)'
  <2>1. Cardinality(Hits(ips)) \in Nat /\ ticks \in Nat
    BY HitsFinite DEF Inv, Typed
  <2>2. phase \in {"probe", "save"} => 0 < ticks
    BY <2>1 DEF Inv, Typed, Counted
  <2> QED
    BY <1>1, <1>2, <2>1, <2>2, ProbesFinite DEF Counted
<1>7. SessionIPs' = SessionIPs
  BY <1>1, Kept
<1>8. Inventory'
  BY <1>1, <1>2, <1>7 DEF Inv, Inventory
<1>9. Primaries'
  BY <1>1, <1>2, <1>3, <1>7 DEF Inv, Primaries
<1> QED
  BY <1>1, <1>4, <1>5, <1>6, <1>8, <1>9, Kept DEF Inv

-----------------------------------------------------------------------------
(* The theorems.                                                           *)

LEMMA NextKeeps == Inv /\ [Next]_vars => Inv'
<1> SUFFICES ASSUME Inv, [Next]_vars PROVE Inv'
  OBVIOUS
<1>1. CASE Probing
  <2>1. PICK i \in Probes : ProbeStarts(i) \/ ProbeGivesUp(i) \/ \E r \in Outcomes : ProbeEnds(i, r)
    BY <1>1 DEF Probing
  <2>2. CASE ProbeStarts(i)
    <3>1. Running # Cut
      <4>1. Running.err = "running" /\ Cut.err = "cancelled"
        BY DEF Running, Cut, Result
      <4> QED
        BY <4>1
    <3> QED
      BY <2>2, <3>1, ProbeKeeps DEF ProbeStarts
  <2>3. CASE ProbeGivesUp(i)
    <3>1. Cut \in Outcomes
      BY DEF Outcomes
    <3>2. Running # Cut
      <4>1. Running.err = "running" /\ Cut.err = "cancelled"
        BY DEF Running, Cut, Result
      <4> QED
        BY <4>1
    <3> QED
      BY <2>3, <3>1, <3>2, ProbeKeeps DEF ProbeGivesUp
  <2>4. CASE \E r \in Outcomes : ProbeEnds(i, r)
    <3>1. PICK r \in Outcomes : ProbeEnds(i, r)
      BY <2>4
    <3>2. r # Running
      BY EndedIsNotRunning
    <3> QED
      BY <3>1, <3>2, ProbeKeeps DEF ProbeEnds
  <2> QED
    BY <2>1, <2>2, <2>3, <2>4
<1>2. CASE Worker /\ ~Probing
  BY <1>2, ProbesDoneKeeps, SaveTickKeeps, SaveTickLostKeeps, SaveTickFailsKeeps, EnqueueKeeps, RunReturnsKeeps
     DEF Worker
<1>3. CASE Prepare
  BY <1>3, PrepareKeeps
<1>4. CASE BeginTick
  BY <1>4, BeginTickKeeps
<1>5. CASE Cancel
  BY <1>5, CancelKeeps
<1>6. CASE StopSession
  BY <1>6, StopSessionKeeps
<1>7. CASE Relaunch
  BY <1>7, RelaunchKeeps
<1>8. CASE Crash
  BY <1>8, CrashKeeps
<1>9. CASE ReenableSession
  BY <1>9, ReenableSessionKeeps
<1>10. CASE StopSessionLost
  BY <1>10, StopSessionLostKeeps
<1>11. CASE UNCHANGED vars
  BY <1>11, NothingChanges
<1> QED
  BY <1>1, <1>2, <1>3, <1>4, <1>5, <1>6, <1>7, <1>8, <1>9, <1>10, <1>11 DEF Next, Worker

LEMMA InvHolds == Spec => []Inv
  BY InitEstablishes, NextKeeps, PTL DEF Spec

LEMMA InvConsistent == Inv => TickConsistent
<1> SUFFICES ASSUME Inv PROVE TickConsistent
  OBVIOUS
<1>1. /\ row \in [status : {"running", "stopped"}, samples : Nat, ok : Nat, total : Nat, distinct : Nat,
                  primary : IPs \cup {NoIP}]
      /\ ips \in [IPs -> Nat] /\ reported \in [IPs -> Nat] /\ event.hits \in [IPs -> Nat]
      /\ mem.seen \subseteq IPs /\ ticks \in Nat /\ ticks <= MaxTicks /\ MaxTicks \in Nat
  BY TickAssumption DEF Inv, Typed
<1>2. /\ row.samples <= ticks /\ row.total = row.samples * ProbesPerSample /\ row.ok <= row.total
      /\ row.ok <= Cardinality(Hits(ips))
  BY DEF Inv, Counted
<1>3. /\ Cardinality(SessionIPs) \in Nat /\ Cardinality(SessionIPs) <= Cardinality(IPs) /\ Cardinality(IPs) \in Nat
  BY SessionIPsSubset, SubsetOfIPs
<1>4. row.samples * ProbesPerSample <= MaxTicks * ProbesPerSample /\ MaxTicks * ProbesPerSample \in Nat
  <2>1. row.samples \in Nat /\ row.samples <= MaxTicks
    BY <1>1, <1>2
  <2>2. ASSUME NEW x \in Nat, NEW y \in Nat, NEW k \in Nat, x <= y PROVE x * k <= y * k /\ y * k \in Nat
    BY <2>2
  <2> QED
    BY <1>1, <2>1, <2>2, ProbesFinite
<1>5. TypeOK
  <2>1. /\ row.samples \in 0 .. MaxTicks /\ row.ok \in 0 .. MaxTicks * ProbesPerSample
        /\ row.total \in 0 .. MaxTicks * ProbesPerSample
    BY <1>1, <1>2, <1>4
  <2>2. row.distinct \in 0 .. Cardinality(IPs)
    BY <1>1, <1>3 DEF Inv, Inventory
  <2>3. row \in [status : {"running", "stopped"}, samples : 0 .. MaxTicks, ok : 0 .. MaxTicks * ProbesPerSample,
                 total : 0 .. MaxTicks * ProbesPerSample, distinct : 0 .. Cardinality(IPs), primary : IPs \cup {NoIP}]
    BY <1>1, <2>1, <2>2
  <2>4. Cardinality(Busy) <= MaxConcurrentProbes
    <3>1. Busy \in SUBSET Probes
      BY DEF Busy
    <3>2. Cardinality(Busy) \in Nat
      BY <3>1, ProbesFinite, FS_Subset, FS_CardinalityType
    <3> QED
      BY <3>2, LimitIs DEF Inv, Slots
  <2> QED
    BY <1>1, <2>3, <2>4 DEF TypeOK, Inv, Typed
<1>6. InventoryCovers
  <2>1. \A a \in IPs : reported[a] <= ips[a]
    <3> TAKE a \in IPs
    <3>1. reported[a] + event.hits[a] <= ips[a]
      BY DEF Inv, Inventory
    <3> QED
      BY <1>1, <3>1
  <2>2. row.primary # NoIP => row.primary \in SessionIPs
    BY DEF Inv, Primaries
  <2> QED
    BY <1>2, <2>1, <2>2 DEF InventoryCovers, Inv, Inventory
<1> QED
  BY <1>5, <1>6 DEF TickConsistent, CutTicksForgotten, NewOnlyOnce, Inv, CutByCancel, NewKnown

\* Through every cancellation, lost acknowledgement, crash, restart and
\* re-enable of PreparedWorker.tick and Store.SaveTick: the inventory of
\* session_ips covers the snapshot, the worker's memory and the events, each
\* good probe is counted, a tick that was cut short leaves no trace, and no
\* address is reported as new twice.
THEOREM TickConsistentHolds == Spec => []TickConsistent
  BY InvHolds, InvConsistent, PTL

\* An event that tells ClickHouse of a changed address tells of a change
\* within the run, or, from a worker that a failed stop left to the next run,
\* within the runs it served (supervisor.go:126, :224); and a change within the
\* run that the worker can know of is told.
THEOREM ChangesAreRealHolds == Spec => []ChangesAreReal
<1>1. Inv => ChangesAreReal
  BY DEF Inv
<1> QED BY <1>1, InvHolds, PTL

=============================================================================
