------------------------ MODULE SampleSequenceProofs ------------------------
(***************************************************************************)
(* SequenceUnique, RowCoversIssued, CapRespected and InventoryCovers hold  *)
(* for every Limit, cap, set of addresses and number of ticks.             *)
(*                                                                         *)
(* The inductive invariant ties memory to the row: whatever the single     *)
(* prepared worker holds, its base never exceeds the row's offset, and     *)
(* base + seq bounds every number issued so far.  So a number is fresh     *)
(* when it is issued, and a worker prepared from the row starts at or      *)
(* above everything issued.                                                *)
(***************************************************************************)
EXTENDS SampleSequence, FiniteSetTheorems, TLAPS

\* What uint32 arithmetic does to a number, in general and below 2^32.
LEMMA ModFacts ==
  ASSUME NEW n \in Int, NEW m \in Nat, m > 0
  PROVE  /\ n % m \in 0 .. m - 1
         /\ n \in 0 .. m - 1 => n % m = n
BY SMT

\* Memory and row, while no run has taken Limit samples.
Ahead ==
  /\ samples >= 0 /\ offset >= 0
  /\ own # "none" => base >= 0 /\ base <= offset /\ seq < Limit
  /\ own \in {"live", "finishing", "held"} => \A i \in DOMAIN issued : issued[i] <= base + seq
  /\ own = "saved" => \A i \in DOMAIN issued : issued[i] < base + seq
  /\ own # "none" => base + seq <= offset + samples

CapInv == cap # 0 => ~overrun /\ samples <= cap /\ (own # "none" => seq <= cap)

SeenInv == own # "none" => seen \subseteq ips

IInv ==
  /\ TypeOK
  /\ ~overrun => Ahead
  /\ SequenceUnique
  /\ RowCoversIssued
  /\ CapInv
  /\ SeenInv

USE SequenceAssumption

\* uint32(n) is in range, and is n when n already is.
LEMMA Widths ==
  ASSUME NEW n \in Int
  PROVE  /\ ToUint32(n) \in 0 .. 2 * Limit - 1
         /\ n \in 0 .. 2 * Limit - 1 => ToUint32(n) = n
BY ModFacts DEF ToUint32

\* The caps of a session never change.
LEMMA ConfigStep == [Next]_vars => cap' = cap /\ timed' = timed
  BY Zenon DEF Next, vars, row, config, Prepare, ReachCap, Cancel, Restore, Lose, Reenable, TickSaved,
               TickLost, Commit, Enqueue, Finish, StopRow

\* Every step keeps the 32-bit ranges.
LEMMA TypeStep == TypeOK /\ [Next]_vars => TypeOK'
<1> SUFFICES ASSUME TypeOK, [Next]_vars PROVE TypeOK'
    OBVIOUS
<1> DEFINE Rest ==
      /\ status \in {"running", "stopped", "finished"}
      /\ samples \in -Limit .. Limit - 1 /\ offset \in -Limit .. Limit - 1
      /\ distinct \in Nat /\ ips \subseteq IPs
      /\ own \in {"none", "live", "saved", "finishing", "held"}
      /\ base \in -Limit .. Limit - 1 /\ seq \in 0 .. 2 * Limit - 1 /\ seen \subseteq IPs
      /\ issued \in Seq(Nat) /\ overrun \in BOOLEAN
<1>p. Rest /\ cap' \in Caps /\ timed' \in Timed
  BY ConfigStep, Zenon DEF TypeOK
<1>q. SUFFICES Rest'
  BY <1>p, Zenon DEF TypeOK
<1> HIDE DEF TypeOK
<1>0. NextSeq \in 0 .. 2 * Limit - 1 /\ ToInt32(NextSeq) \in -Limit .. Limit - 1
  <2>1. NextSeq \in 0 .. 2 * Limit - 1
    BY <1>p, Widths DEF NextSeq
  <2> QED BY <2>1 DEF ToInt32
<1>c. ASSUME NEW hits \in SUBSET IPs
      PROVE Cardinality(seen \cup hits) \in Nat
  <2>1. IsFiniteSet(seen \cup hits)
    BY <1>p, FS_Subset
  <2> QED BY <2>1, FS_CardinalityType
<1>1. CASE Prepare
  BY <1>p, <1>1 DEF Prepare, row, history
<1>2. CASE ReachCap \/ Cancel \/ Restore \/ Lose
  BY <1>p, <1>2 DEF ReachCap, Cancel, Restore, Lose, Dropped, row, history
<1>3. CASE Reenable
  BY <1>p, <1>3 DEF Reenable, mem
<1>4. ASSUME NEW hits \in SUBSET IPs, TickSaved(hits) PROVE Rest'
  BY <1>p, <1>4, <1>0, <1>c DEF TickSaved, Commit
<1>5. ASSUME NEW hits \in SUBSET IPs, TickLost(hits) PROVE Rest'
  BY <1>p, <1>5, <1>0, <1>c DEF TickLost, Commit
<1>6. ASSUME NEW b \in BOOLEAN, Enqueue(b) PROVE Rest'
  <2>1. ClickHouseSeq \in Nat
    BY <1>p, Widths DEF ClickHouseSeq
  <2> QED BY <1>p, <1>6, <2>1 DEF Enqueue, row
<1>7. ASSUME NEW b \in BOOLEAN, Finish(b) \/ StopRow(b) PROVE Rest'
  BY <1>p, <1>7 DEF Finish, StopRow, Dropped, mem, history
<1>8. CASE UNCHANGED vars
  BY <1>p, <1>8 DEF vars, row, mem, history
<1> QED BY <1>1, <1>2, <1>3, <1>4, <1>5, <1>6, <1>7, <1>8 DEF Next

\* Without an overrun the number of a saved sample is base + seq.
LEMMA SavedNumber == IInv /\ ~overrun /\ own = "saved" => ClickHouseSeq = base + seq
<1> SUFFICES ASSUME IInv, ~overrun, own = "saved" PROVE ClickHouseSeq = base + seq
    OBVIOUS
<1>1. Limit \in Nat /\ base \in Int /\ seq \in Int /\ offset \in Int /\ offset < Limit
  BY DEF IInv, TypeOK
<1>2. base >= 0 /\ base <= offset /\ seq >= 0 /\ seq < Limit
  BY DEF IInv, TypeOK, Ahead
<1>3. base \in 0 .. 2 * Limit - 1 /\ base + seq \in 0 .. 2 * Limit - 1
  BY <1>1, <1>2
<1>4. ToUint32(base) = base /\ ToUint32(base + seq) = base + seq
  BY <1>3, Widths
<1> QED BY <1>4 DEF ClickHouseSeq

\* Every step keeps memory and row ahead of what was issued.
LEMMA AheadStep == IInv /\ [Next]_vars => (~overrun => Ahead)'
<1> SUFFICES ASSUME IInv, [Next]_vars, ~overrun' PROVE Ahead'
    OBVIOUS
<1> USE DEF IInv, TypeOK, Ahead, RowCoversIssued
<1>1. CASE Prepare
  BY <1>1 DEF Prepare, row, history
<1>2. CASE ReachCap \/ Cancel \/ Restore \/ Lose
  BY <1>2 DEF ReachCap, Cancel, Restore, Lose, Dropped, row, history
<1>3. CASE Reenable
  BY <1>3 DEF Reenable, mem
<1>t. ASSUME NEW hits, Commit(hits), own = "live"
      PROVE  ~overrun /\ NextSeq = seq + 1 /\ seq + 1 < Limit /\ samples' = seq + 1
  <2>0. NextSeq \in 1 .. Limit - 1
    BY <1>t, Zenon DEF Commit
  <2>1. ~overrun
    BY <1>t, <2>0, Zenon DEF Commit
  <2>2. seq + 1 \in 0 .. 2 * Limit - 1
    BY <1>t, <2>1
  <2> QED BY <1>t, <2>0, <2>1, <2>2, Widths DEF Commit, NextSeq, ToInt32
<1>4. ASSUME NEW hits, TickSaved(hits) PROVE Ahead'
  <2>1. Commit(hits) /\ own = "live"
    BY <1>4 DEF TickSaved
  <2>2. ~overrun /\ NextSeq = seq + 1 /\ seq + 1 < Limit /\ samples' = seq + 1
    BY <1>t, <2>1
  <2>3. own' = "saved" /\ seq' = seq + 1 /\ base' = base /\ issued' = issued /\ offset' = offset
    BY <1>4, <2>1, <2>2 DEF TickSaved, Commit
  <2> QED BY <2>1, <2>2, <2>3
<1>5. ASSUME NEW hits, TickLost(hits) PROVE Ahead'
  <2>1. Commit(hits) /\ own = "live"
    BY <1>5 DEF TickLost
  <2>2. ~overrun /\ samples' = seq + 1
    BY <1>t, <2>1
  <2>3. own' = own /\ seq' = seq /\ base' = base /\ issued' = issued /\ offset' = offset
    BY <1>5, <2>1 DEF TickLost, Commit
  <2> QED BY <2>1, <2>2, <2>3
<1>6. ASSUME NEW b \in BOOLEAN, Enqueue(b) PROVE Ahead'
  <2>1. ~overrun
    BY <1>6, Zenon DEF Enqueue
  <2>2. ClickHouseSeq = base + seq
    BY <1>6, <2>1, SavedNumber DEF Enqueue
  <2> QED BY <1>6, <2>1, <2>2 DEF Enqueue, row
<1>7. ASSUME NEW b \in BOOLEAN, Finish(b) \/ StopRow(b) PROVE Ahead'
  BY <1>7 DEF Finish, StopRow, Dropped, mem, history
<1>8. CASE UNCHANGED vars
  BY <1>8 DEF vars, row, mem, history
<1> QED BY <1>1, <1>2, <1>3, <1>4, <1>5, <1>6, <1>7, <1>8 DEF Next

\* Every step keeps the issued numbers increasing and below the row's sum.
LEMMA IssuedStep == IInv /\ [Next]_vars => SequenceUnique' /\ RowCoversIssued'
<1> SUFFICES ASSUME IInv, [Next]_vars, ~overrun'
             PROVE  /\ (\A i, j \in DOMAIN issued : i < j => issued[i] < issued[j])'
                    /\ (\A i \in DOMAIN issued : issued[i] <= offset + samples)'
    BY DEF SequenceUnique, RowCoversIssued
<1> DEFINE Goal == /\ (\A i, j \in DOMAIN issued : i < j => issued[i] < issued[j])'
                   /\ (\A i \in DOMAIN issued : issued[i] <= offset + samples)'
<1> USE DEF IInv, TypeOK, Ahead, RowCoversIssued, SequenceUnique
<1>1. CASE Prepare \/ ReachCap \/ Cancel \/ Restore \/ Lose
  BY <1>1 DEF Prepare, ReachCap, Cancel, Restore, Lose, Dropped, row, history
<1>2. CASE Reenable
  BY <1>2 DEF Reenable, mem
<1>3. ASSUME NEW hits, Commit(hits), own = "live"
      PROVE  ~overrun /\ samples' = seq + 1 /\ offset' = offset
  <2>0. NextSeq \in 1 .. Limit - 1
    BY <1>3, Zenon DEF Commit
  <2>1. ~overrun
    BY <1>3, <2>0, Zenon DEF Commit
  <2>2. seq + 1 \in 0 .. 2 * Limit - 1
    BY <1>3, <2>1
  <2> QED BY <1>3, <2>0, <2>1, <2>2, Widths DEF Commit, NextSeq, ToInt32
<1>4. ASSUME NEW hits, TickSaved(hits) \/ TickLost(hits) PROVE Goal
  <2>1. Commit(hits) /\ own = "live" /\ issued' = issued
    BY <1>4 DEF TickSaved, TickLost
  <2>2. ~overrun /\ samples' = seq + 1 /\ offset' = offset
    BY <1>3, <2>1
  <2> QED BY <2>1, <2>2
<1>5. ASSUME NEW b \in BOOLEAN, Enqueue(b) PROVE Goal
  <2>1. ~overrun
    BY <1>5, Zenon DEF Enqueue
  <2>2. ClickHouseSeq = base + seq
    BY <1>5, <2>1, SavedNumber DEF Enqueue
  <2>3. CASE ~b
    BY <1>5, <2>1, <2>3 DEF Enqueue, row
  <2>4. CASE b
    <3>1. issued' = Append(issued, base + seq) /\ offset' = offset /\ samples' = samples
      BY <1>5, <2>2, <2>4 DEF Enqueue, row
    <3>2. \A i \in DOMAIN issued : issued[i] < base + seq
      BY <1>5, <2>1 DEF Enqueue
    <3>3. base + seq <= offset + samples
      BY <1>5, <2>1 DEF Enqueue
    <3> QED BY <2>1, <3>1, <3>2, <3>3
  <2> QED BY <2>3, <2>4
<1>6. ASSUME NEW b \in BOOLEAN, Finish(b) \/ StopRow(b) PROVE Goal
  BY <1>6 DEF Finish, StopRow, Dropped, mem, history
<1>7. CASE UNCHANGED vars
  BY <1>7 DEF vars, row, mem, history
<1> QED BY <1>1, <1>2, <1>4, <1>5, <1>6, <1>7 DEF Next

\* Every step keeps the counters within the cap.
LEMMA CapStep == IInv /\ [Next]_vars => CapInv'
<1> SUFFICES ASSUME IInv, [Next]_vars, cap # 0
             PROVE  ~overrun' /\ samples' <= cap /\ (own' # "none" => seq' <= cap)
    BY ConfigStep DEF CapInv
<1> DEFINE Goal == ~overrun' /\ samples' <= cap /\ (own' # "none" => seq' <= cap)
<1> USE DEF IInv, TypeOK, CapInv
<1>1. CASE Prepare \/ ReachCap \/ Cancel \/ Restore \/ Lose
  BY <1>1 DEF Prepare, ReachCap, Cancel, Restore, Lose, Dropped, row, history
<1>2. CASE Reenable
  BY <1>2 DEF Reenable, mem
<1>3. ASSUME NEW hits, TickSaved(hits) \/ TickLost(hits) PROVE Goal
  <2>1. seq < cap
    BY <1>3 DEF TickSaved, TickLost, CapReached
  <2>2. NextSeq = seq + 1
    BY <2>1, Widths DEF NextSeq
  <2>3. ToInt32(NextSeq) = seq + 1
    BY <2>1, <2>2 DEF ToInt32
  <2>4. NextSeq \in 1 .. Limit - 1
    BY <2>1, <2>2
  <2>5. Commit(hits)
    BY <1>3 DEF TickSaved, TickLost
  <2>6. ~overrun'
    BY <2>4, <2>5, Zenon DEF Commit
  <2>7. samples' = seq + 1
    BY <2>3, <2>5 DEF Commit
  <2>8. seq' \in {seq, seq + 1}
    BY <1>3, <2>2 DEF TickSaved, TickLost
  <2> QED BY <2>1, <2>6, <2>7, <2>8
<1>4. ASSUME NEW b \in BOOLEAN, Enqueue(b) \/ Finish(b) \/ StopRow(b) PROVE Goal
  BY <1>4 DEF Enqueue, Finish, StopRow, Dropped, row, mem, history
<1>5. CASE UNCHANGED vars
  BY <1>5 DEF vars, row, mem, history
<1> QED BY <1>1, <1>2, <1>3, <1>4, <1>5 DEF Next

\* The worker's addresses are in the inventory.
LEMMA SeenStep == IInv /\ [Next]_vars => SeenInv'
  BY DEF IInv, TypeOK, SeenInv, Next, vars, row, mem, history, Prepare, ReachCap, Cancel, Restore, Lose,
         Reenable, TickSaved, TickLost, Commit, Enqueue, Finish, StopRow, Dropped

\* The inductive invariant of the session's counters.
THEOREM Inductive == Spec => []IInv
<1>1. Init => IInv
  <2> SUFFICES ASSUME Init PROVE IInv
      OBVIOUS
  <2>1. TypeOK
    <3>1. overrun \in BOOLEAN
      BY Zenon DEF Init
    <3>2. issued \in Seq(Nat) /\ distinct \in Nat
      BY DEF Init
    <3>3. /\ samples \in -Limit .. Limit - 1 /\ offset \in -Limit .. Limit - 1
          /\ base \in -Limit .. Limit - 1 /\ seq \in 0 .. 2 * Limit - 1
      BY DEF Init
    <3> QED BY <3>1, <3>2, <3>3, Zenon DEF Init, TypeOK
  <2>2. ~overrun
    BY DEF Init
  <2>3. Ahead /\ SequenceUnique /\ RowCoversIssued
    BY DEF Init, Ahead, SequenceUnique, RowCoversIssued
  <2>4. CapInv /\ SeenInv
    BY <2>2 DEF Init, CapInv, SeenInv
  <2> QED BY <2>1, <2>3, <2>4 DEF IInv
<1>2. IInv /\ [Next]_vars => IInv'
  <2>1. IInv => TypeOK
    BY DEF IInv
  <2> QED BY <2>1, TypeStep, AheadStep, IssuedStep, CapStep, SeenStep DEF IInv
<1> QED BY <1>1, <1>2, PTL DEF Spec

\* The state of a session keeps its 32-bit ranges.
THEOREM TypeCorrect == Spec => []TypeOK
<1>1. IInv => TypeOK
  BY DEF IInv
<1> QED BY <1>1, Inductive, PTL

\* Sequence numbers in ClickHouse are never repeated and grow, whatever
\* crashes, lost replies, restored stops and re-enables happen.
THEOREM NumbersUnique == Spec => []SequenceUnique
<1>1. IInv => SequenceUnique
  BY DEF IInv
<1> QED BY <1>1, Inductive, PTL

\* Postgres is never behind ClickHouse.
THEOREM RowCovers == Spec => []RowCoversIssued
<1>1. IInv => RowCoversIssued
  BY DEF IInv
<1> QED BY <1>1, Inductive, PTL

\* The sample cap holds across restarts.
THEOREM CapHolds == Spec => []CapRespected
<1>1. IInv => CapRespected
  BY DEF IInv, TypeOK, CapInv, RowCoversIssued, CapRespected
<1> QED BY <1>1, Inductive, PTL

\* distinct_ips is covered by the stored inventory: the snapshot counts the
\* addresses in memory, and those are all in session_ips.
THEOREM InventoryHolds == Spec => []InventoryCovers
<1>1. Init => InventoryCovers
  BY FS_EmptySet DEF Init, InventoryCovers
<1>2. IInv /\ InventoryCovers /\ [Next]_vars => InventoryCovers'
  <2> SUFFICES ASSUME IInv, InventoryCovers, [Next]_vars PROVE InventoryCovers'
      OBVIOUS
  <2>1. ASSUME NEW hits \in SUBSET IPs, TickSaved(hits) \/ TickLost(hits) PROVE InventoryCovers'
    <3>1. seen \subseteq ips /\ ips \subseteq IPs
      BY <2>1 DEF IInv, TypeOK, SeenInv, TickSaved, TickLost
    <3>2. IsFiniteSet(ips \cup hits)
      BY <3>1, FS_Subset
    <3>3. Cardinality(seen \cup hits) <= Cardinality(ips \cup hits)
      BY <3>1, <3>2, FS_Subset
    <3> QED BY <2>1, <3>3 DEF InventoryCovers, TickSaved, TickLost, Commit
  <2>2. ASSUME distinct' = distinct, ips' = ips PROVE InventoryCovers'
    BY <2>2 DEF InventoryCovers
  <2> QED BY <2>1, <2>2 DEF Next, vars, row, Prepare, ReachCap, Cancel, Restore, Lose, Reenable, Enqueue, Finish, StopRow
<1> QED BY <1>1, <1>2, Inductive, PTL DEF Spec
=============================================================================
