--------------------------- MODULE SampleSequence ---------------------------
(***************************************************************************)
(* The counters of one session: what a worker keeps in memory              *)
(* (PreparedWorker in worker.go), what SaveTick and Reenable write to its  *)
(* Postgres row (db/store.go, sessions.sql), and the sequence numbers of   *)
(* the samples handed to ClickHouse, through crashes, restarts, failed and *)
(* restored stops, re-enables, and commits whose reply was lost.           *)
(*                                                                         *)
(* That a session has at most one prepared worker, running or held by a    *)
(* stop that may restore it, is what Supervisor.tla shows; here it is the  *)
(* single variable own.                                                    *)
(***************************************************************************)
EXTENDS Integers, Sequences, FiniteSets

CONSTANTS
  Limit,       \* 2^31: one more than the largest Postgres integer
  Caps,        \* sample caps a session may have; 0 is no cap
  Timed,       \* duration caps: FALSE for none, TRUE for some
  IPs,         \* egress addresses that probes may see
  MaxTicks     \* bound: number of samples handed to the sink

ASSUME SequenceAssumption ==
  /\ Limit \in Nat \ {0}
  /\ Caps \subseteq 0 .. Limit - 1
  /\ Timed \subseteq BOOLEAN
  /\ MaxTicks \in Nat
  /\ IsFiniteSet(IPs)

VARIABLES
  cap,       \* row: max_samples, or 0
  timed,     \* row: the session has a max_duration_seconds
  status,    \* row: status
  samples,   \* row: samples_taken, a 32-bit signed integer
  offset,    \* row: sequence_offset, a 32-bit signed integer
  distinct,  \* row: distinct_ips
  ips,       \* the session_ips rows
  own,       \* "none", "live" (between ticks), "saved" (tick saved, event not
             \* yet enqueued), "finishing" (a cap was reached), "held"
             \* (cancelled, a stop may restore it)
  base,      \* own: session.SequenceOffset
  seq,       \* own: sampleSeq, a 32-bit unsigned integer
  seen,      \* own: addresses seen so far
  issued,    \* history: sequence numbers accepted by the sink, in order,
             \* until an overrun
  overrun    \* history: some run took Limit samples

config == <<cap, timed>>
row == <<config, status, samples, offset, distinct, ips>>
mem == <<own, base, seq, seen>>
history == <<issued, overrun>>
vars == <<row, mem, history>>

\* int32(n) of an unsigned 32-bit n, and uint32(n).
ToInt32(n)  == IF n < Limit THEN n ELSE n - 2 * Limit
ToUint32(n) == n % (2 * Limit)

Init ==
  /\ cap \in Caps /\ timed \in Timed
  /\ status = "running" /\ samples = 0 /\ offset = 0 /\ distinct = 0 /\ ips = {}
  /\ own = "none" /\ base = 0 /\ seq = 0 /\ seen = {}
  /\ issued = <<>> /\ overrun = FALSE

\* A negative count is clamped to zero.
Prepare ==
  /\ own = "none" /\ status = "running"
  /\ own' = "live"
  /\ base' = offset
  /\ seq' = IF samples < 0 THEN 0 ELSE samples
  /\ seen' = ips
  /\ UNCHANGED <<row, history>>

\* Mutant of CapReached: one sample too many.
CapReachedLate == cap # 0 /\ seq > cap
\* maxSamplesReached
CapReached == cap # 0 /\ seq >= cap

\* w.sampleSeq + 1
NextSeq == ToUint32(seq + 1)

\* Mutant of Commit: the addresses are not stored.
CommitSnapshotOnly(hits) ==
  /\ samples' = ToInt32(NextSeq)
  /\ distinct' = Cardinality(seen \cup hits)
  /\ overrun' = IF NextSeq \in 1 .. Limit - 1 THEN overrun ELSE TRUE
  /\ UNCHANGED <<config, status, offset, ips>>

\* Mutant of Commit: the snapshot carries the number of the previous tick.
CommitBehind(hits) ==
  /\ samples' = ToInt32(seq)
  /\ distinct' = Cardinality(seen \cup hits)
  /\ ips' = ips \cup hits
  /\ overrun' = IF NextSeq \in 1 .. Limit - 1 THEN overrun ELSE TRUE
  /\ UNCHANGED <<config, status, offset>>

\* SaveTick commits the snapshot and the addresses in one transaction.
Commit(hits) ==
  /\ samples' = ToInt32(NextSeq)
  /\ distinct' = Cardinality(seen \cup hits)
  /\ ips' = ips \cup hits
  /\ overrun' = IF NextSeq \in 1 .. Limit - 1 THEN overrun ELSE TRUE
  /\ UNCHANGED <<config, status, offset>>

\* The tick reached its Enqueue: memory advances only after the commit.
TickSaved(hits) ==
  /\ own = "live" /\ ~CapReached
  /\ Len(issued) < MaxTicks
  /\ Commit(hits)
  /\ own' = "saved"
  /\ seq' = NextSeq
  /\ seen' = seen \cup hits
  /\ UNCHANGED <<base, issued>>

\* The commit took place but SaveTick returned an error: memory is unchanged
\* and the next tick uses the same number.
TickLost(hits) ==
  /\ own = "live" /\ ~CapReached
  /\ Commit(hits)
  /\ UNCHANGED <<own, base, seq, seen, issued>>

\* The sample_seq column of the event.
ClickHouseSeq == ToUint32(ToUint32(base) + seq)

\* sink.Enqueue accepts the event or drops it.
Enqueue(taken) ==
  /\ own = "saved"
  /\ own' = "live"
  /\ issued' = IF taken /\ ~overrun THEN Append(issued, ClickHouseSeq) ELSE issued
  /\ UNCHANGED <<row, base, seq, seen, overrun>>

\* Nobody refers to the prepared worker any more.
Dropped == own' = "none" /\ base' = 0 /\ seq' = 0 /\ seen' = {}

\* capReached, by samples or by time: the worker takes no more samples.
ReachCap ==
  /\ own = "live" /\ (CapReached \/ timed)
  /\ own' = "finishing"
  /\ UNCHANGED <<row, base, seq, seen, history>>

\* finish: the row transition, seen by the worker or not.
Finish(replied) ==
  /\ own = "finishing"
  /\ status = "running"
  /\ status' = "finished"
  /\ (replied /\ Dropped) \/ (~replied /\ UNCHANGED mem)
  /\ UNCHANGED <<config, samples, offset, distinct, ips, history>>

\* Stop cancels the worker and keeps its prepared state until the row is
\* stopped; an event already saved is still enqueued before Run returns.
Cancel ==
  /\ own \in {"live", "finishing"}
  /\ own' = "held"
  /\ UNCHANGED <<row, base, seq, seen, history>>

StopRow(replied) ==
  /\ own \in {"held", "none"} /\ status = "running"
  /\ status' = "stopped"
  /\ (replied /\ Dropped) \/ (~replied /\ UNCHANGED mem)
  /\ UNCHANGED <<config, samples, offset, distinct, ips, history>>

\* The stop failed: the same prepared worker runs again.
Restore ==
  /\ own = "held"
  /\ own' = "live"
  /\ UNCHANGED <<row, base, seq, seen, history>>

\* The stop found the row not running, its recovery starts over from the
\* row, or the process died: the prepared state is gone.
Lose ==
  /\ own # "none"
  /\ Dropped
  /\ UNCHANGED <<row, history>>

\* Mutant of Reenable: the offset does not absorb the samples of the run.
ReenableForgetting ==
  /\ status \in {"stopped", "finished"}
  /\ status' = "running" /\ samples' = 0
  /\ UNCHANGED <<config, offset, distinct, ips, mem, issued, overrun>>

\* One UPDATE that needs no lock; Postgres refuses a sum out of range.
Reenable ==
  /\ status \in {"stopped", "finished"}
  /\ offset + samples \in -Limit .. Limit - 1
  /\ status' = "running"
  /\ offset' = offset + samples
  /\ samples' = 0
  /\ UNCHANGED <<config, distinct, ips, mem, issued, overrun>>

Next ==
  \/ Prepare \/ ReachCap \/ Cancel \/ Restore \/ Lose \/ Reenable
  \/ \E hits \in SUBSET IPs : TickSaved(hits) \/ TickLost(hits)
  \/ \E b \in BOOLEAN : Enqueue(b) \/ Finish(b) \/ StopRow(b)

Spec == Init /\ [][Next]_vars

-----------------------------------------------------------------------------
\* The 32-bit ranges of the counters.
TypeOK ==
  /\ cap \in Caps /\ timed \in Timed
  /\ status \in {"running", "stopped", "finished"}
  /\ samples \in -Limit .. Limit - 1 /\ offset \in -Limit .. Limit - 1
  /\ distinct \in Nat /\ ips \subseteq IPs
  /\ own \in {"none", "live", "saved", "finishing", "held"}
  /\ base \in -Limit .. Limit - 1 /\ seq \in 0 .. 2 * Limit - 1 /\ seen \subseteq IPs
  /\ issued \in Seq(Nat) /\ overrun \in BOOLEAN

\* No two samples of a session carry the same sequence number, and numbers
\* grow in the order the samples were handed over, through every crash, lost
\* reply, restored stop and re-enable, as long as no single run takes 2^31
\* samples (worker.go numbers a sample with uint32(SequenceOffset) + sampleSeq).
SequenceUnique ==
  ~overrun => \A i, j \in DOMAIN issued : i < j => issued[i] < issued[j]

\* Postgres is never behind ClickHouse: every number handed over is covered
\* by sequence_offset + samples_taken, which is what a restart continues from.
RowCoversIssued ==
  ~overrun => \A i \in DOMAIN issued : issued[i] <= offset + samples

\* A run never takes more samples than its cap, however often its worker was
\* restarted, restored or left unsure about a commit: neither the counter
\* nor a number handed to ClickHouse goes beyond it.
CapRespected ==
  cap # 0 =>
    /\ samples <= cap
    /\ \A i \in DOMAIN issued : issued[i] <= offset + cap

\* distinct_ips never exceeds the stored inventory.  (It may fall short of
\* it: a tick whose commit was not acknowledged leaves addresses in
\* session_ips that the worker's memory does not have.)
InventoryCovers == distinct <= Cardinality(ips)
=============================================================================
