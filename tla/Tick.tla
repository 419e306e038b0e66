-------------------------------- MODULE Tick --------------------------------
(***************************************************************************)
(* One session's worker, tick by tick (sampler/worker.go): the concurrent  *)
(* probes of a sample, their aggregation, the transaction that stores the  *)
(* snapshot and the address inventory (db/store.go, sessions.sql.go) and   *)
(* the event for ClickHouse, with cancellation at any point, failed and    *)
(* unacknowledged commits, crashes, restarts and re-enables.               *)
(*                                                                         *)
(* SampleSequence follows the sequence numbers and caps of the same        *)
(* worker; here the addresses are followed.  Round-trip times, countries   *)
(* and reputations do not influence this part of the state.                *)
(***************************************************************************)
EXTENDS Aggregate

CONSTANTS
  ProbesPerSample,
  MaxConcurrentProbes,
  IPs,
  MaxTicks,            \* bound: samples started
  MaxRuns              \* bound: times the session is started or re-enabled

ASSUME TickAssumption ==
  /\ ProbesPerSample \in 1 .. 255 /\ MaxConcurrentProbes \in Nat \ {0}
  /\ IsFiniteSet(IPs) /\ NoIP \notin IPs /\ MaxTicks \in Nat

VARIABLES
  row,        \* Postgres: status and snapshot of the session
  ips,        \* Postgres: hit_count of the session_ips rows, 0 for no row
  own,        \* the prepared worker: "none", "live", or "held" by a stop
  mem,        \* its memory: seen, previousPrimary and the snapshot counters
  phase,      \* what Run is doing
  cancelled,  \* the worker's context is cancelled
  probe,      \* per probe goroutine: waiting, running, or its result
  event,      \* the event of a saved tick, until it is enqueued
  reported,   \* history: hits of each address in the events ClickHouse was given
  news,       \* history: addresses those events called new
  ticks,      \* history: samples started
  run,        \* history: how often the session was re-enabled
  committed,  \* history: primaries stored in the runs that the worker serves
  known,      \* history: those of this run whose storing was acknowledged
  cut         \* history: a stored tick had probes that cancellation ended

vars == <<row, ips, own, mem, phase, cancelled, probe, event, reported, news, ticks, run,
          committed, known, cut>>
history == <<reported, news, ticks, run, committed, known, cut>>

Probes == 1 .. ProbesPerSample
Result(ip, err) == [ip |-> ip, country |-> "XX", rtt |-> 1, err |-> err]
Waiting == Result(NoIP, "waiting")
Running == Result(NoIP, "running")
Cut     == Result(NoIP, "cancelled")
Outcomes == {Result(a, "") : a \in IPs} \cup {Result(NoIP, "failed"), Cut}
NoMemory == [seen |-> {}, previous |-> NoIP, seq |-> 0, ok |-> 0, total |-> 0]
NoEvent  == [primary |-> NoIP, changed |-> FALSE, new |-> 0, hits |-> [a \in IPs |-> 0],
             before |-> {}, known |-> {}]

\* InsertSession: a new session is running and has sampled nothing.
InsertSession == [status |-> "running", samples |-> 0, ok |-> 0, total |-> 0, distinct |-> 0, primary |-> NoIP]

Init ==
  /\ row = InsertSession /\ ips = [a \in IPs |-> 0]
  /\ own = "none" /\ mem = NoMemory /\ phase = "idle" /\ cancelled = FALSE
  /\ probe = [i \in Probes |-> Waiting] /\ event = NoEvent
  /\ reported = [a \in IPs |-> 0] /\ news = 0 /\ ticks = 0 /\ run = 0 /\ committed = {} /\ known = {} /\ cut = FALSE

-----------------------------------------------------------------------------
(* Preparing and running.                                                  *)

SessionIPs == {a \in IPs : ips[a] > 0}

\* Prepare restores the rolling state from the row and the inventory.
Prepare ==
  /\ own = "none" /\ row.status = "running"
  /\ own' = "live" /\ phase' = "loop" /\ cancelled' = FALSE
  /\ mem' = [seen |-> SessionIPs, previous |-> row.primary, seq |-> row.samples,
             ok |-> row.ok, total |-> row.total]
  /\ UNCHANGED <<row, ips, probe, event, history>>

\* Run: a new sample, unless cancelled.  All its probes are launched at once.
BeginTick ==
  /\ own = "live" /\ phase = "loop" /\ ~cancelled /\ ticks < MaxTicks
  /\ phase' = "probe" /\ ticks' = ticks + 1
  /\ UNCHANGED <<row, ips, own, mem, cancelled, probe, event, reported, news, run, committed, known, cut>>

\* Run returns because its context is cancelled.
RunReturns ==
  /\ own = "live" /\ phase = "loop" /\ cancelled
  /\ own' = "held" /\ phase' = "idle"
  /\ UNCHANGED <<row, ips, mem, cancelled, probe, event, history>>

-----------------------------------------------------------------------------
(* runOrderedProbes.                                                       *)

Busy == {i \in Probes : probe[i] = Running}
Limit == Min({ProbesPerSample, MaxConcurrentProbes})

\* Mutant of ProbeStarts: failed probes have not released their slots.
ProbeStartsLeaky(i) ==
  /\ phase = "probe" /\ probe[i] = Waiting
  /\ Cardinality({j \in Probes : probe[j].err \in {"running", "failed"}}) < Limit
  /\ probe' = [probe EXCEPT ![i] = Running]
  /\ UNCHANGED <<row, ips, own, mem, phase, cancelled, event, history>>

ProbeStarts(i) ==
  /\ phase = "probe" /\ probe[i] = Waiting /\ Cardinality(Busy) < Limit
  /\ probe' = [probe EXCEPT ![i] = Running]
  /\ UNCHANGED <<row, ips, own, mem, phase, cancelled, event, history>>

\* sem.Acquire fails once the context is cancelled.
ProbeGivesUp(i) ==
  /\ phase = "probe" /\ probe[i] = Waiting /\ cancelled
  /\ probe' = [probe EXCEPT ![i] = Cut]
  /\ UNCHANGED <<row, ips, own, mem, phase, cancelled, event, history>>

\* A probe sees an address, fails by itself, or is cut off.
ProbeEnds(i, r) ==
  /\ phase = "probe" /\ probe[i] = Running
  /\ r = Cut => cancelled
  /\ probe' = [probe EXCEPT ![i] = r]
  /\ UNCHANGED <<row, ips, own, mem, phase, cancelled, event, history>>

\* The results are local to a tick.
Discard == probe' = [i \in Probes |-> Waiting]

\* wg.Wait() returns, the results are folded into the sample, and enrich looks
\* every address up, whatever the outcome.
ProbesDone ==
  /\ phase = "probe" /\ \A i \in Probes : probe[i] \in Outcomes
  /\ phase' = "save"
  /\ UNCHANGED <<row, ips, own, mem, cancelled, probe, event, history>>

-----------------------------------------------------------------------------
(* Saving and reporting the tick.                                          *)

\* The aggregate of the tick: nothing it depends on changes until it is used.
Sample == Aggregate(probe, mem.previous, mem.seen)

\* Mutant of NextPrimary: a sample without an address forgets the last one.
NextPrimaryForgets == Sample.primary
\* A sample without an address keeps the last one.
NextPrimary == IF Sample.primary = NoIP THEN mem.previous ELSE Sample.primary

NextMemory ==
  [seen |-> mem.seen \cup DOMAIN Sample.hits, previous |-> NextPrimary, seq |-> mem.seq + 1,
   ok |-> mem.ok + Sample.probesOK, total |-> mem.total + Sample.probesAttempted]

UpdateSessionSnapshot(m) ==
  row' = [row EXCEPT !.samples = m.seq, !.ok = m.ok, !.total = m.total,
                     !.distinct = Cardinality(m.seen), !.primary = m.previous]

\* The conflict clause adds to the count.
UpsertSessionIP(hits) ==
  ips' = [a \in IPs |-> IF a \in DOMAIN hits THEN ips[a] + hits[a] ELSE ips[a]]

SampleEvent ==
  [primary |-> Sample.primary, changed |-> Sample.changed, new |-> Sample.newIPs,
   hits |-> [a \in IPs |-> IF a \in DOMAIN Sample.hits THEN Sample.hits[a] ELSE 0],
   before |-> committed, known |-> known]

Commit ==
  /\ UpdateSessionSnapshot(NextMemory)
  /\ UpsertSessionIP(Sample.hits)
  /\ committed' = committed \cup ({Sample.primary} \ {NoIP})
  /\ cut' = (cut \/ \E i \in Probes : probe[i] = Cut)

\* Mutant of SaveTick: the transaction ignores the cancellation.
SaveTickDetached ==
  /\ phase = "save"
  /\ Commit
  /\ mem' = NextMemory /\ event' = SampleEvent /\ known' = known \cup ({Sample.primary} \ {NoIP})
  /\ phase' = "enqueue" /\ Discard
  /\ UNCHANGED <<own, cancelled, reported, news, ticks, run>>

\* SaveTick, one transaction under the worker's context.  Only after it is
\* acknowledged does the worker advance and build the event.
SaveTick ==
  /\ phase = "save" /\ ~cancelled
  /\ Commit
  /\ mem' = NextMemory /\ event' = SampleEvent /\ known' = known \cup ({Sample.primary} \ {NoIP})
  /\ phase' = "enqueue" /\ Discard
  /\ UNCHANGED <<own, cancelled, reported, news, ticks, run>>

\* The commit took place, but its acknowledgement is lost.
SaveTickLost ==
  /\ phase = "save" /\ ~cancelled
  /\ Commit
  /\ phase' = "loop" /\ Discard
  /\ UNCHANGED <<own, mem, cancelled, event, reported, news, ticks, run, known>>

\* It fails, for one because the context is cancelled: the tick is forgotten.
SaveTickFails ==
  /\ phase = "save"
  /\ phase' = "loop" /\ Discard
  /\ UNCHANGED <<row, ips, own, mem, cancelled, event, history>>

\* sink.Enqueue takes the event or drops it.
Enqueue(taken) ==
  /\ phase = "enqueue"
  /\ phase' = "loop" /\ event' = NoEvent
  /\ reported' = IF taken THEN [a \in IPs |-> reported[a] + event.hits[a]] ELSE reported
  /\ news' = IF taken THEN news + event.new ELSE news
  /\ UNCHANGED <<row, ips, own, mem, cancelled, probe, ticks, run, committed, known, cut>>

-----------------------------------------------------------------------------
(* The session's surroundings.                                             *)

\* A stop, a deletion or the shutdown cancels the worker.
Cancel ==
  /\ own = "live" /\ ~cancelled
  /\ cancelled' = TRUE
  /\ UNCHANGED <<row, ips, own, mem, phase, probe, event, history>>

Forget == own' = "none" /\ mem' = NoMemory

\* The stop completes, or the shutdown leaves the row running.  A finish of
\* the worker's own has the same effect.
StopSession ==
  /\ own = "held"
  /\ Forget
  /\ row' \in {row, [row EXCEPT !.status = "stopped"]}
  /\ UNCHANGED <<ips, phase, cancelled, probe, event, history>>

\* The row is stopped, but no reply of it arrives before the deadline.
StopSessionLost ==
  /\ own = "held" /\ row.status = "running"
  /\ row' = [row EXCEPT !.status = "stopped"]
  /\ UNCHANGED <<ips, own, mem, phase, cancelled, probe, event, history>>

\* The stop failed: the same prepared worker is run again, and nobody looks
\* whether its row is running.
Relaunch ==
  /\ own = "held"
  /\ own' = "live" /\ phase' = "loop" /\ cancelled' = FALSE
  /\ UNCHANGED <<row, ips, mem, probe, event, history>>

\* The process dies; the event of a saved tick is lost with it.
Crash ==
  /\ own # "none"
  /\ Forget /\ phase' = "idle" /\ event' = NoEvent /\ Discard
  /\ UNCHANGED <<row, ips, cancelled, history>>

\* The counters start again; the inventory and its size stay.  If a worker is
\* left over from the earlier run, Start keeps it, with its memory.
ReenableSession ==
  /\ row.status = "stopped" /\ run < MaxRuns
  /\ row' = [row EXCEPT !.status = "running", !.samples = 0, !.ok = 0, !.total = 0, !.primary = NoIP]
  /\ run' = run + 1 /\ known' = {}
  /\ committed' = IF own = "none" THEN {} ELSE committed
  /\ UNCHANGED <<ips, own, mem, phase, cancelled, probe, event, reported, news, ticks, cut>>

-----------------------------------------------------------------------------
Probing == \E i \in Probes : ProbeStarts(i) \/ ProbeGivesUp(i) \/ \E r \in Outcomes : ProbeEnds(i, r)
Worker ==
  \/ Probing \/ ProbesDone \/ SaveTickFails \/ SaveTick \/ SaveTickLost
  \/ (\E taken \in BOOLEAN : Enqueue(taken)) \/ RunReturns

Next ==
  \/ Worker \/ Prepare \/ BeginTick
  \/ Cancel \/ StopSession \/ StopSessionLost \/ Relaunch \/ Crash \/ ReenableSession

Spec == Init /\ [][Next]_vars

\* The worker's goroutines run, and a probe ends by its dial timeout.
FairSpec == Spec /\ WF_vars(Worker)
-----------------------------------------------------------------------------
(* Properties.                                                             *)

\* Types; and no more probes run at a time than maxConcurrentProbes.
TypeOK ==
  /\ row \in [status : {"running", "stopped"}, samples : 0 .. MaxTicks, ok : 0 .. MaxTicks * ProbesPerSample,
              total : 0 .. MaxTicks * ProbesPerSample, distinct : 0 .. Cardinality(IPs), primary : IPs \cup {NoIP}]
  /\ own \in {"none", "live", "held"} /\ mem.seen \subseteq IPs
  /\ phase \in {"idle", "loop", "probe", "save", "enqueue"}
  /\ probe \in [Probes -> Outcomes \cup {Waiting, Running}]
  /\ Cardinality(Busy) <= MaxConcurrentProbes

\* The hits of an inventory, an element for each of them.
Hits(count) == UNION {{a} \X (1 .. count[a]) : a \in IPs}

\* The inventory covers everything else that is known of a session's
\* addresses, at every crash and unacknowledged commit: the snapshot of its
\* row, the worker's memory and the events given to ClickHouse.
InventoryCovers ==
  /\ row.ok <= Cardinality(Hits(ips)) /\ row.ok <= row.total
  /\ row.distinct <= Cardinality(SessionIPs)
  /\ row.primary # NoIP => row.primary \in SessionIPs
  /\ mem.seen \subseteq SessionIPs
  /\ \A a \in IPs : reported[a] <= ips[a]

\* Nothing is recorded of a tick that was cut short: a stop never shows up as
\* failed probes, neither in the row nor in an event.
CutTicksForgotten == ~cut

\* An event that says the address changed had a different one stored before
\* it in the same run of the session: the first address of a run is no
\* change and a restart invents none.  The exception is a worker left over
\* from an earlier run by a stop whose reply was lost: a re-enable keeps it,
\* and the different address may be of any run that worker served.  And a
\* primary address these runs have not had is a change from any the worker
\* knows of in the present one, although samples in between may have failed.
ChangesAreReal ==
  /\ event.changed => \E p \in event.before : p # event.primary
  /\ ~event.changed /\ event.primary # NoIP => event.known = {} \/ event.primary \in event.before

\* Every address is reported as new at most once in the life of a session,
\* whatever restarts and re-enables there are.
NewOnlyOnce ==
  news <= Cardinality(SessionIPs)

\* What the database and the worker know of a session agrees, through every
\* cancellation, lost acknowledgement, failed stop, crash, restart and re-enable.
TickConsistent == TypeOK /\ InventoryCovers /\ CutTicksForgotten /\ NewOnlyOnce

\* A tick ends, and a cancelled worker returns: no probe waits for a slot
\* that is never given back.
TicksEnd ==
  /\ phase = "probe" ~> phase # "probe"
  /\ cancelled /\ own = "live" ~> own # "live"
=============================================================================
