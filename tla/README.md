# Formal model of proxy-sampler

proxy-sampler samples the egress addresses of proxies. A *session* is one proxy
sampled at a cadence by one worker goroutine; its control row lives in Postgres,
its samples go to ClickHouse through an asynchronous writer. This directory
models the parts of the service where processes, databases and failures meet.
All paths below are relative to the repository root.

## 1. Inventory

| Component | State it keeps | Operations | Hard behaviour |
|---|---|---|---|
| ClickHouse writer (`internal/ch/writer.go`) | command channel, read/write lock and flags, batch, pending error | Enqueue, Flush, Close, the run goroutine | senders against close, barriers against batches, one error delivered once, a blocked Flush holding the lock that Close needs |
| Supervisor (`internal/sampler/supervisor.go`) | map of workers, per-session operation locks, closing flag, wait group | Resume, Start, Reenable, Stop, Delete, DeleteSessions, Wait, recovery goroutines | operations racing workers that finish by themselves, stop deadlines, restored ownership, several locks at once, shutdown with requests still running |
| Worker (`internal/sampler/worker.go`) | sequence counter, addresses seen, snapshot | Prepare, Run, tick, finish | save then enqueue, ambiguous commits, caps across restarts |
| Session store (`internal/db/store.go`, `query/sessions.sql`) | one row per session, its addresses | Create, Stop, Finish, Reenable, SaveTick, Delete, renames | conditional transitions, 32-bit columns, lost replies |
| Session API (`internal/api/server.go`) | none | create, stop, re-enable, delete, reports | create inserts before it starts and cleans up outside the lock |
| Lifecycle (`cmd/app/main.go`) | resources and their order | boot, serve, shut down | handlers that outlive the HTTP shutdown |
| Enrichment (`internal/enrich/service.go`) | per-address keys, semaphore, cached reputations | Lookup | key removal against waiters, slots and keys inside each other, a row that got fresh meanwhile |
| Providers, Merge, Classify (`internal/enrich/*.go`) | none | one lookup each, the merge of their answers, a category | any subset fails, a rate limit that looks like a listing |
| Probing and aggregation (`internal/sampler/{probe,aggregate}.go`) | none | Aggregate, ordered concurrent probes | ties, order, bounded concurrency, cancellation |
| Runs (`internal/api/{runs,edit,run_report}.go`, `internal/db/runs.go`) | run row, child sessions, name provenance, row locks | CreateRun, StopRun, ReenableRun, DeleteRun, EditRun, EditSession, RunReport | rollback half-way, fan-out over a list that gets old, concurrent renames, reports read in several queries |
| Requests (`internal/api/{server,runs,edit}.go`, `internal/db/store.go`) | the stored row | body checks, validation, conversion to columns and back | integers that leave their width |
| Variation (`internal/variation`) | none | expansion of axes, run reports | products that overflow, loops at the largest integer, ties |
| ClickHouse reader (`internal/ch/reader.go`) | none | deletions, pages, report queries | several queries while samples arrive |
| CSV exports (`internal/api/csv.go`, `internal/api/runs.go`) | pipe, goroutine, status line | ExportSessionCSV, ExportRunCSV | failures after the first byte, clients that leave |
| Proxy dialer (`internal/proxydial`) | connection, deadline, cancellation callback | FromURL, DialContext | a callback that races the return, a silent proxy |
| Router, config, crypto, telemetry, migrations, generated code, web client | none that the service depends on | plumbing | not modelled |

How they interact: an HTTP handler calls the supervisor. The supervisor reads
and transitions the row, publishes a worker goroutine or cancels one and waits
for it. A worker probes, saves its tick in Postgres and then hands the event to
the writer. A deletion stops the worker, sends a barrier through the writer,
deletes the samples and then the row. Boot resumes every running row before the
server listens; shutdown stops the server, cancels the root context, waits for
the supervisor and then closes the writer.

What makes each part correct:

* Writer: an accepted event is inserted or its failure is told to someone;
  Flush is a barrier; the closed channel is never sent on; Close drains.
* Supervisor: at most one worker per session and none out of reach; a running
  row is never forgotten; a stopped row has no worker; a deleted session leaves
  nothing behind; operations return; Wait drains.
* Worker and row: sequence numbers are never reused, Postgres is never behind
  ClickHouse, the cap holds over the whole run.
* Enrichment: one lookup per address at a time, never more than the slots, no
  refresh of a fresh row; every lookup returns; a failure is never a verdict.
* Runs: a run row never goes away under a live child; a fan-out that answers 200
  reached every child; generated names follow the run and chosen names survive;
  a report adds up.
* Requests and expansion: what was accepted is what is stored; the variants are
  exactly those the axes describe.
* Readers and exports: a walk over the pages misses nothing, reports, session
  reports and exports agree, a file that looks complete is complete.
* Dialer: it returns in time, with an open connection or with none.

## 2. Modules

| Module | Models |
|---|---|
| `EventSink` | abstract specification of the writer: a log that settles from its front, and flushes answered only behind it |
| `ChWriter` | `internal/ch/writer.go`; shown to implement `EventSink` |
| `Supervisor` | `internal/sampler/supervisor.go` with the control flow of workers, rows, sink, CreateSession, boot and shutdown |
| `SampleSequence` | the counters of one session: worker memory, Postgres row, numbers handed over |
| `Tick`, `Aggregate` | one session's ticks: concurrent probes, their aggregation, the stored snapshot and inventory, the event |
| `ReputationCache` | abstract specification of the enrichment service |
| `Enrich` | `internal/enrich/service.go`; shown to implement `ReputationCache` |
| `Reputation` | the providers' reading of their answers, the provider loop, Merge, Classify |
| `Runs` | a run and its children under the run and session handlers, with row locks |
| `Requests` | a create or edit request from the body to the columns and back |
| `Expansion` | mapAxes, plannedCount and Expand, loop by loop |
| `PoolReport` | BuildPoolReport, the reputation part of the session report, StreamPoolIPs |
| `SampleQueries` | pages and report queries of `internal/ch/reader.go` while samples arrive |
| `Export` | the CSV exports |
| `Dialer` | `internal/proxydial` |
| `GoInt` | machine integers and the absent value |
| `Totals` | sums and products of natural numbers, as cardinalities |
| `ChWriterProofs`, `SampleSequenceProofs`, `EnrichProofs` | TLAPS proofs about `ChWriter` (and its refinement of `EventSink`), `SampleSequence` and `Enrich` (and its refinement of `ReputationCache`) |
| `SupervisorProofs`, `SupervisorDataProofs` | TLAPS proofs about `Supervisor`: ownership, locks and shutdown; then rows, samples and recovery |
| `RunsProofs`, `TickProofs` | TLAPS proofs about `Runs` and about `Tick` with `Aggregate` |
| `LeafProofs` | TLAPS proofs about the seven modules of single requests |
| `MC*` | TLC instances; `MCLeaves` puts the seven modules of single requests side by side |

`Supervisor` composes the supervisor with the control flow of workers, rows, sink,
CreateSession, boot and shutdown. `Runs` composes the handlers above it and sees
the supervisor as the handlers do, as `api.Control`: an operation takes effect in
one step and answers. `Tick` and `SampleSequence` are two views of the same
worker, one of its addresses and one of its numbers.

An operator whose comment begins "Mutant of X" is a deliberately wrong variant of
X. None is part of a specification; they exist to show that the properties
would notice that mistake.

### ChWriter

A client is where its call is: `check` (first look at `closing`), `rlock`,
`admit` (look under the lock), `send` (the select), `wait` (a Flush waiting for
its barrier). `admit` and `send` hold the read lock. A waiting writer of the Go
RWMutex keeps new readers out (`WriteWaits`). `initiator` is the goroutine
started by Close. The run goroutine is `select`, `flush`, `answer`, `close` or
`done`; receive and insert are separate steps because the insert takes time. An
insert is `sent`, `failed` or `ambiguous` (done, although an error came back).
An event is the number of its acceptance; `mark`, `settled`, `failed`,
`reported` and the field `at` are history. Cancelling a Flush leaves its barrier
in the queue without an owner. Invalid events, the counters and the drop log
have no effect on the rest and are left out.

### Supervisor

A thread is an HTTP handler, the main goroutine during Resume, or the recovery
goroutine of a worker; `th[t]` is its operation, the sessions it wants, the one
it is at, and its program counter. `wk[w]` is a worker goroutine. Every database
call is a step of its own, so that anything can happen before and after it. Two
reads are merged with what precedes them (the map look-up and the row read of
`startCurrent`): with the operation lock held nobody else publishes. A thread in
`lock` has either not looked yet or is waiting, so it may notice `closing` at
any time. Faults are alternatives of the step they hit: a call fails without
effect (`store`), commits but loses its reply (`lost`), a worker outlives the
stop deadline (`slow`), a request context ends (`ctx`), the process is asked to
stop (`term`). A failure after which the code retries with nothing changed is a
stuttering step. Samples are abstracted to the set of sessions that have some
queued or stored. The sink is the head of a FIFO; its detail is `ChWriter`. A flush
whose context ends leaves its barrier in the queue, with nobody waiting for it.

### SampleSequence

One session. `own` is the only prepared worker, which `Supervisor` justifies
(`Ownership`). `samples` and `offset` are signed 32-bit columns, `seq`
is unsigned; `Limit` stands for 2^31. `TickLost` is a commit without a reply,
`Lose` a crash or a worker dropped by the supervisor at any point, `Restore` the
same prepared worker running again after a failed stop. A duration cap (`timed`)
may end a run at any time. `issued` records numbers until a run overruns 2^31,
because nothing is claimed about the numbers after that.

### Tick and Aggregate

`phase` is where `Run` is: `loop`, `probe` (the goroutines of
`runOrderedProbes`), `save`, `enqueue`. A probe is waiting for the semaphore,
running, or has its result: an address, a failure of its own, or cut off by the
cancellation. `Aggregate` is `aggregate.go` as a function of the ordered results.
`SaveTick` is the transaction of `db/store.go` (snapshot and upserts together),
acknowledged, lost or failed; only an acknowledged one advances the memory `mem`
and makes an event. Cancellation may come at any point, the crash too.
`StopSessionLost` is a stop that commits and counts as failed; `Relaunch` is the
worker restored after a failed stop, whatever the row says. `ReenableSession` is a
new run on the old inventory; a worker that is left on the stopped row goes on
with the memory of the earlier run, because Start keeps what the map has.
`committed` and `known` are history: the primary addresses stored in the runs the
worker serves, and those of the present run whose storing was acknowledged.

### Enrich and ReputationCache

`call[c].pc` follows `Lookup`: `read`, `enter` (`acquireKey` under `keyMu`),
`token` (the select on the key's channel), `recheck`, `slot`, `ask`, `save`, and
the deferred releases in reverse order: `putSlot`, `putToken`, `unref`. Every
early return goes through the releases it has deferred by then. A key is an
object with a token and a reference count; the map and the object are separate,
because a key removed too early would leave callers on two objects. The
abstract cache knows only rows, a clock and the set of addresses being refreshed.

### Reputation

Each provider is a function of the class of its response (success, failure,
missing fields, not found, rate limited); the loop merges the partial results
and collects errors, `Classify` gives the category. A blocklist zone answers
with a set of return codes or an error; Spamhaus' own error codes are not
listings.

### Runs

A handler is where its request is (`call[c].pc`); each query, supervisor call or
statement of a transaction is a step. `locks` are the row locks of open
transactions: the UPDATE of the run row is taken first and held to the end,
which is what serialises renames. Names are pairs of text and the child they were
generated for; `custom` is `name_customized`. `seen` is history: which children
were not yet in the requested state since the request arrived.

An operation on a session is one step, and its outcomes are those of the code.
`StopFailures` are the states a failed stop leaves: the row as it was, stopped by
the commit whose reply was lost, or finished by the worker before it exited; and
the worker published again in all three cases. A deletion stops the children whose
row reads running and no other (`DeleteAll`, `DeleteAborts`), a start keeps the worker
the map has, and a finish whose reply is lost leaves the worker retrying. `strayed`
is history: the workers that such a step left without a running row.

### The modules of single requests

* `Requests`: `ValidateRequestBody`, `Create` (all checks of the handler), `Edit`,
  `InsertSession` (conversion to int32 columns and the table's CHECKs),
  `LoadSession` (conversion back, for store and API).
* `Expansion`: one placeholder of `plannedCount`, one pass of a loop of
  `fixedAxisValues`, one base of `cartesian` and one draw of `randomCartesian` per
  step; the arithmetic is that of machine integers. `cells` are the combinations
  that the loop has still to visit, `grown` is the list under construction.
* `Dialer`: the steps of `FromURL`, `dial`, TLS and CONNECT; `CancellationCloses` is
  the goroutine of `context.AfterFunc`, `StopCancellation` its stop function.
* `PoolReport`: `LoadObservations` and `BuildReports` evaluate all reports of one
  database state.
* `SampleQueries`: `Store` adds samples between the queries of a page or a report.
  `stored[i]` is the sample with `sample_seq` i; a page is chosen by place, the place
  of a sample being the number of newer ones. The series, holds and growth of a
  report are the loops over what its query returned.
* `Export`: the producer goroutine, the CSV writer's flushes, the pipe, the
  handler's wait for the first row and its copy loop, the client that leaves.

## 3. Runs

| Run | Instance | States | What it shows |
|---|---|---|---|
| `writer` | 1 producer, 1 flusher, 1 closer, queue 2, batch 2, 3 events, all outcomes, fairness | 177 k | accounting, truthful Flush, no send on the closed channel, draining, refinement of `EventSink`, calls and Close return |
| `supervisor_all` | 1 session from its creation, 2 handlers, every operation, every fault | 705 k | no worker outside the map; Wait drains |
| `supervisor_stop` | stops and deletions, every fault, caps, one restart | 227 k | a running row is never forgotten |
| `supervisor_delete` | 2 sessions, batch deletions and re-enables; failures, slow workers, caps | 1.6 M | deletions leave nothing, stopped rows have no worker, lock order |
| `supervisor_live` | 1 handler, stops and deletions, failures and slow workers, fairness | 2.8 k | operations return; sampling resumes |
| `sequence` | sample cap 2 or none, duration cap or none, range 4: the counters of an uncapped session wrap; 4 samples | 3.4 M | numbers, row, cap, addresses |
| `enrich` | 2 callers, 2 addresses, 1 slot, 2 providers, TTL 2, clock to 3, fairness | 38 k | keys, slots and refreshes in order; lookups return; refinement of `ReputationCache` |
| `runs` | 2 clients, 2 children, 2 names, report limit 1, every operation, failed and lost calls; one child is also addressed alone | 2.1 M | no orphan but by a failed stop or finish, fan-out, names, report |
| `tick` | 2 probes, 1 slot, 2 addresses, 3 samples, 1 re-enable, fairness | 623 k | inventory, snapshot and events agree; changes are real; ticks end |
| `leaves` | the modules of single requests, int of 6 bits, int32 of 4, page size 3 | 503 k | section 2's last list, each over both sides of its boundaries |
| `supervisor_reenable_race`, `supervisor_lost_stop` | the smallest instance that shows it | | disagreements between the code and its comments, section 5 |

The properties of `leaves`: `AcceptedSurvives` (the answer holds the integers of
the request), `ExpansionExact` (planned count, loops and variants against the
mathematical size of the axes), `DialLeavesConnection` and `DialReturns`,
`VerdictFollowsEvidence` (the stored reputation against a reference reading of all
answers), `ReportsAgree` and `HonorNeedsEvidence`, `ReadsCoherent`, `ExportTruthful` and
`ExportEnds`.

Bounds. A queue of two against three events makes the queue full, makes a batch
full and leaves a rest; the flusher can hold the read lock on the full queue while
Close waits for the write lock. (With two flushers the liveness check is out of
reach; the safety properties are proved for any number.) Two handlers are enough for every pair of
operations, and a worker, its recovery and the sink run beside them. Two
sessions are the least that can form a lock cycle. `Workers` bounds a behaviour
only where a handler issues a request (`Serves`): a request is issued while
enough identities are free, and identities are reused when no thread refers to
the old worker. Two callers on one address with a slot less than callers make
both waits of a lookup happen, and a clock of three with a TTL of two lets a row
expire once. Two children are enough for a run that is half started, half stopped
or half renamed. `Single` bounds which children are also stopped, re-enabled, renamed
or deleted on their own; in `runs` it is the later one of the loops, so that this
happens after the child was listed and before it is visited, or after that.
Two probes on one slot make one wait; one re-enable and three samples let a worker
outlive a run and sample in the next, or lose an address between two samples that
saw one. In `leaves` the widths are
scaled so that every product and conversion can leave them: 3 * 22 wraps to 2 in
six bits, and page 23 of size 3 is beyond them. `MaxEvents`, `MaxTicks`,
`MaxRuns`, `MaxTime`, `MaxSamples`, `MaxRows`, `DialHorizon`, `SinkCapacity` and
`MaxRestarts` are the other bounds. Handlers and worker identities are
interchangeable, so the safety runs of `Supervisor` and `Runs` use symmetry; the
liveness runs do not. Deadlock is not
checked: a service with nothing to do is idle, and every bound stops the model.

`RunningIsOwned` is checked without re-enables: a re-enable can lose the race of
section 5, and one whose Start fails leaves a running row without a worker, which
the API reports as an error and the next boot repairs.

Fairness. Writer: the run goroutine, the closing goroutine and every client
keep moving (goroutines are scheduled), and a sender blocked on a full channel
is served eventually, because Go queues blocked senders in FIFO order (strong
fairness). Nothing forces a context to end. Supervisor: threads, the sink and a
cancelled worker keep moving; a waiter for a lock is not passed over for ever;
a stop has a deadline in the code, so leaving `stopWait` is fair; and database
errors do not repeat for ever while a recovery retries. A flush is never forced
to fail. Enrichment: callers keep running, and a waiter for a token or for the
first-come-first-served semaphore is served eventually; giving up is never
counted on. Tick: the worker's goroutines run and a probe ends, by its dial
timeout. Dialer: the caller, the `AfterFunc` goroutine and the clock go on; that
the proxy answers is not counted on. Export: the goroutine and the handler go on;
that the client stays is not counted on.

## 4. Proofs

`SampleSequenceProofs` proves the properties of `sequence` for every range, cap and
finite set of addresses. The inductive invariant `IInv` is the type
invariant; `Ahead`: while no run has overrun the range, the worker's base and
counter never exceed the row's sum and are at (or, between save and enqueue,
just beyond) every issued number; `CapInv`: the worker's counter is within the
cap as well; `SeenInv`: the worker's addresses are stored. `Ahead` is needed because
uniqueness alone says nothing about the next number, and the row alone nothing
about a worker that lags behind it after a lost reply. Assumptions: the constants'
(`SequenceAssumption`) only.

`ChWriterProofs` proves every safety property of the run `writer` and three more
(`FlushIsBarrier`, `ErrorsHandedOver`, `SealedIsFinal`, which the run leaves to the
proof), and that the writer implements `EventSink!SafeSpec`, for every number of producers, flushers and
closers, every channel capacity and batch size, and every bound on the number of
events (`ConstantsAssumption` is the only assumption). The argument is layered, each
layer using the ones before it:

* `TypeOK`, then `Gate`: the channel is closed exactly when `initiateClose` is
  done, which is when `accepting` is withdrawn, and then no client is about to send.
  `NoSendOnClosed` alone is not inductive: it needs `accepting` to be false before
  the next client is admitted. Gives `NoSendOnClosed` and `SealedIsFinal`.
* `FifoAccounting`, inductive given the types: the log, the batch and the channel
  are consecutive runs of the acceptance order.
* `BarrierOf(f)`: the barrier of a waiting Flush is in the channel, with the run
  goroutine, or answered, in one of them only, with everything the Flush asked for
  in front of it. A cancelled Flush has no barrier. Gives `FlushIsBarrier`.
* `ErrorsHandedOver`, from the fact that the batch is disjoint from the log; with
  `BarrierOf`, what a nil answer covers (`OkCovers`): `FlushOkMeansStored`.
* `Ending`: the run goroutine leaves its loop only with the channel closed and
  empty. With all the above: `DrainedWhenDone`.
* `Ordered` (the numbers in the channel increase and lie between what was handled
  and what was accepted) and `Pending` (a call is under way exactly while its result
  is pending) make every step a step of the log: `WriterImplementsSink`.

`EnrichProofs` proves `LookupsConsistent` and that `Enrich` implements `ReputationCache`,
for every number of callers, addresses, slots and providers, every time to live
and every bound of the clock. `EnrichAssumption` is the only assumption; beyond
finite sets and positive bounds it asks for one key object per caller, so that
`acquireKey` always finds a fresh one. The inductive invariant `IInv` is:

* the types, and `KeyAccounting`: a caller that refers to a key refers to the one
  in the map, its reference count is the number of such callers, and the token is
  away exactly while one of them holds it;
* `Placed`: a call under way has an address and its key, and no two addresses share
  a key. Without it a release could drop a reference of another address;
* `TokenExclusive`: one caller at most holds an address's token. This gives
  `OneLookupPerAddress`, which alone is not inductive, because nothing in it
  stops a second caller that is still before its second look at the cache;
* `SlotsCounted`: the semaphore's count is the number of callers that hold a slot;
* `Decided`: from the second look at the cache to the stored row, the address is
  not fresh, and the time stamped for the row is at least the time to live after
  the old one. Time alone cannot make a row fresh, and only the holder of the
  token stores one.

In the refinement the addresses being refreshed are those of the callers that
hold a slot. `TokenExclusive` makes them distinct, `SlotsCounted` bounds them, and
`Decided` is what the abstract `Begin` and `Store` demand.

`SupervisorProofs` proves `Ownership`, `WaitDrains`, `NoLockCycle` and, stronger than the
last, `WaitsClimb` (no cycle of waiting operations of any length), for any sets of
sessions, handlers and worker identities, any selection of requests and faults, any
capacity of the sink and any number of restarts. `SupervisorAssumption` is the only
assumption. None of the four is inductive; the invariant `Base` is:

* the types, and `Placed`: which operation can stand where, that one under way has a
  target, and where it remembers a worker;
* `LockPlaces`: which session locks a thread holds at each place. While it collects
  them these are exactly the targets below the one it waits for, which is why waits
  climb;
* `Barriers`: a barrier in the queue belongs to a flush that waits, and only one does,
  so the sink answers nobody twice;
* `MapInv`: a live goroutine is the one in the map and the other way round. Publishing
  keeps it only because the place in the map is free, and what makes it free is
* `Pointers`: the worker a stop remembers is still the one it cancelled, or gone. While
  the lock is held no other takes its place, and its identity is not reused;
* `Life` and `WaitDrains`: what the phases of the process imply for the flags, the main
  goroutine and the workers.

`SupervisorDataProofs` adds what the operations promise about data, on top of `Base`.
`StoppedHasNoWorker` and `DeletedLeavesNothing` come from `Data`: a row that is not running
has no goroutine that will enqueue (`RowInv`; a worker at its cap is finishing and will
not, `CapInv`); what a stop knows of its row and of the worker's cap at each of its steps
(`StopInv`); and that every sample of a target is in front of the deletion's barrier,
then through the queue, then erased (`SinkInv`). `RunningIsOwned` comes from `Watch`: a
running row without a worker is somebody's `Duty`, a cancelled worker is waited for or has
its recovery scheduled (`Followed`), and Resume has passed over nobody (`Covers`);
`RunningIsOwned` itself asks only for a thread that wants the session, which the next
step of that thread could disappoint.

Their hypotheses are the ones under which the code keeps the promise. A commit whose
reply is lost breaks `DeletedLeavesNothing` (the run `supervisor_lost_stop`); the cleanup
of a failed creation works outside the session's lock (section 5); a re-enable makes
the row running before it has the lock (the run `supervisor_reenable_race`). So the
first two theorems assume `"lost" \notin Faults` and `"create" \notin Ops`, the third
that neither creations nor re-enables are requested. All other faults, operations and
interleavings are in, failed and timed-out stops, ended contexts, crashes and
restarts among them.

`RunsProofs` proves all five properties of `runs`, the action property
`ChosenNamesKept` included, for every set of children, clients, addresses and texts and
with failed and lost calls; `RunsAssumption` is the only assumption. The invariant `Inv`
rests on five facts. Every operation on a session, whatever its answer, leaves a worker
behind on a row that ceases to run only if it failed, and then the row is still there
(`ControlStep`, `RowsOwn`): a worker without a running row has strayed before its row
can go. Rows only disappear once the run is inserted, so a list that got old still
covers what is left (`Gone`): no child under a deleted run, and a pool that matches its
cells. The
lock of the run row admits one rename or one deletion at a time, and the rename holds the
row of every child it is about to rename (`LockPlaces`). Hence generated names follow
the run at every moment and a rename has met, or will meet, every child that carries one
(`NamesFollow`, `Rename`). And the children that lag behind a fan-out only get fewer and
are among those it has still to visit (`Lag`).

`TickProofs` proves `TickConsistent` and `ChangesAreReal` for every number of probes up to 255,
of slots, addresses, ticks and re-enables (`TickAssumption`). First, what `Aggregate`
returns: the primary address is one of those seen, every good probe counts, and no
more addresses are new than the worker had not seen. To compare the row's count of good
probes with the inventory's hits, `Hits` is a set with an element per hit, into which a
sample's good probes are mapped one to one; this needs no induction over a sum. The
invariant then repeats for the worker's memory what the properties say of the row
(`Counted`, `Inventory`, `Primaries`, `NewKnown`), because the next tick is computed from the
memory, which a lost acknowledgement leaves behind the row. A re-enable that keeps a
worker keeps `committed` with it: the previous address may be of an earlier run, and
that is all `ChangesAreReal` says of such a worker. `CutByCancel` says that a
probe is cut off only under a cancelled context, and a save needs one that is not.

`LeafProofs` proves all eight safety properties of the run `leaves`, each for its module
alone, which is how they run. The assumptions are those the modules state about their
constants; what they ask is said with each.

* `DialLeavesConnection`: until the `AfterFunc` is started or stopped the transport is
  open, and the deadline is cleared only once it is stopped.
* `AcceptedSurvives` follows a request through its three forms, session, row and
  answer: `ValidCreate` leaves ranges in which neither int64 nanoseconds nor int32
  columns wrap, and in those the conversions undo each other. `RequestsAssumption`
  asks that the seconds of every int32 fit a duration, which the code's types give,
  and that the integers of a body are ints.
* `ExportTruthful`, for any number of rows and lines and any point of failure.
  `ExportInv`: while the pipe is open, what was sent and what is buffered are exactly
  the items written, in order (`ItemsInv`); how the goroutine closed the pipe tells
  whether those were all (`GoroutineInv`); and nothing is buffered before the first
  row or the empty result was announced, which is what the handler waits for before
  it chooses a status (`HandlerInv`). The property itself looks only at what has
  reached the client, which says nothing about the next flush.
* `VerdictFollowsEvidence`, for any set of zones that has Spamhaus' and any mix of
  answers and failures. `Merge` would let a later provider overwrite an earlier one.
  `LookupPlaces` says that what each provider asked so far has said is one of its own
  partials, and the lemmas that each fills fields of its own; `SignalKept`, that the
  merged signal is the disjunction of theirs, so that "unknown" means nobody answered.
* `ReportsAgree` and `HonorNeedsEvidence`, for any variants, addresses and database
  states and any limit on the observations. `ReportInv` says only that the loaded rows
  are all of them or as many as the limit, and that the reports are the code's
  functions of them. The content is in the lemmas: run report, session reports and
  export count the same things along different ways (rows, addresses, cells,
  weights), and a sum over one way is regrouped into a sum over another. A value that
  leads is the only one that leads, whichever order its ties are visited in.
  `PoolReportAssumption` asks for finite sets and counts that are not negative.
* `ReadsCoherent`, for any page size and any samples stored between two queries.
  Samples arrive in the order of time, so the place of a sample only grows: what was
  there when the walk began and was not shown yet has its place on the current page or
  beyond (`PagesInv`), and an offset whose product would wrap is refused before it is
  used. Each part of a report was equal to a count of the matching samples when it
  was read, and those only grow, so the parts cover each other in the order they are
  read (`PartsInv`). The loop over holds is a function on the samples; that it exists
  is a lemma, and what it keeps, the invariant `LoopInv` of its passes.
* `ExpansionExact`, for any template, axes and limit. `VariantsAsPlanned` says something
  only at the end, so `ExpandInv` carries the count through every loop. `PlanInv`: what
  is planned is the true product of the sizes multiplied so far, and a refusal means
  that the whole product is empty or beyond the limit; the width of a range and the
  number of strings may wrap on the way, but only past the limit. `ValuesInv`: the loop
  over a fixed axis has exactly its first values, so it meets the last one before it
  could wrap. `Producing`, for the fixed axes and again for the random axes of a cell:
  with n the current axis, what has grown and n's size times the bases left are
  together n's size times the bases there were (plus the values drawn for the first
  base), and no combination that has grown continues a base that is left, the first
  one excepted and that only by values drawn for it. This is what keeps combinations
  distinct: a new one cannot equal an old one that continues another base. `Visited`:
  the variants and the share of every cell left are together the plan.
  `ExpansionAssumption` asks that the limit times the alphabet fits an int (128 * 36
  with the defaults): `randomSpace` multiplies once more before it compares, and
  nothing else in the code bounds the product.

Sums and products are cardinalities in these modules (`Totals`): a sum is the size of a
disjoint union, a product the number of ways to choose. What is needed of them (a term
more, a regrouping, monotony) then follows from facts about finite sets. Where an
argument goes by induction over a number, it takes the least element of a set of
naturals (`LeastNatural`, `UpTo`) instead of an induction theorem, which would need
an operator for a parameter.

Three attempts failed for a good reason. In `Runs` and in `Supervisor` a `CASE` had
overlapping arms (listing the children of an empty run, the end of a Resume that
failed with sessions left). TLC takes the first arm, TLA+ leaves it open; the conditions
now say which one the code takes. And `Expansion` took a whole product in one step, by a
fold over a sequence, which this prover cannot reason about: it now makes one base at
a time, as the code does, and the sums of the reports are cardinalities.

Only model-checked, because this prover does not reach it: liveness (`CallsReturn`,
`CloseCompletes`, `OperationsReturn`, `SamplingResumes`, `LookupsReturn`, `TicksEnd`, `DialReturns`,
`ExportEnds`) and the fairness part of the two refinements.

## 5. What the code does that its comments do not say

* `supervisor_reenable_race`: a re-enable that arrives after a worker marked its
  row finished and before it left the map is answered with success and starts
  nothing; the row is running with no worker until the next boot.
* `supervisor_lost_stop`: a stop that commits while its reply is lost at the
  deadline restores a worker for a stopped row; a later deletion reads the row as
  stopped, does not stop the worker, and leaves its samples behind.

Met while modelling, with the same root (the row and the worker are changed in
two steps), and not given a run of their own:

* after a stop whose row update failed, the old worker is published again
  without reading the row, which that worker may have finished
  (`internal/sampler/supervisor.go:224`);
* the cleanup of a failed creation stops the row outside the operation lock,
  under a worker that a re-enable may have started (`internal/api/server.go:359`).

Behaviours that the properties state as they are:

* a session export whose query fails in the middle ends like a complete file,
  while the run export aborts the connection (`CleanIsComplete` promises
  completeness only for the run export, or when nothing failed);
* the total of a page is counted before its rows are read: a client that stops at
  the total may miss a sample that arrived meanwhile, one that walks until a page
  is not full misses none (`PagesMissNothing`);
* a worker that strayed, restored after a lost stop or retrying a finish whose reply
  was lost, is stopped by a later stop but not by a deletion, of the session or of
  its run: these stop only what reads running and remove the row under it
  (`internal/sampler/supervisor.go:337`, `:392`). `NoOrphanWorker` excepts it by `strayed`;
* a re-enable keeps such a worker with the memory of the earlier run (`:126`): the
  first event of the new run may say that the address changed (`ChangesAreReal`), and
  the row's counters go on from the old ones;
* after a tick whose commit was not acknowledged `distinct_ips` is too low until the
  next prepared worker saves a tick (`InventoryCovers` bounds it from above only);
* a creation whose reply is lost and a re-enable whose Start fails leave a running
  row without a worker; the API reports an error and the next boot repairs it.

## 6. Not modelled

* Router, error mapping, health and the static files: stateless plumbing.
* Configuration, cryptography, telemetry, migrations: straight-line start-up code
  and library calls. The same holds for the order of the deferred cleanup in
  `main.run` beyond cancel, Wait and restart.
* List and detail endpoints, `SeriesForSessions`, latency medians, the redaction
  of templates, the texts of generated names, CSV and JSON formatting: they read
  one state and format it; no property of the system depends on them.
* The HTTP, DNS and SOCKS5 exchanges themselves: external; what the code makes of
  their outcomes is modelled.
* `openapi.gen.go` is generated from the interface description. The generated
  queries of sqlc are modelled through the statements their callers issue.
* The web client keeps no state the service depends on.

## 7. Plan

Every safety property that a passing run checks has a proof, invariants and action
properties alike. What is left: the conditions of `SupervisorDataProofs` can be dropped
when the disagreements of section 5 are settled in the code; the listing endpoints
and the latency figures of section 6 would be new modules beside `PoolReport`.
