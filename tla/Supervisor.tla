----------------------------- MODULE Supervisor -----------------------------
(***************************************************************************)
(* The sampling supervisor (internal/sampler/supervisor.go) with the       *)
(* control flow of the workers it publishes (worker.go), the durable rows  *)
(* it transitions (db/store.go, sessions.sql), the API handler that        *)
(* creates a session (api/server.go) and the order of a shutdown           *)
(* (cmd/app/main.go).                                                      *)
(*                                                                         *)
(* A thread runs one supervisor operation at a time: the HTTP handlers,    *)
(* the main goroutine (Resume), and the recoverAfterExit goroutine of a    *)
(* worker, which has the worker's own identity.  A session is a positive   *)
(* number; the order of the numbers is the byte order of the UUIDs.        *)
(* Samples are abstracted to which sessions have some queued in the sink   *)
(* or stored in ClickHouse.  A step that fails and is retried with nothing *)
(* changed is a stuttering step; a fault that is followed by anything else *)
(* is an alternative of the step, enabled by a member of Faults:           *)
(*   "store"  a Postgres or ClickHouse call fails without effect           *)
(*   "lost"   a Postgres update is committed but its caller gets an error  *)
(*   "slow"   a worker outlives the stop timeout                           *)
(*   "ctx"    a request context ends while its handler waits               *)
(*   "term"   the process is asked to shut down                            *)
(***************************************************************************)
EXTENDS Naturals, Sequences, FiniteSets, FiniteSetsExt

CONSTANTS
  Sessions,      \* session ids, a set of positive numbers
  Callers,       \* HTTP handler goroutines
  Workers,       \* identities of worker goroutines, reused once collected
  Main,          \* the main goroutine
  None,          \* no thread, no worker
  Ops,           \* operations that the handlers issue in this instance
  Faults,        \* see above
  Capped,        \* sessions have a sample or duration cap
  InitialRows,   \* statuses the rows may have at the first boot
  SinkCapacity,  \* bound: capacity of the event queue
  MaxRestarts    \* bound: crashes or restarts of the process

Threads == Callers \cup Workers \cup {Main}

ASSUME SupervisorAssumption ==
  /\ Sessions \subseteq Nat \ {0} /\ IsFiniteSet(Sessions)
  /\ Callers \cap Workers = {} /\ Main \notin Callers \cup Workers
  /\ None \notin Threads /\ Sessions \cap (Threads \cup {None}) = {}
  /\ Ops \subseteq {"create", "reenable", "stop", "delete", "deleteSessions"}
  /\ Faults \subseteq {"store", "lost", "slow", "ctx", "term"}
  /\ Capped \in BOOLEAN
  /\ InitialRows \subseteq {"unborn", "running", "stopped", "finished"}
  /\ SinkCapacity \in Nat \ {0} /\ MaxRestarts \in Nat

VARIABLES
  row,         \* Postgres: status of each session's row
  workers,     \* the map from session to its runningWorker
  operations,  \* the session-operation locks and who holds them
  closing,     \* Wait was called
  rootDone,    \* the root context of all workers is cancelled
  phase,       \* boot (Resume), serving, draining (shutdown), stopped
  th,          \* per thread: its operation and where it is
  wk,          \* per worker goroutine: its session and where it is
  queue,       \* the sink: accepted samples and flush barriers, FIFO
  chRows,      \* ClickHouse: sessions that have samples
  restarts

vars == <<row, workers, operations, closing, rootDone, phase, th, wk, queue, chRows, restarts>>
storeVars == <<row, chRows>>
lifeVars  == <<closing, rootDone, phase, restarts>>

IdleThread == [pc |-> "idle", op |-> "none", want |-> {}, cur |-> 0,
               ptr |-> None, capped |-> FALSE, res |-> "none"]
NoWorker   == [pc |-> "gone", id |-> 0, cancelled |-> FALSE, capped |-> FALSE]

Live(w)      == wk[w].pc # "gone"
StopWaits(w) == \E t \in Threads : th[t].pc = "stopWait" /\ th[t].ptr = w
Cancelled(w) == wk[w].cancelled \/ rootDone
Held(t)      == {s \in Sessions : operations[s] = t}

\* Identities are reused once nobody refers to the runningWorker any more.
FreeWorkers == {w \in Workers : /\ ~Live(w) /\ th[w].pc = "idle"
                                /\ \A t \in Threads : th[t].ptr # w}

Goto(t, p)       == th' = [th EXCEPT ![t].pc = p]
Finish(t, r)     == th' = [th EXCEPT ![t].pc = "release", ![t].res = r]
Starting(t)      == th[t].op \in {"create", "reenable", "resume", "recover"}
\* startCurrent also restores ownership after a failed stop; the operation
\* then returns the error of the stop whatever the restoration does.
FinishStart(t, r) == Finish(t, IF Starting(t) THEN r ELSE "err")

-----------------------------------------------------------------------------
Init ==
  /\ row \in [Sessions -> InitialRows]
  /\ workers = [s \in Sessions |-> None]
  /\ operations = [s \in Sessions |-> None]
  /\ closing = FALSE /\ rootDone = FALSE /\ phase = "boot"
  /\ th = [t \in Threads |-> IdleThread]
  /\ wk = [w \in Workers |-> NoWorker]
  /\ queue = <<>> /\ chRows = {} /\ restarts = 0

-----------------------------------------------------------------------------
(* The API: a handler issues an operation.                                 *)

Begin(t, o, S) ==
  th' = [th EXCEPT ![t] = [IdleThread EXCEPT !.pc = "lock", !.op = o, !.want = S, !.cur = Min(S)]]

\* Workers bounds an instance here and only here: a request is issued while
\* there are identities left for every worker it may cause to be published.
Busy == {t \in Callers : th[t].pc # "idle"}

\* A handler may outlive the shutdown timeout of the HTTP server.
Serves(t, o) ==
  /\ phase \in {"serving", "draining"} /\ t \in Callers /\ th[t].pc = "idle" /\ o \in Ops
  /\ Cardinality(FreeWorkers) > Cardinality(Busy) + 1

\* CreateSession inserts a running row and then starts it.
Create(t, s) ==
  /\ Serves(t, "create")
  /\ row[s] = "unborn"
  /\ row' = [row EXCEPT ![s] = "running"]
  /\ \/ Begin(t, "create", {s})
     \/ "lost" \in Faults /\ UNCHANGED th
  /\ UNCHANGED <<workers, operations, lifeVars, wk, queue, chRows>>

\* Reenable updates the row before it asks for the operation lock.  Its look
\* at the root context is no guard: the root may end before the update does.
Reenable(t, s) ==
  /\ Serves(t, "reenable")
  /\ row[s] \in {"stopped", "finished"}
  /\ row' = [row EXCEPT ![s] = "running"]
  /\ \/ Begin(t, "reenable", {s})
     \/ "lost" \in Faults /\ UNCHANGED th
  /\ UNCHANGED <<workers, operations, lifeVars, wk, queue, chRows>>

Stop(t, s) ==
  /\ Serves(t, "stop")
  /\ row[s] # "unborn"
  /\ Begin(t, "stop", {s})
  /\ UNCHANGED <<storeVars, workers, operations, lifeVars, wk, queue>>

Delete(t, s) ==
  /\ Serves(t, "delete")
  /\ row[s] # "unborn"
  /\ Begin(t, "delete", {s})
  /\ UNCHANGED <<storeVars, workers, operations, lifeVars, wk, queue>>

\* DeleteSessions sorts and de-duplicates its ids: a set, lowest first.
DeleteSessions(t, S) ==
  /\ Serves(t, "deleteSessions")
  /\ \A s \in S : row[s] # "unborn"
  /\ Begin(t, "deleteSessions", S)
  /\ UNCHANGED <<storeVars, workers, operations, lifeVars, wk, queue>>

-----------------------------------------------------------------------------
(* withSessionOperation and withOperations.                                *)

Body(t) == CASE Starting(t) -> "start" [] th[t].op = "stop" -> "stop" [] OTHER -> "read"

\* Mutant of Acquire: a batch takes its locks in any order.
AcquireUnordered(t) ==
  /\ th[t].pc = "lock" /\ ~closing
  /\ \E s \in th[t].want \ Held(t) :
       /\ operations[s] = None
       /\ operations' = [operations EXCEPT ![s] = t]
       /\ LET left == (th[t].want \ Held(t)) \ {s}
          IN th' = IF left = {} THEN [th EXCEPT ![t].pc = Body(t), ![t].cur = Min(th[t].want)]
                                ELSE [th EXCEPT ![t].cur = CHOOSE x \in left : TRUE]
  /\ UNCHANGED <<storeVars, workers, lifeVars, wk, queue>>

\* Takes the lock of cur; a batch then asks for the next one, in order.
Acquire(t) ==
  /\ th[t].pc = "lock" /\ ~closing
  /\ operations[th[t].cur] = None
  /\ operations' = [operations EXCEPT ![th[t].cur] = t]
  /\ LET left == {s \in th[t].want : s > th[t].cur /\ th[t].op = "deleteSessions"}
     IN th' = IF left = {} THEN [th EXCEPT ![t].pc = Body(t),
                                           ![t].cur = IF th[t].op = "deleteSessions" THEN Min(th[t].want) ELSE th[t].cur]
                           ELSE [th EXCEPT ![t].cur = Min(left)]
  /\ UNCHANGED <<storeVars, workers, lifeVars, wk, queue>>

\* errSupervisorClosed, Start finding the root context cancelled before it
\* asks for the lock, or the context of a request ending while it waits.
GiveUpLock(t) ==
  /\ th[t].pc = "lock"
  /\ \/ closing
     \/ rootDone /\ th[t].op \in {"create", "reenable"}
     \/ "ctx" \in Faults /\ t \in Callers /\ operations[th[t].cur] # None
  /\ Finish(t, "err")
  /\ UNCHANGED <<storeVars, workers, operations, lifeVars, wk, queue>>

\* What a thread does once its last lock is released.
AfterOperation(t) ==
  CASE th[t].op = "create" /\ th[t].res # "ok"                  -> [th[t] EXCEPT !.pc = "cleanup"]
    [] th[t].op = "recover" /\ th[t].res = "err" /\ ~closing /\ ~rootDone -> [th[t] EXCEPT !.pc = "lock", !.res = "none"]
    [] th[t].op = "resume" /\ th[t].res = "err"                 -> [th[t] EXCEPT !.pc = "failed"]
    [] th[t].op = "resume" /\ th[t].res # "err" /\ th[t].want # {th[t].cur} ->
         [th[t] EXCEPT !.pc = "lock", !.want = @ \ {th[t].cur}, !.cur = Min(th[t].want \ {th[t].cur})]
    [] OTHER                                                    -> IdleThread

\* The nested operations unwind, the last lock taken first.
Release(t) ==
  /\ th[t].pc = "release"
  /\ operations' = IF Held(t) = {} THEN operations ELSE [operations EXCEPT ![Max(Held(t))] = None]
  /\ th' = IF Cardinality(Held(t)) > 1 THEN th ELSE [th EXCEPT ![t] = AfterOperation(t)]
  /\ phase' = IF t = Main /\ AfterOperation(t) = IdleThread THEN "serving" ELSE phase
  /\ UNCHANGED <<storeVars, workers, closing, rootDone, restarts, wk, queue>>

-----------------------------------------------------------------------------
(* startCurrent, start and publishPrepared.                                *)

\* With the lock held nobody else publishes, so the look at the map and the
\* read of the row are one step.
StartCurrent(t) ==
  /\ th[t].pc = "start"
  /\ LET s == th[t].cur
     IN \/ workers[s] # None /\ FinishStart(t, "ok")
        \/ workers[s] = None /\ row[s] = "running" /\ Goto(t, "publish")
        \/ workers[s] = None /\ row[s] # "running" /\ FinishStart(t, "stale")
        \/ workers[s] = None /\ "store" \in Faults /\ FinishStart(t, "err")
  /\ UNCHANGED <<storeVars, workers, operations, lifeVars, wk, queue>>

\* Mutant of PublishPrepared: closing and the root context are not checked.
PublishUngated(s, capped) ==
  \E w \in FreeWorkers :
    /\ workers' = [workers EXCEPT ![s] = w]
    /\ wk' = [wk EXCEPT ![w] = [NoWorker EXCEPT !.pc = "run", !.id = s, !.capped = capped]]

\* publishPrepared: refuses once closing or root is set, keeps an owner that
\* is already there, and otherwise starts the goroutine.
PublishPrepared(s, capped) ==
  IF closing \/ rootDone \/ workers[s] # None
  THEN UNCHANGED <<workers, wk>>
  ELSE \E w \in FreeWorkers :
         /\ workers' = [workers EXCEPT ![s] = w]
         /\ wk' = [wk EXCEPT ![w] = [NoWorker EXCEPT !.pc = "run", !.id = s, !.capped = capped]]

\* Prepare reads the row's rolling state; then the worker is published.
Publish(t) ==
  /\ th[t].pc = "publish"
  /\ \/ /\ PublishPrepared(th[t].cur, FALSE)
        /\ FinishStart(t, IF closing \/ rootDone THEN "err" ELSE "ok")
     \/ "store" \in Faults /\ FinishStart(t, "err") /\ UNCHANGED <<workers, wk>>
  /\ UNCHANGED <<storeVars, operations, lifeVars, queue>>

\* CreateSession after a failed Start: stop the row, or else delete it,
\* without the operation lock.
CleanupStop(t) ==
  /\ th[t].pc = "cleanup"
  /\ LET s == th[t].cur
     IN \/ row[s] = "running" /\ row' = [row EXCEPT ![s] = "stopped"]
           /\ \/ th' = [th EXCEPT ![t] = IdleThread]
              \/ "lost" \in Faults /\ Goto(t, "cleanupDelete")
        \/ row[s] # "running" /\ UNCHANGED row /\ Goto(t, "cleanupDelete")
        \/ "store" \in Faults /\ UNCHANGED row /\ Goto(t, "cleanupDelete")
  /\ UNCHANGED <<workers, operations, lifeVars, wk, queue, chRows>>

CleanupDelete(t) ==
  /\ th[t].pc = "cleanupDelete"
  /\ \/ row' = [row EXCEPT ![th[t].cur] = "deleted"]
     \/ "store" \in Faults /\ UNCHANGED row
  /\ th' = [th EXCEPT ![t] = IdleThread]
  /\ UNCHANGED <<workers, operations, lifeVars, wk, queue, chRows>>

-----------------------------------------------------------------------------
(* stop, stopWithOwnership, scheduleRecovery.                              *)

\* Where the operation goes when stop returned nil or ErrNotRunning.
NextTarget(t, done) ==
  LET left == {s \in th[t].want : s > th[t].cur}
  IN IF th[t].op = "deleteSessions" /\ left # {}
     THEN [th[t] EXCEPT !.pc = "read", !.cur = Min(left), !.ptr = None, !.capped = FALSE]
     ELSE [th[t] EXCEPT !.pc = done, !.cur = Min(th[t].want), !.ptr = None, !.capped = FALSE]

AfterStop(t, r) ==
  IF th[t].op = "stop" THEN Finish(t, r)
  ELSE th' = [th EXCEPT ![t] = NextTarget(t, "flush")]

\* Mutant of StopLook: the map entry goes before the worker does.
StopLookRemoving(t) ==
  /\ th[t].pc = "stop"
  /\ LET w == workers[th[t].cur]
     IN \/ w = None /\ Goto(t, "stopRead") /\ UNCHANGED <<wk, workers>>
        \/ /\ w # None
           /\ wk' = [wk EXCEPT ![w].cancelled = TRUE]
           /\ workers' = [workers EXCEPT ![th[t].cur] = None]
           /\ th' = [th EXCEPT ![t].pc = "stopWait", ![t].ptr = w]
  /\ UNCHANGED <<storeVars, operations, lifeVars, queue>>

\* Looks the worker up and cancels it.
StopLook(t) ==
  /\ th[t].pc = "stop"
  /\ LET w == workers[th[t].cur]
     IN \/ w = None /\ Goto(t, "stopRead") /\ UNCHANGED wk
        \/ /\ w # None
           /\ wk' = [wk EXCEPT ![w].cancelled = TRUE]
           /\ th' = [th EXCEPT ![t].pc = "stopWait", ![t].ptr = w]
  /\ UNCHANGED <<storeVars, workers, operations, lifeVars, queue>>

\* Mutant of StopWait: the worker is cancelled but not waited for.
StopWaitNot(t) ==
  /\ th[t].pc = "stopWait"
  /\ Goto(t, "stopRow")
  /\ UNCHANGED <<storeVars, workers, operations, lifeVars, wk, queue>>

\* <-running.done, or the stop context ends first
StopWait(t) ==
  /\ th[t].pc = "stopWait"
  /\ LET w == th[t].ptr
     IN \/ /\ ~Live(w)
           /\ th' = [th EXCEPT ![t].pc = "stopRow", ![t].capped = wk[w].capped]
           /\ wk' = [wk EXCEPT ![w] = NoWorker]
        \/ Live(w) /\ "slow" \in Faults /\ Goto(t, "schedule") /\ UNCHANGED wk
  /\ UNCHANGED <<storeVars, workers, operations, lifeVars, queue>>

\* No owner: SessionByID decides; if it fails, ownership is restored.
StopRead(t) ==
  /\ th[t].pc = "stopRead"
  /\ LET s == th[t].cur
     IN \/ row[s] = "running" /\ Goto(t, "stopRow")
        \/ row[s] \in {"stopped", "finished"} /\ AfterStop(t, "notRunning")
        \/ row[s] = "deleted" /\ Finish(t, "err")
        \/ "store" \in Faults /\ Goto(t, "start")
  /\ UNCHANGED <<storeVars, workers, operations, lifeVars, wk, queue>>

Restore(t) == IF th[t].ptr = None THEN "start" ELSE "restore"

\* Mutant of StopRow: a failed transition leaves the session without a worker.
StopRowNoRestore(t) ==
  /\ th[t].pc = "stopRow"
  /\ LET s == th[t].cur
         stopped == [row EXCEPT ![s] = "stopped"]
     IN \/ row[s] = "running" /\ row' = stopped /\ AfterStop(t, "ok")
        \/ row[s] # "running" /\ UNCHANGED row /\ AfterStop(t, "notRunning")
        \/ "store" \in Faults /\ UNCHANGED row /\ Finish(t, "err")
  /\ UNCHANGED <<workers, operations, lifeVars, wk, queue, chRows>>

\* store.Stop, retried until it succeeds or the context ends; then the
\* prepared worker is restored.
StopRow(t) ==
  /\ th[t].pc = "stopRow"
  /\ LET s == th[t].cur
         stopped == [row EXCEPT ![s] = "stopped"]
     IN \/ row[s] = "running" /\ row' = stopped /\ AfterStop(t, "ok")
        \/ row[s] # "running" /\ UNCHANGED row /\ AfterStop(t, "notRunning")
        \/ "store" \in Faults /\ UNCHANGED row /\ Goto(t, Restore(t))
        \/ row[s] = "running" /\ "lost" \in Faults /\ row' = stopped
           /\ (UNCHANGED th \/ Goto(t, Restore(t)))
  /\ UNCHANGED <<workers, operations, lifeVars, wk, queue, chRows>>

\* publishPrepared(id, prepared) with the rolling state of the old worker.
RestorePrepared(t) ==
  /\ th[t].pc = "restore"
  /\ PublishPrepared(th[t].cur, th[t].capped)
  /\ Finish(t, "err")
  /\ UNCHANGED <<storeVars, operations, lifeVars, queue>>

\* Mutant of Schedule: nobody restarts the session after a timed-out stop.
ScheduleNothing(t) ==
  /\ th[t].pc = "schedule"
  /\ Finish(t, "err")
  /\ UNCHANGED <<storeVars, workers, operations, lifeVars, wk, queue>>

\* A second failed stop of the same worker finds recoveryScheduled set.
Schedule(t) ==
  /\ th[t].pc = "schedule"
  /\ LET w == th[t].ptr
         spawned == [IdleThread EXCEPT !.pc = "recoverWait", !.op = "recover",
                                       !.want = {th[t].cur}, !.cur = th[t].cur]
     IN th' = [th EXCEPT ![t].pc = "release", ![t].res = "err",
                         ![w] = IF th[w].pc = "idle" /\ ~closing /\ ~rootDone THEN spawned ELSE th[w]]
  /\ UNCHANGED <<storeVars, workers, operations, lifeVars, wk, queue>>

\* recoverAfterExit: <-running.done, or <-recoveryCtx.Done()
RecoverWait(t) ==
  /\ th[t].pc = "recoverWait"
  /\ \/ ~Live(t) /\ Goto(t, "lock")
     \/ (closing \/ rootDone) /\ th' = [th EXCEPT ![t] = IdleThread]
  /\ UNCHANGED <<storeVars, workers, operations, lifeVars, wk, queue>>

-----------------------------------------------------------------------------
(* Delete and DeleteSessions, with the locks held.                         *)

\* SessionByID: only a running session is stopped; Delete fails on a missing
\* row, DeleteSessions skips it.
DeleteRead(t) ==
  /\ th[t].pc = "read"
  /\ LET s == th[t].cur
     IN \/ row[s] = "running" /\ Goto(t, "stop")
        \/ row[s] \in {"stopped", "finished"} /\ th' = [th EXCEPT ![t] = NextTarget(t, "flush")]
        \/ row[s] = "deleted" /\ (IF th[t].op = "delete" THEN Finish(t, "err")
                                  ELSE th' = [th EXCEPT ![t] = NextTarget(t, "flush")])
        \/ "store" \in Faults /\ Finish(t, "err")
  /\ UNCHANGED <<storeVars, workers, operations, lifeVars, wk, queue>>

\* Mutant of Flush: the queue barrier is not crossed.
SkipFlush(t) ==
  /\ th[t].pc = "flush"
  /\ Goto(t, "chDelete")
  /\ UNCHANGED <<storeVars, workers, operations, lifeVars, wk, queue>>

\* sink.Flush puts its barrier behind everything accepted so far.
Flush(t) ==
  /\ th[t].pc = "flush"
  /\ Len(queue) < SinkCapacity
  /\ queue' = Append(queue, t)
  /\ Goto(t, "flushWait")
  /\ UNCHANGED <<storeVars, workers, operations, lifeVars, wk>>

\* The flush is refused, or its context ends; a barrier that nobody waits for
\* keeps its place in the queue.
FlushFails(t) ==
  /\ \/ th[t].pc = "flush" /\ Faults \cap {"store", "ctx"} # {}
     \/ th[t].pc = "flushWait" /\ "ctx" \in Faults
  /\ queue' = [i \in DOMAIN queue |-> IF queue[i] = t THEN None ELSE queue[i]]
  /\ Finish(t, "err")
  /\ UNCHANGED <<storeVars, workers, operations, lifeVars, wk>>

\* The synchronous ClickHouse mutation over all targets.
DeleteSamples(t) ==
  /\ th[t].pc = "chDelete"
  /\ \/ chRows' = chRows \ th[t].want /\ Goto(t, "pgDelete")
     \/ "store" \in Faults /\ UNCHANGED chRows /\ Finish(t, "err")
  /\ UNCHANGED <<row, workers, operations, lifeVars, wk, queue>>

\* The control row goes last.
DeleteRow(t) ==
  /\ th[t].pc = "pgDelete"
  /\ \/ /\ row' = [row EXCEPT ![th[t].cur] = "deleted"]
        /\ LET next == NextTarget(t, "release")
           IN th' = [th EXCEPT ![t] = IF next.pc = "read" THEN [next EXCEPT !.pc = "pgDelete"]
                                      ELSE [next EXCEPT !.res = "ok"]]
     \/ "store" \in Faults /\ UNCHANGED row /\ Finish(t, "err")
  /\ UNCHANGED <<chRows, workers, operations, lifeVars, wk, queue>>

-----------------------------------------------------------------------------
(* The worker goroutine: PreparedWorker.Run and the wrapper around it.     *)

\* A tick that saved its snapshot; a failed save changes nothing.
WorkerTick(w) ==
  /\ wk[w].pc = "run" /\ ~Cancelled(w) /\ ~wk[w].capped
  /\ wk' = [wk EXCEPT ![w].pc = "enqueue"]
  /\ UNCHANGED <<storeVars, workers, operations, lifeVars, th, queue>>

\* sink.Enqueue drops the event when the queue is full.
WorkerEnqueue(w) ==
  /\ wk[w].pc = "enqueue"
  /\ wk' = [wk EXCEPT ![w].pc = "run"]
  /\ queue' = IF Len(queue) < SinkCapacity THEN Append(queue, wk[w].id) ELSE queue
  /\ UNCHANGED <<storeVars, workers, operations, lifeVars, th>>

\* capReached, by samples or by time; it stays true of this prepared worker.
WorkerCap(w) ==
  /\ Capped
  /\ wk[w].pc = "run" /\ ~Cancelled(w)
  /\ wk' = [wk EXCEPT ![w].pc = "finish", ![w].capped = TRUE]
  /\ UNCHANGED <<storeVars, workers, operations, lifeVars, th, queue>>

\* finish retries every error, ErrNotRunning included, until cancelled.
WorkerFinish(w) ==
  /\ wk[w].pc = "finish" /\ ~Cancelled(w)
  /\ row[wk[w].id] = "running"
  /\ row' = [row EXCEPT ![wk[w].id] = "finished"]
  /\ \/ wk' = [wk EXCEPT ![w].pc = "exit"]
     \/ "lost" \in Faults /\ UNCHANGED wk
  /\ UNCHANGED <<chRows, workers, operations, lifeVars, th, queue>>

\* Run returned: leave the map and close done.  What is left of the worker
\* is the prepared state, for a stop that waits for it.
WorkerExit(w) ==
  /\ wk[w].pc = "exit" \/ (wk[w].pc \in {"run", "finish"} /\ Cancelled(w))
  /\ wk' = [wk EXCEPT ![w] = [NoWorker EXCEPT !.capped = wk[w].capped /\ StopWaits(w)]]
  /\ workers' = IF workers[wk[w].id] = w THEN [workers EXCEPT ![wk[w].id] = None] ELSE workers
  /\ UNCHANGED <<storeVars, operations, lifeVars, th, queue>>

\* Mutant of SinkStep: a barrier is consumed without an answer.
SinkStepSilent ==
  /\ queue # <<>>
  /\ queue' = Tail(queue)
  /\ chRows' = chRows \cup ({Head(queue)} \cap Sessions)
  /\ UNCHANGED <<row, workers, operations, lifeVars, th, wk>>

\* The sink settles its head: a sample reaches ClickHouse or is lost with a
\* failed insert; a barrier answers its flush, with the failed insert if there
\* was one before it.
SinkStep ==
  /\ queue # <<>>
  /\ queue' = Tail(queue)
  /\ LET x == Head(queue)
     IN \/ x \in Sessions /\ chRows' = chRows \cup {x} /\ UNCHANGED th
        \/ x \in Sessions /\ "store" \in Faults /\ UNCHANGED <<chRows, th>>
        \/ x \in Threads /\ Goto(x, "chDelete") /\ UNCHANGED chRows
        \/ x \in Threads /\ "store" \in Faults /\ Finish(x, "err") /\ UNCHANGED chRows
        \/ x = None /\ UNCHANGED <<chRows, th>>
  /\ UNCHANGED <<row, workers, operations, lifeVars, wk>>

-----------------------------------------------------------------------------
(* The process: boot, shutdown, crash.                                     *)

RunningSessions == {s \in Sessions : row[s] = "running"}

\* Resume lists the running rows before the HTTP server is started.
Resume ==
  /\ phase = "boot" /\ th[Main].pc = "idle"
  /\ IF RunningSessions = {} THEN phase' = "serving" /\ UNCHANGED th
                             ELSE Begin(Main, "resume", RunningSessions) /\ UNCHANGED phase
  /\ UNCHANGED <<storeVars, workers, operations, closing, rootDone, restarts, wk, queue>>

\* After the HTTP server was shut down (or its timeout passed with handlers
\* still running) the root context is cancelled.
CancelWorkers ==
  /\ phase = "serving" /\ "term" \in Faults
  /\ phase' = "draining" /\ rootDone' = TRUE
  /\ UNCHANGED <<storeVars, workers, operations, closing, restarts, th, wk, queue>>

Wait ==
  /\ phase = "draining" /\ ~closing
  /\ closing' = TRUE
  /\ UNCHANGED <<storeVars, workers, operations, rootDone, phase, restarts, th, wk, queue>>

\* wg.Wait(): every published worker and every recovery has exited.
WaitReturns ==
  /\ phase = "draining" /\ closing
  /\ \A w \in Workers : ~Live(w) /\ th[w].pc = "idle"
  /\ phase' = "stopped"
  /\ UNCHANGED <<storeVars, workers, operations, closing, rootDone, restarts, th, wk, queue>>

\* A crash in any state, a failed Resume, or the end of a shutdown, followed
\* by a new process: only the databases remain.
Restart ==
  /\ restarts < MaxRestarts
  /\ restarts' = restarts + 1
  /\ phase' = "boot" /\ closing' = FALSE /\ rootDone' = FALSE
  /\ workers' = [s \in Sessions |-> None]
  /\ operations' = [s \in Sessions |-> None]
  /\ th' = [t \in Threads |-> IdleThread]
  /\ wk' = [w \in Workers |-> NoWorker]
  /\ queue' = <<>>
  /\ UNCHANGED storeVars

-----------------------------------------------------------------------------
ThreadStep(t) ==
  \/ Acquire(t) \/ GiveUpLock(t) \/ Release(t)
  \/ StartCurrent(t) \/ Publish(t) \/ CleanupStop(t) \/ CleanupDelete(t)
  \/ StopLook(t) \/ StopWait(t) \/ StopRead(t) \/ StopRow(t)
  \/ RestorePrepared(t) \/ Schedule(t) \/ RecoverWait(t)
  \/ DeleteRead(t) \/ Flush(t) \/ DeleteSamples(t) \/ DeleteRow(t)

WorkerStep(w) ==
  \/ WorkerTick(w) \/ WorkerEnqueue(w) \/ WorkerCap(w) \/ WorkerFinish(w) \/ WorkerExit(w)

Next ==
  \/ \E t \in Callers :
       \/ \E s \in Sessions : Create(t, s) \/ Reenable(t, s) \/ Stop(t, s) \/ Delete(t, s)
       \/ \E S \in (SUBSET Sessions) \ {{}} : DeleteSessions(t, S)
  \/ \E t \in Threads : ThreadStep(t) \/ FlushFails(t)
  \/ \E w \in Workers : WorkerStep(w)
  \/ SinkStep
  \/ Resume \/ CancelWorkers \/ Wait \/ WaitReturns \/ Restart

Spec == Init /\ [][Next]_vars

\* Threads, workers and the sink keep running; a worker notices its
\* cancellation; a waiter for a lock or for room in the queue is not passed
\* over for ever; and a database error does not repeat for ever while a
\* recovery retries.
RecoverStart(w)   == StartCurrent(w) /\ th'[w].res # "err"
RecoverPublish(w) == Publish(w) /\ th'[w].res # "err"
Fairness ==
  /\ \A t \in Threads : WF_vars(ThreadStep(t))
  /\ \A t \in Callers : SF_vars(Acquire(t)) /\ SF_vars(Flush(t))
  /\ \A w \in Workers : WF_vars(WorkerExit(w)) /\ WF_vars(WorkerEnqueue(w))
  /\ \A w \in Workers : SF_vars(Acquire(w)) /\ SF_vars(RecoverStart(w)) /\ SF_vars(RecoverPublish(w))
  /\ WF_vars(SinkStep) /\ WF_vars(Resume)

FairSpec == Spec /\ Fairness
-----------------------------------------------------------------------------
(* Properties.                                                             *)

ThreadPc == {"idle", "lock", "start", "publish", "cleanup", "cleanupDelete", "stop", "stopWait",
             "stopRead", "stopRow", "restore", "schedule", "recoverWait", "read", "flush",
             "flushWait", "chDelete", "pgDelete", "release", "failed"}

\* Types, and the capacity of the event queue.
TypeOK ==
  /\ row \in [Sessions -> {"unborn", "running", "stopped", "finished", "deleted"}]
  /\ workers \in [Sessions -> Workers \cup {None}]
  /\ operations \in [Sessions -> Threads \cup {None}]
  /\ closing \in BOOLEAN /\ rootDone \in BOOLEAN
  /\ phase \in {"boot", "serving", "draining", "stopped"}
  /\ th \in [Threads -> [pc : ThreadPc,
                         op : {"none", "resume", "recover", "create", "reenable", "stop",
                               "delete", "deleteSessions"},
                         want : SUBSET Sessions, cur : Sessions \cup {0},
                         ptr : Workers \cup {None}, capped : BOOLEAN,
                         res : {"none", "ok", "stale", "notRunning", "err"}]]
  /\ wk \in [Workers -> [pc : {"run", "enqueue", "finish", "exit", "gone"},
                         id : Sessions \cup {0}, cancelled : BOOLEAN, capped : BOOLEAN]]
  /\ queue \in Seq(Sessions \cup Threads \cup {None}) /\ Len(queue) <= SinkCapacity
  /\ chRows \subseteq Sessions
  /\ restarts \in 0 .. MaxRestarts

\* A goroutine that still runs is the one the map names for its session: no
\* session ever has two workers, and no running worker is out of reach of
\* Stop (supervisor.go: "owns at most one prepared worker goroutine").
LiveWorkersAreOwned == \A w \in Workers : Live(w) => workers[wk[w].id] = w

\* What every step of the supervisor and its callers keeps.
Ownership == TypeOK /\ LiveWorkersAreOwned

\* A failed or timed-out Stop or Delete never loses a session: while the
\* service is up, a running row without a worker has some thread that is
\* still working on it (an operation under way or a scheduled recovery).
RunningIsOwned ==
  phase = "serving" =>
    \A s \in Sessions : row[s] = "running" /\ workers[s] = None =>
      \E t \in Threads : th[t].pc # "idle" /\ s \in th[t].want

\* A stopped row has no worker: the row is marked only after the worker's
\* goroutine is gone, and nothing but a re-enable starts it again.
StoppedHasNoWorker == \A s \in Sessions : row[s] = "stopped" => workers[s] = None

\* A deleted session leaves nothing behind: no sample of it is stored, queued
\* or about to be queued, although workers, the sink and other operations run
\* concurrently with the deletion.
DeletedLeavesNothing ==
  \A s \in Sessions : row[s] = "deleted" =>
    /\ s \notin chRows
    /\ \A i \in DOMAIN queue : queue[i] # s
    /\ \A w \in Workers : wk[w].id = s => wk[w].pc # "enqueue"

\* Overlapping batch deletions never wait for each other's locks.
NoLockCycle ==
  \A t, u \in Threads :
    ~ /\ th[t].pc = "lock" /\ th[u].pc = "lock"
      /\ operations[th[t].cur] = u /\ operations[th[u].cur] = t

\* When Wait has returned nothing samples any more and nothing will: the
\* writer can be closed although handlers may still be running.
WaitDrains == phase = "stopped" => \A w \in Workers : ~Live(w) /\ th[w].pc = "idle"

\* Every operation returns to its caller, although operations wait for each
\* other's locks, for workers and for the sink.
OperationsReturn == \A t \in Callers : th[t].pc # "idle" ~> th[t].pc = "idle"

\* A session whose stop failed or timed out is sampled again, or is not
\* running any more.
SamplingResumes ==
  \A s \in Sessions : phase = "serving" /\ row[s] = "running" ~>
    \/ row[s] # "running"
    \/ \E w \in Workers : workers[s] = w /\ ~wk[w].cancelled

\* Reenable "resets a stopped or finished session's per-run counters and
\* starts a fresh worker": when no operation is under way any more, a running
\* row has its worker.
ReenableStarts ==
  phase = "serving" /\ (\A t \in Threads : th[t].pc = "idle") =>
    \A s \in Sessions : row[s] = "running" => workers[s] # None

=============================================================================
