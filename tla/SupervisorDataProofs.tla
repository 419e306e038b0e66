------------------------ MODULE SupervisorDataProofs ------------------------
(***************************************************************************)
(* What the operations of the supervisor promise about rows and samples,   *)
(* proved on top of SupervisorProofs: a stopped row has no worker and a    *)
(* deleted session leaves nothing behind, if a Postgres update is never    *)
(* committed and reported as failed and no creation cleans its row up      *)
(* without the lock of the session; and no running session is forgotten,   *)
(* if no request makes a row running without its lock.                     *)
(***************************************************************************)
EXTENDS SupervisorProofs

Safe == "lost" \notin Faults /\ "create" \notin Ops

\* No goroutine of s will enqueue a sample any more.
Silent(s) == \A w \in Workers : wk[w].pc # "gone" /\ wk[w].id = s => wk[w].capped

\* The targets a deletion has stopped, or found stopped.
Processed(t) ==
  CASE th[t].pc \in {"read", "stop", "stopWait", "stopRead", "stopRow"} -> {s \in Targets(t) : s < th[t].cur}
    [] th[t].pc \in {"flush", "flushWait", "chDelete", "pgDelete"} -> Targets(t)
    [] OTHER -> {}

\* What a thread knows of the row of its session, by where it stands.
PublishClean(t)   == th[t].pc = "publish" => row[th[t].cur] = "running" /\ workers[th[t].cur] = None
StopsUnstopped(t) == th[t].pc \in {"stopWait", "schedule", "stopRow", "restore"} => row[th[t].cur] # "stopped"
RemembersCap(t)   == th[t].pc = "stopWait" /\ wk[th[t].ptr].pc = "gone" /\ row[th[t].cur] # "running" =>
                       wk[th[t].ptr].capped
KeepsCap(t)       == th[t].pc \in {"stopRow", "restore"} /\ row[th[t].cur] # "running" => th[t].capped
Silenced(t)       == \A s \in Processed(t) : Silent(s)

StopInv(t) == PublishClean(t) /\ StopsUnstopped(t) /\ RemembersCap(t) /\ KeepsCap(t) /\ Silenced(t)

\* What a deletion knows of the sink and of ClickHouse.
Ahead(t)   == th[t].pc = "flushWait" =>
                \A i, j \in DOMAIN queue : queue[i] = t /\ queue[j] \in Targets(t) => j < i
Drained(t) == th[t].pc \in {"chDelete", "pgDelete"} => \A j \in DOMAIN queue : queue[j] \notin Targets(t)
Erased(t)  == th[t].pc = "pgDelete" => chRows \cap Targets(t) = {}

SinkInv(t) == Ahead(t) /\ Drained(t) /\ Erased(t)

\* A worker that reached its cap samples no more, and only such a one finishes.
CapInv == \A w \in Workers : /\ wk[w].capped => wk[w].pc # "enqueue"
                             /\ wk[w].pc \in {"finish", "exit"} => wk[w].capped
RowInv == \A s \in Sessions : /\ row[s] = "stopped" => workers[s] = None
                              /\ row[s] # "running" => Silent(s)

Data == /\ RowInv /\ CapInv /\ DeletedLeavesNothing
        /\ \A t \in Threads : StopInv(t) /\ SinkInv(t)

-----------------------------------------------------------------------------
(* Rows and workers.                                                       *)

\* Without creations no thread cleans up.
LEMMA NoCleanup ==
  ASSUME Base, "create" \notin Ops, NEW t \in Threads
  PROVE  ~CleanupStop(t) /\ ~CleanupDelete(t)
<1>1. th[t].op # "create"
  BY RolesDisjoint DEF Base, Placed
<1> QED
  BY <1>1, CleanupEffect

\* Who changes a row.
RowChange ==
  \/ UNCHANGED row
  \/ \E t \in Callers, s \in Sessions : /\ Reenable(t, s) /\ row[s] \in {"stopped", "finished"}
                                        /\ row' = [row EXCEPT ![s] = "running"]
  \/ \E t \in Threads : StopRow(t) /\ row[th[t].cur] = "running" /\ row' = [row EXCEPT ![th[t].cur] = "stopped"]
  \/ \E t \in Threads : DeleteRow(t) /\ row' = [row EXCEPT ![th[t].cur] = "deleted"]
  \/ \E w \in Workers : WorkerFinish(w) /\ row' = [row EXCEPT ![wk[w].id] = "finished"]

LEMMA NextRowChange ==
  ASSUME Base, Safe, Next
  PROVE  RowChange
<1>1. ASSUME NEW t \in Callers,
             \/ \E s \in Sessions : Create(t, s) \/ Reenable(t, s) \/ Stop(t, s) \/ Delete(t, s)
             \/ \E S \in (SUBSET Sessions) \ {{}} : DeleteSessions(t, S)
      PROVE  RowChange
  <2>1. ASSUME NEW s \in Sessions PROVE ~Create(t, s)
    BY DEF Create, Serves, Safe
  <2>2. ASSUME NEW s \in Sessions, Reenable(t, s) PROVE RowChange
    BY <2>2 DEF Reenable, RowChange
  <2>3. ASSUME NEW s \in Sessions, Stop(t, s) \/ Delete(t, s) PROVE UNCHANGED row
    BY <2>3 DEF Stop, Delete, storeVars
  <2>4. ASSUME NEW S \in (SUBSET Sessions) \ {{}}, DeleteSessions(t, S) PROVE UNCHANGED row
    BY <2>4 DEF DeleteSessions, storeVars
  <2> QED
    BY <1>1, <2>1, <2>2, <2>3, <2>4 DEF RowChange
<1>2. ASSUME NEW t \in Threads, StopRow(t) PROVE RowChange
  BY <1>2 DEF StopRow, RowChange, Safe
<1>3. ASSUME NEW t \in Threads, DeleteRow(t) PROVE RowChange
  BY <1>3 DEF DeleteRow, RowChange
<1>4. ASSUME NEW t \in Threads,
             \/ Acquire(t) \/ GiveUpLock(t) \/ Release(t)
             \/ StartCurrent(t) \/ Publish(t) \/ StopLook(t) \/ StopWait(t) \/ StopRead(t)
             \/ RestorePrepared(t) \/ Schedule(t) \/ RecoverWait(t)
             \/ DeleteRead(t) \/ Flush(t) \/ FlushFails(t) \/ DeleteSamples(t)
      PROVE  UNCHANGED row
  BY <1>4 DEF Acquire, GiveUpLock, Release, StartCurrent, Publish, StopLook, StopWait, StopRead,
       RestorePrepared, Schedule, RecoverWait, DeleteRead, Flush, FlushFails, DeleteSamples, storeVars
<1>5. ASSUME NEW w \in Workers, WorkerStep(w) PROVE RowChange
  BY <1>5 DEF WorkerStep, WorkerTick, WorkerEnqueue, WorkerCap, WorkerFinish, WorkerExit, storeVars, RowChange
<1>6. CASE SinkStep \/ Resume \/ CancelWorkers \/ Wait \/ WaitReturns \/ Restart
  BY <1>6 DEF SinkStep, Resume, CancelWorkers, Wait, WaitReturns, Restart, storeVars, RowChange
<1> QED
  BY <1>1, <1>2, <1>3, <1>4, <1>5, <1>6, NoCleanup DEF Next, ThreadStep, RowChange, Safe

\* Who publishes a worker, and under which lock.
Publishes(t, w, k) == /\ (Publish(t) /\ k = FALSE) \/ (RestorePrepared(t) /\ k = th[t].capped)
                      /\ Grows(th[t].cur, w, k) /\ UNCHANGED row

LEMMA NextPublishes ==
  ASSUME Base, Next
  PROVE  \/ Shrinks \/ Restart
         \/ \E t \in Threads, w \in Workers, k \in BOOLEAN : Publishes(t, w, k)
<1>1. ASSUME NEW t \in Threads, Publish(t)
      PROVE  Shrinks \/ \E w \in Workers, k \in BOOLEAN : Publishes(t, w, k)
  <2>1. th[t].cur \in Sessions /\ FALSE \in BOOLEAN /\ UNCHANGED row
    BY <1>1, CurIsSession DEF Publish, storeVars
  <2>2. UNCHANGED <<workers, wk>> \/ \E w \in Workers : Grows(th[t].cur, w, FALSE)
    BY <1>1, <2>1, PublishGrows DEF Publish
  <2> QED
    BY <1>1, <2>1, <2>2, UnchangedShrinks DEF Publishes
<1>2. ASSUME NEW t \in Threads, RestorePrepared(t)
      PROVE  Shrinks \/ \E w \in Workers, k \in BOOLEAN : Publishes(t, w, k)
  <2>1. th[t].cur \in Sessions /\ th[t].capped \in BOOLEAN /\ UNCHANGED row
    BY <1>2, CurIsSession, ThreadTypes DEF RestorePrepared, storeVars, Base, ThreadType
  <2>2. UNCHANGED <<workers, wk>> \/ \E w \in Workers : Grows(th[t].cur, w, th[t].capped)
    BY <1>2, <2>1, PublishGrows DEF RestorePrepared
  <2> QED
    BY <1>2, <2>1, <2>2, UnchangedShrinks DEF Publishes
<1>3. ASSUME NEW t \in Threads, ThreadStep(t) \/ FlushFails(t), ~Publish(t), ~RestorePrepared(t) PROVE Shrinks
  <2>1. CASE StopLook(t)
    BY <2>1, StopLookShrinks
  <2>2. CASE StopWait(t)
    BY <2>2, StopWaitShrinks
  <2>3. CASE EdgeStep(t)
    BY <2>3, EdgeFrame
  <2>4. CASE \/ StartCurrent(t) \/ StopRead(t) \/ StopRow(t) \/ DeleteRead(t) \/ Flush(t) \/ FlushFails(t)
             \/ DeleteSamples(t) \/ DeleteRow(t)
    BY <2>4, UnchangedShrinks DEF StartCurrent, StopRead, StopRow, DeleteRead, Flush, FlushFails, DeleteSamples, DeleteRow
  <2> QED
    BY <1>3, <2>1, <2>2, <2>3, <2>4 DEF ThreadStep, EdgeStep
<1>4. ASSUME NEW w \in Workers, WorkerStep(w) PROVE Shrinks
  BY <1>4, WorkerGoesOn, WorkerExitShrinks DEF WorkerStep
<1>5. ASSUME NEW t \in Callers,
             \/ \E s \in Sessions : Create(t, s) \/ Reenable(t, s) \/ Stop(t, s) \/ Delete(t, s)
             \/ \E S \in (SUBSET Sessions) \ {{}} : DeleteSessions(t, S)
      PROVE  Shrinks
  BY <1>5, UnchangedShrinks DEF Create, Reenable, Stop, Delete, DeleteSessions
<1>6. CASE SinkStep \/ Resume \/ CancelWorkers \/ Wait \/ WaitReturns
  BY <1>6, UnchangedShrinks DEF SinkStep, Resume, CancelWorkers, Wait, WaitReturns
<1> QED
  BY <1>1, <1>2, <1>3, <1>4, <1>5, <1>6 DEF Next

\* A session stays silent unless a worker is published for it.
LEMMA SilentKept ==
  ASSUME Base, Next, NEW s \in Sessions, Silent(s)
  PROVE  \/ Silent(s)'
         \/ \E t \in Threads, w \in Workers, k \in BOOLEAN : Publishes(t, w, k) /\ th[t].cur = s
<1>1. CASE Shrinks
  BY <1>1 DEF Shrinks, Silent
<1>2. CASE Restart
  BY <1>2, NoWorkerTyped DEF Restart, Silent
<1>3. ASSUME NEW t \in Threads, NEW w \in Workers, NEW k \in BOOLEAN, Publishes(t, w, k), th[t].cur # s
      PROVE  Silent(s)'
  BY <1>3 DEF Publishes, Grows, Silent
<1> QED
  BY <1>1, <1>2, <1>3, NextPublishes

\* A session without an entry in the map is silent.
LEMMA NoWorkerSilent ==
  ASSUME Base, NEW s \in Sessions, workers[s] = None
  PROVE  Silent(s)
BY RolesDisjoint DEF Base, MapInv, Silent, Live

LEMMA RowInvStep ==
  ASSUME Base, Data, Safe, Next
  PROVE  RowInv'
<1>0. row \in [Sessions -> Statuses] /\ workers \in [Sessions -> Workers \cup {None}]
  BY DEF Base, TypeOK, Statuses
<1>1. ASSUME NEW s \in Sessions, row'[s] = row[s]
      PROVE  (row'[s] = "stopped" => workers'[s] = None) /\ (row'[s] # "running" => Silent(s)')
  <2>1. ASSUME NEW t \in Threads, NEW w \in Workers, NEW k \in BOOLEAN, Publishes(t, w, k), th[t].cur = s,
               row[s] # "running"
        PROVE  row[s] # "stopped" /\ Silent(s)'
    <3>1. StopInv(t)
      BY DEF Data
    <3>2. ~Publish(t)
      BY <2>1, <3>1 DEF Publish, StopInv, PublishClean
    <3>3. th[t].pc = "restore" /\ k = th[t].capped
      BY <2>1, <3>2 DEF Publishes, RestorePrepared
    <3>4. row[s] # "stopped" /\ k
      BY <2>1, <3>1, <3>3 DEF StopInv, StopsUnstopped, KeepsCap
    <3>5. workers[s] = None
      BY <2>1 DEF Publishes, Grows
    <3>6. Silent(s)
      BY <3>5, NoWorkerSilent
    <3>7. Silent(s)'
      BY <2>1, <3>4, <3>6 DEF Silent, Publishes, Grows
    <3> QED
      BY <3>4, <3>7
  <2>2. row[s] # "running" => Silent(s)'
    BY <2>1, SilentKept DEF Data, RowInv
  <2>3. row[s] = "stopped" => workers'[s] = None
    <3> SUFFICES ASSUME row[s] = "stopped" PROVE workers'[s] = None
      OBVIOUS
    <3>1. workers[s] = None
      BY DEF Data, RowInv
    <3>2. CASE Shrinks
      BY <3>1, <3>2 DEF Shrinks
    <3>3. CASE Restart
      BY <3>3 DEF Restart
    <3>4. ASSUME NEW t \in Threads, NEW w \in Workers, NEW k \in BOOLEAN, Publishes(t, w, k)
          PROVE  workers'[s] = None
      <4>1. th[t].cur # s
        BY <2>1, <3>4
      <4> QED
        BY <1>0, <3>1, <3>4, <4>1 DEF Publishes, Grows
    <3> QED
      BY <3>2, <3>3, <3>4, NextPublishes
  <2> QED
    BY <1>1, <2>2, <2>3
<1>2. ASSUME NEW s \in Sessions, row'[s] # row[s]
      PROVE  (row'[s] = "stopped" => workers'[s] = None) /\ (row'[s] # "running" => Silent(s)')
  <2>1. ASSUME NEW t \in Callers, NEW x \in Sessions, row' = [row EXCEPT ![x] = "running"]
        PROVE  row'[s] = "running"
    BY <1>0, <1>2, <2>1
  <2>2. ASSUME NEW t \in Threads, StopRow(t), row' = [row EXCEPT ![th[t].cur] = "stopped"]
        PROVE  workers'[s] = None /\ Silent(s)'
    <3>1. s = th[t].cur /\ th[t].pc = "stopRow" /\ UNCHANGED <<workers, wk>>
      BY <1>0, <1>2, <2>2 DEF StopRow
    <3>2. workers[s] = None
      BY <3>1 DEF Base, Pointers
    <3>3. Silent(s)
      BY <3>2, NoWorkerSilent
    <3> QED
      BY <3>1, <3>2, <3>3 DEF Silent
  <2>3. ASSUME NEW t \in Threads, DeleteRow(t), row' = [row EXCEPT ![th[t].cur] = "deleted"]
        PROVE  row'[s] = "deleted" /\ Silent(s)'
    <3>1. s = th[t].cur /\ th[t].pc = "pgDelete" /\ UNCHANGED <<workers, wk>> /\ row'[s] = "deleted"
      BY <1>0, <1>2, <2>3 DEF DeleteRow
    <3>2. s \in Processed(t)
      BY <3>1, WorkTarget DEF Processed, Inside
    <3>3. Silent(s)
      BY <3>2 DEF Data, StopInv, Silenced
    <3> QED
      BY <3>1, <3>3 DEF Silent
  <2>4. ASSUME NEW w \in Workers, WorkerFinish(w), row' = [row EXCEPT ![wk[w].id] = "finished"]
        PROVE  row'[s] = "finished" /\ Silent(s)'
    <3>1. s = wk[w].id /\ wk[w].pc = "finish" /\ row'[s] = "finished"
      BY <1>0, <1>2, <2>4 DEF WorkerFinish
    <3>2. workers[s] = w /\ wk[w].capped
      BY <3>1 DEF Base, MapInv, Live, Data, CapInv
    <3>3. Silent(s)
      BY <3>2 DEF Base, MapInv, Live, Silent
    <3>4. Shrinks
      BY <2>4, WorkerGoesOn
    <3> QED
      BY <3>1, <3>3, <3>4 DEF Silent, Shrinks
  <2> QED
    BY <1>2, <2>1, <2>2, <2>3, <2>4, NextRowChange DEF RowChange
<1> QED
  BY <1>1, <1>2 DEF RowInv

LEMMA CapInvStep ==
  ASSUME Base, Data, Next
  PROVE  CapInv'
<1>0. CapInv
  BY DEF Data
<1>1. ASSUME NEW w \in Workers, WorkerTick(w) \/ WorkerEnqueue(w) \/ WorkerCap(w) \/ WorkerFinish(w) PROVE CapInv'
  <2>1. \A v \in Workers : v # w => wk'[v] = wk[v]
    BY <1>1, WorkerGoesOn
  <2>2. (wk'[w].capped => wk'[w].pc # "enqueue") /\ (wk'[w].pc \in {"finish", "exit"} => wk'[w].capped)
    BY <1>0, <1>1, WorkerGoesOn DEF CapInv, WorkerTick, WorkerEnqueue, WorkerFinish
  <2> QED
    BY <1>0, <2>1, <2>2 DEF CapInv
<1>2. ASSUME NEW w \in Workers, WorkerExit(w) PROVE CapInv'
  <2>1. wk'[w].pc = "gone" /\ \A v \in Workers : v # w => wk'[v] = wk[v]
    BY <1>2, WorkerExitShrinks
  <2> QED
    BY <1>0, <2>1 DEF CapInv
<1>3. CASE UNCHANGED wk
  BY <1>0, <1>3 DEF CapInv
<1>5. ASSUME NEW t \in Threads, Publish(t) \/ RestorePrepared(t) PROVE CapInv'
  <2>1. th[t].cur \in Sessions /\ th[t].capped \in BOOLEAN /\ FALSE \in BOOLEAN
    BY <1>5, CurIsSession, ThreadTypes DEF Publish, RestorePrepared, Base, ThreadType
  <2>2. UNCHANGED wk \/ \E w \in Workers, k \in BOOLEAN : Grows(th[t].cur, w, k)
    BY <1>5, <2>1, PublishGrows DEF Publish, RestorePrepared
  <2> QED
    BY <1>0, <1>3, <2>2 DEF CapInv, Grows
<1>6. ASSUME NEW t \in Threads, StopLook(t) PROVE CapInv'
  <2>1. CASE UNCHANGED wk
    BY <1>3, <2>1
  <2>2. CASE workers[th[t].cur] # None
    <3> DEFINE v == workers[th[t].cur]
    <3>1. v \in Workers /\ wk' = [wk EXCEPT ![v].cancelled = TRUE]
      BY <1>6, <2>2, StopLookWorks DEF StopLook
    <3> HIDE DEF v
    <3>2. wk \in [Workers -> WorkerType]
      BY <3>1, WorkerTyped DEF Base
    <3>3. \A w \in Workers : wk'[w].pc = wk[w].pc /\ wk'[w].capped = wk[w].capped
      BY <3>1, <3>2 DEF WorkerType
    <3> QED
      BY <1>0, <3>3 DEF CapInv
  <2> QED
    BY <1>6, <2>1, <2>2 DEF StopLook
<1>7. ASSUME NEW t \in Threads, StopWait(t) PROVE CapInv'
  <2>1. CASE UNCHANGED wk
    BY <1>3, <2>1
  <2>2. CASE th[t].ptr \in Workers /\ wk' = [wk EXCEPT ![th[t].ptr] = NoWorker]
    <3>1. wk \in [Workers -> WorkerType]
      BY <2>2, WorkerTyped DEF Base
    <3> QED
      BY <1>0, <2>2, <3>1, NoWorkerTyped DEF CapInv
  <2> QED
    BY <1>7, <2>1, <2>2, StopWaitWorks
<1>8. ASSUME NEW t \in Threads, EdgeStep(t) PROVE UNCHANGED wk
  BY <1>8, EdgeFrame
<1>9. ASSUME NEW t \in Threads,
             \/ StartCurrent(t) \/ StopRead(t) \/ StopRow(t) \/ DeleteRead(t) \/ Flush(t) \/ FlushFails(t)
             \/ DeleteSamples(t) \/ DeleteRow(t)
      PROVE  UNCHANGED wk
  BY <1>9 DEF StartCurrent, StopRead, StopRow, DeleteRead, Flush, FlushFails, DeleteSamples, DeleteRow
<1>10. ASSUME NEW t \in Callers,
             \/ \E s \in Sessions : Create(t, s) \/ Reenable(t, s) \/ Stop(t, s) \/ Delete(t, s)
             \/ \E S \in (SUBSET Sessions) \ {{}} : DeleteSessions(t, S)
       PROVE  UNCHANGED wk
  BY <1>10 DEF Create, Reenable, Stop, Delete, DeleteSessions
<1>11. CASE SinkStep \/ Resume \/ CancelWorkers \/ Wait \/ WaitReturns
  BY <1>3, <1>11 DEF SinkStep, Resume, CancelWorkers, Wait, WaitReturns
<1>12. CASE Restart
  BY <1>12, NoWorkerTyped DEF Restart, CapInv
<1> QED
  BY <1>1, <1>2, <1>3, <1>5, <1>6, <1>7, <1>8, <1>9, <1>10, <1>11, <1>12 DEF Next, ThreadStep, EdgeStep, WorkerStep

-----------------------------------------------------------------------------
(* What the others leave alone while an operation has its locks.           *)

Publishing(u) == Publish(u) \/ RestorePrepared(u)

\* Other operations publish nothing for its targets.
LEMMA MapProtected ==
  ASSUME Base, Next, NEW u \in Threads, th[u].pc \in Inside, ~Publishing(u), NEW s \in Targets(u)
  PROVE  s \in Sessions /\ workers'[s] \in {workers[s], None} /\ (Silent(s) => Silent(s)')
<1>1. s \in Sessions
  BY TargetTyped, InsidePcs DEF Base, Targets
<1>2. ASSUME NEW t \in Threads, NEW w \in Workers, NEW k \in BOOLEAN, Publishes(t, w, k) PROVE th[t].cur # s
  <2>1. t # u /\ th[t].pc \in Inside
    BY <1>2 DEF Publishes, Publishing, Publish, RestorePrepared, Inside
  <2>2. th[t].cur \in Targets(t)
    BY <2>1, WorkTarget
  <2> QED
    BY <2>1, <2>2, Apart
<1>3. workers'[s] \in {workers[s], None}
  <2>1. workers \in [Sessions -> Workers \cup {None}]
    BY DEF Base, TypeOK
  <2>2. CASE Shrinks
    BY <1>1, <2>2 DEF Shrinks
  <2>3. CASE Restart
    BY <1>1, <2>3 DEF Restart
  <2>4. ASSUME NEW t \in Threads, NEW w \in Workers, NEW k \in BOOLEAN, Publishes(t, w, k)
        PROVE  workers'[s] = workers[s]
    BY <1>1, <1>2, <2>1, <2>4 DEF Publishes, Grows
  <2> QED
    BY <2>2, <2>3, <2>4, NextPublishes
<1> QED
  BY <1>1, <1>2, <1>3, SilentKept

\* Nor do they change the rows of its targets, but for a re-enable and for a
\* worker that finishes.
LEMMA RowProtected ==
  ASSUME Base, Data, Safe, Next, NEW u \in Threads, th[u].pc \in Inside, NEW s \in Targets(u)
  PROVE  \/ row'[s] = row[s]
         \/ row[s] # "running" /\ row'[s] = "running"
         \/ StopRow(u) \/ DeleteRow(u)
         \/ \E w \in Workers : WorkerFinish(w) /\ workers[s] = w /\ row'[s] = "finished"
<1>0. row \in [Sessions -> Statuses] /\ s \in Sessions
  BY TargetTyped, InsidePcs DEF Base, Targets, TypeOK, Statuses
<1>1. ASSUME NEW t \in Threads, t # u, th[t].pc \in Inside PROVE th[t].cur # s /\ th[t].cur \in Sessions
  BY <1>1, WorkTarget, Apart
<1>2. ASSUME NEW t \in Threads, StopRow(t), row' = [row EXCEPT ![th[t].cur] = "stopped"], ~StopRow(u)
      PROVE  row'[s] = row[s]
  BY <1>0, <1>1, <1>2 DEF StopRow, Inside
<1>3. ASSUME NEW t \in Threads, DeleteRow(t), row' = [row EXCEPT ![th[t].cur] = "deleted"], ~DeleteRow(u)
      PROVE  row'[s] = row[s]
  BY <1>0, <1>1, <1>3 DEF DeleteRow, Inside
<1>4. ASSUME NEW w \in Workers, WorkerFinish(w), row' = [row EXCEPT ![wk[w].id] = "finished"]
      PROVE  row'[s] = row[s] \/ (workers[s] = w /\ row'[s] = "finished")
  <2>1. Live(w)
    BY <1>4 DEF WorkerFinish, Live
  <2>2. wk[w].id \in Sessions /\ workers[wk[w].id] = w
    BY <2>1 DEF Base, MapInv
  <2> QED
    BY <1>0, <1>4, <2>2
<1>5. ASSUME NEW x \in Sessions, row[x] \in {"stopped", "finished"}, row' = [row EXCEPT ![x] = "running"]
      PROVE  row'[s] = row[s] \/ (row[s] # "running" /\ row'[s] = "running")
  BY <1>0, <1>5
<1> QED
  BY <1>2, <1>3, <1>4, <1>5, NextRowChange DEF RowChange

\* What is left of a goroutine that is gone, while a stop remembers it.
LEMMA GoneProtected ==
  ASSUME Base, Next, ~Restart, NEW u \in Threads, th[u].pc = "stopWait", ~StopWait(u), NEW x \in Workers,
         th[u].ptr = x, wk'[x].pc = "gone"
  PROVE  \/ wk[x].pc = "gone" /\ wk'[x] = wk[x]
         \/ /\ wk[x].pc # "gone" /\ UNCHANGED row
            /\ wk[x].capped => wk'[x].capped
<1>0. th[u].pc \in Inside /\ x # None
  BY RolesDisjoint DEF Inside
<1>1. ASSUME NEW t \in Threads, StopWait(t) PROVE wk'[x] = wk[x]
  <2>1. t # u /\ th[t].pc \in Inside
    BY <1>1 DEF StopWait, Inside
  <2>2. th[t].cur # th[u].cur
    BY <1>0, <2>1, Apart
  <2>3. SameTarget(t, u)
    BY PointerParts DEF Base
  <2>4. th[t].ptr # x
    BY <1>0, <2>2, <2>3 DEF SameTarget
  <2>5. wk \in [Workers -> WorkerType]
    BY WorkerTyped DEF Base
  <2> QED
    BY <1>1, <2>4, <2>5, StopWaitWorks
<1>2. ASSUME NEW w \in Workers, WorkerStep(w)
      PROVE  \/ wk[x].pc = "gone" /\ wk'[x] = wk[x]
             \/ wk[x].pc # "gone" /\ UNCHANGED row /\ (wk[x].capped => wk'[x].capped)
  <2>1. CASE WorkerExit(w)
    <3>1. wk[w].pc # "gone" /\ UNCHANGED row /\ \A v \in Workers : v # w => wk'[v] = wk[v]
      BY <2>1, WorkerExitShrinks DEF WorkerExit, storeVars
    <3>2. wk'[w].capped = (wk[w].capped /\ StopWaits(w))
      BY <2>1, WorkerExitShrinks
    <3>3. StopWaits(x)
      BY DEF StopWaits
    <3>4. CASE x = w
      BY <3>1, <3>2, <3>3, <3>4
    <3> QED
      BY <3>1, <3>4
  <2>2. CASE ~WorkerExit(w)
    <3>1. /\ wk[w].pc # "gone" /\ (wk'[w].pc # "gone" \/ UNCHANGED wk)
          /\ \A v \in Workers : v # w => wk'[v] = wk[v]
      BY <1>2, <2>2, WorkerGoesOn DEF WorkerStep
    <3>2. wk'[w].pc # "gone"
      BY <3>1
    <3> QED
      BY <3>1, <3>2
  <2> QED
    BY <2>1, <2>2
<1>3. ASSUME NEW t \in Threads, NEW w \in Workers, NEW k, Grows(th[t].cur, w, k) PROVE wk'[x] = wk[x]
  BY <1>3 DEF Grows, FreeWorkers
<1>4. ASSUME NEW t \in Threads, Publish(t) \/ RestorePrepared(t) PROVE wk'[x] = wk[x]
  <2>1. th[t].cur \in Sessions /\ th[t].capped \in BOOLEAN /\ FALSE \in BOOLEAN
    BY <1>4, CurIsSession, ThreadTypes DEF Publish, RestorePrepared, Base, ThreadType
  <2>2. UNCHANGED wk \/ \E w \in Workers, k \in BOOLEAN : Grows(th[t].cur, w, k)
    BY <1>4, <2>1, PublishGrows DEF Publish, RestorePrepared
  <2> QED
    BY <1>3, <2>2
<1>5. ASSUME NEW t \in Threads, StopLook(t) PROVE wk'[x] = wk[x]
  <2>1. t # u /\ th[t].pc \in Inside
    BY <1>5 DEF StopLook, Inside
  <2>2. th[t].cur # th[u].cur /\ th[t].cur \in Sessions
    BY <1>0, <2>1, Apart, WorkTarget
  <2>3. workers[th[t].cur] # x
    <3>1. PointsAt(u, x)
      BY PointerParts DEF Base
    <3>2. workers[th[t].cur] = x => Live(x) /\ wk[x].id = th[t].cur
      BY <1>0, <2>2 DEF Base, MapInv
    <3> QED
      BY <2>2, <3>1, <3>2 DEF PointsAt
  <2>4. wk \in [Workers -> WorkerType]
    BY WorkerTyped DEF Base
  <2>5. UNCHANGED wk \/ wk' = [wk EXCEPT ![workers[th[t].cur]].cancelled = TRUE]
    BY <1>5 DEF StopLook
  <2> QED
    BY <2>3, <2>4, <2>5
<1>6. ASSUME NEW t \in Threads, EdgeStep(t) PROVE UNCHANGED wk
  BY <1>6, EdgeFrame
<1>7. ASSUME NEW t \in Threads,
             \/ StartCurrent(t) \/ StopRead(t) \/ StopRow(t) \/ DeleteRead(t) \/ Flush(t) \/ FlushFails(t)
             \/ DeleteSamples(t) \/ DeleteRow(t)
      PROVE  UNCHANGED wk
  BY <1>7 DEF StartCurrent, StopRead, StopRow, DeleteRead, Flush, FlushFails, DeleteSamples, DeleteRow
<1>8. ASSUME NEW t \in Callers,
             \/ \E s \in Sessions : Create(t, s) \/ Reenable(t, s) \/ Stop(t, s) \/ Delete(t, s)
             \/ \E S \in (SUBSET Sessions) \ {{}} : DeleteSessions(t, S)
      PROVE  UNCHANGED wk
  BY <1>8 DEF Create, Reenable, Stop, Delete, DeleteSessions
<1>9. CASE SinkStep \/ Resume \/ CancelWorkers \/ Wait \/ WaitReturns
  BY <1>9 DEF SinkStep, Resume, CancelWorkers, Wait, WaitReturns
<1>10. CASE wk'[x] = wk[x]
  <2>1. wk[x].pc = "gone"
    BY <1>10
  <2> QED
    BY <1>10, <2>1
<1>11. (UNCHANGED wk => wk'[x] = wk[x])
  OBVIOUS
<1> QED
  BY <1>1, <1>2, <1>4, <1>5, <1>6, <1>7, <1>8, <1>9, <1>10, <1>11 DEF Next, ThreadStep, EdgeStep

-----------------------------------------------------------------------------
(* StopInv is kept.                                                        *)

Unknowing == {"idle", "lock", "start", "release", "cleanup", "cleanupDelete", "recoverWait", "failed"}

\* Where a thread knows nothing there is nothing to keep.
LEMMA StopInvUnknowing ==
  ASSUME NEW u \in Threads, th'[u].pc \in Unknowing
  PROVE  StopInv(u)'
BY DEF Unknowing, StopInv, PublishClean, StopsUnstopped, RemembersCap, KeepsCap, Silenced, Processed

\* A thread that others step past.
LEMMA StopInvSame ==
  ASSUME Base, Data, Safe, Next, ~Restart, NEW u \in Threads, th[u].pc \in Inside, th'[u] = th[u]
  PROVE  StopInv(u)'
<1> DEFINE c == th[u].cur
<1>0. StopInv(u) /\ c \in Targets(u) /\ c \in Sessions
  BY WorkTarget DEF Data
<1>1. ~Publishing(u)
  BY PublishWorks, RestorePreparedWorks DEF Publishing, Publish, RestorePrepared
<1>2. ~StopWait(u)
  <2>1. ASSUME StopWait(u) PROVE FALSE
    <3>1. th[u].pc = "stopWait" /\ th'[u].pc \in {"stopRow", "schedule"}
      BY <2>1, StopWaitWorks DEF StopWait, Works, Becomes
    <3> QED
      BY <3>1
  <2> QED
    BY <2>1
<1>3. ~StopRow(u)
  <2>1. ASSUME StopRow(u) PROVE FALSE
    <3>1. (\E r \in {"ok", "notRunning"} : AfterStop(u, r)) \/ Goto(u, Restore(u))
      BY <2>1 DEF StopRow, Safe
    <3>2. ASSUME NEW r \in {"ok", "notRunning"}, AfterStop(u, r) PROVE th'[u].pc # "stopRow"
      <4>1. StopDone(u, r)
        BY <2>1, <3>2, AfterStopDone DEF Base, Results, StopRow
      <4> QED
        BY <4>1 DEF StopDone, Ends, Advances, Becomes
    <3>3. ASSUME Goto(u, Restore(u)) PROVE th'[u].pc # "stopRow"
      BY <2>1, <3>3, RestoreWorks DEF StopRow, Works, Becomes, Restore
    <3>4. th[u].pc = "stopRow"
      BY <2>1 DEF StopRow
    <3> QED
      BY <3>1, <3>2, <3>3, <3>4
  <2> QED
    BY <2>1
<1>4. workers'[c] \in {workers[c], None}
  BY <1>0, <1>1, MapProtected
<1>5. \/ row'[c] = row[c] \/ row'[c] = "running"
      \/ DeleteRow(u) \/ (workers[c] # None /\ workers[c] \in Workers /\ wk[workers[c]].pc # "gone" /\ row'[c] = "finished")
  <2>1. ASSUME NEW w \in Workers, WorkerFinish(w), workers[c] = w
        PROVE  workers[c] # None /\ workers[c] \in Workers /\ wk[workers[c]].pc # "gone"
    BY <2>1, RolesDisjoint DEF WorkerFinish
  <2> QED
    BY <1>0, <1>3, <2>1, RowProtected
<1>6. th[u].pc # "pgDelete" => ~DeleteRow(u)
  BY DEF DeleteRow
<1> HIDE DEF c
<1>7. PublishClean(u)'
  BY <1>0, <1>4, <1>5, <1>6 DEF c, StopInv, PublishClean
<1>8. StopsUnstopped(u)'
  BY <1>0, <1>5, <1>6 DEF c, StopInv, StopsUnstopped
<1>9. RemembersCap(u)'
  <2> SUFFICES ASSUME th[u].pc = "stopWait", wk'[th[u].ptr].pc = "gone", row'[c] # "running"
               PROVE  wk'[th[u].ptr].capped
    BY DEF RemembersCap, c
  <2>1. th[u].ptr \in Workers /\ workers[c] \in {th[u].ptr, None}
    BY ThreadTypes DEF Base, Placed, Fits, ThreadType, Pointers, c
  <2>2. CASE wk[th[u].ptr].pc = "gone" /\ wk'[th[u].ptr] = wk[th[u].ptr]
    <3>1. row'[c] = row[c]
      BY <1>5, <1>6, <2>1, <2>2
    <3> QED
      BY <1>0, <2>2, <3>1 DEF StopInv, RemembersCap, c
  <2>3. CASE wk[th[u].ptr].pc # "gone" /\ UNCHANGED row /\ (wk[th[u].ptr].capped => wk'[th[u].ptr].capped)
    <3>1. Silent(c)
      BY <1>0, <2>3 DEF Data, RowInv
    <3>2. PointsAt(u, th[u].ptr)
      BY <2>1, PointerParts DEF Base
    <3>3. wk[th[u].ptr].id = c
      BY <2>3, <3>2 DEF PointsAt, Live, c
    <3> QED
      BY <2>1, <2>3, <3>1, <3>3 DEF Silent
  <2> QED
    BY <1>2, <2>1, <2>2, <2>3, GoneProtected
<1>10. KeepsCap(u)'
  <2> SUFFICES ASSUME th[u].pc \in {"stopRow", "restore"}, row'[c] # "running" PROVE th[u].capped
    BY DEF KeepsCap, c
  <2>1. workers[c] = None
    BY DEF Base, Pointers, c
  <2>2. row'[c] = row[c]
    BY <1>5, <1>6, <2>1
  <2> QED
    BY <1>0, <2>2 DEF StopInv, KeepsCap, c
<1>11. Silenced(u)'
  <2>1. Processed(u)' = Processed(u) /\ Processed(u) \subseteq Targets(u)
    BY DEF Processed, Targets
  <2> QED
    BY <1>0, <1>1, <2>1, MapProtected DEF StopInv, Silenced
<1> QED
  BY <1>7, <1>8, <1>9, <1>10, <1>11 DEF StopInv

\* The targets that count as done grow by the one that was just stopped.
LEMMA AdvanceProcesses ==
  ASSUME Base, NEW u \in Threads, th[u].pc \in {"read", "stopRead", "stopRow"},
         th[u].op \in {"delete", "deleteSessions"}, NEW r, Advances(u, "flush", r)
  PROVE  /\ th'[u].pc \in {"read", "flush"}
         /\ \A s \in Processed(u)' : s \in Sessions /\ (s \in Processed(u) \/ s = th[u].cur)
<1>0. /\ th[u].cur \in Nat /\ Later(u) \in SUBSET Nat /\ th[u].want \in SUBSET Nat /\ th[u].want \in SUBSET Sessions
      /\ Later(u) # {} => Min(Later(u)) \in Nat /\ \A y \in Later(u) : Min(Later(u)) <= y
  BY TargetTyped, SessionsNat DEF Base
<1>1. Targets(u) = th[u].want
  BY BatchTargets
<1>2. th'[u].want = th[u].want /\ th'[u].op = th[u].op
  BY DEF Advances, Becomes
<1>3. Processed(u) = {s \in th[u].want : s < th[u].cur}
  BY <1>1 DEF Processed
<1>4. CASE th[u].op = "deleteSessions" /\ Later(u) # {}
  <2>1. th'[u].pc = "read" /\ th'[u].cur = Min(Later(u))
    BY <1>4 DEF Advances, Becomes
  <2>2. Targets(u)' = th[u].want
    BY <1>2, <1>4 DEF Targets
  <2>3. Processed(u)' = {s \in th[u].want : s < Min(Later(u))}
    BY <2>1, <2>2 DEF Processed
  <2>4. ASSUME NEW s \in th[u].want, s < Min(Later(u)) PROVE s < th[u].cur \/ s = th[u].cur
    <3>1. s \in Nat /\ s \notin Later(u)
      BY <1>0, <1>4, <2>4
    <3>2. ~(s > th[u].cur)
      BY <3>1 DEF Later
    <3> QED
      BY <1>0, <3>1, <3>2
  <2> QED
    BY <1>0, <1>3, <2>1, <2>3, <2>4
<1>5. CASE ~(th[u].op = "deleteSessions" /\ Later(u) # {})
  <2>1. th'[u].pc = "flush" /\ th'[u].cur = Min(th[u].want)
    BY <1>5 DEF Advances, Becomes
  <2>2. Processed(u)' = Targets(u)'
    BY <2>1 DEF Processed
  <2>3. CASE th[u].op = "deleteSessions"
    <3>1. Processed(u)' = th[u].want
      BY <1>2, <2>2, <2>3 DEF Targets
    <3>2. ASSUME NEW s \in th[u].want PROVE s < th[u].cur \/ s = th[u].cur
      <4>1. s \in Nat /\ ~(s > th[u].cur)
        BY <1>0, <1>5, <2>3 DEF Later
      <4> QED
        BY <1>0, <4>1
    <3> QED
      BY <1>0, <1>3, <2>1, <3>1, <3>2
  <2>4. CASE th[u].op = "delete"
    <3>1. th[u].want = {th[u].cur}
      BY <2>4, InsidePcs DEF Base, Placed, Single
    <3>2. Min(th[u].want) \in th[u].want
      BY TargetTyped DEF Base
    <3>3. Processed(u)' = {th[u].cur}
      BY <1>2, <2>1, <2>2, <2>4, <3>1, <3>2 DEF Targets
    <3>4. th[u].cur \in Sessions
      BY CurIsSession
    <3> QED
      BY <2>1, <3>3, <3>4
  <2> QED
    BY <2>3, <2>4
<1> QED
  BY <1>4, <1>5

LEMMA StopInvAdvances ==
  ASSUME Base, Data, NEW u \in Threads, th[u].pc \in {"read", "stopRead", "stopRow"},
         th[u].op \in {"delete", "deleteSessions"}, NEW r, Advances(u, "flush", r), UNCHANGED wk, Silent(th[u].cur)
  PROVE  StopInv(u)'
<1>1. th'[u].pc \in {"read", "flush"}
  BY AdvanceProcesses
<1>2. \A s \in Sessions : Silent(s) => Silent(s)'
  BY DEF Silent
<1>3. Silenced(u)'
  BY <1>2, AdvanceProcesses DEF Data, StopInv, Silenced
<1> QED
  BY <1>1, <1>3 DEF StopInv, PublishClean, StopsUnstopped, RemembersCap, KeepsCap

LEMMA StopInvDone ==
  ASSUME Base, Data, NEW u \in Threads, th[u].pc \in {"stopRead", "stopRow"}, NEW r \in Results, AfterStop(u, r),
         UNCHANGED wk, Silent(th[u].cur)
  PROVE  StopInv(u)'
<1>1. StopDone(u, r)
  BY AfterStopDone DEF Base
<1>2. th[u].op \in {"stop", "delete", "deleteSessions"}
  BY DEF Base, Placed, Fits
<1>3. CASE th[u].op = "stop"
  <2>1. th'[u].pc = "release"
    BY <1>1, <1>3 DEF StopDone, Ends, Becomes
  <2> QED
    BY <2>1, StopInvUnknowing DEF Unknowing
<1>4. CASE th[u].op # "stop"
  <2>1. Advances(u, "flush", th[u].res)
    BY <1>1, <1>4 DEF StopDone
  <2> QED
    BY <1>2, <1>4, <2>1, StopInvAdvances
<1> QED
  BY <1>3, <1>4

\* The body starts at the first target.
LEMMA AcquireFirst ==
  ASSUME Base, NEW u \in Threads, Acquire(u), th'[u].pc # "lock"
  PROVE  th'[u].pc \in {"start", "stop", "read"} /\ (th'[u].pc # "start" => \A s \in Targets(u)' : ~(s < th'[u].cur))
<1>0. /\ th[u].pc = "lock" /\ th[u].cur \in Nat /\ th[u].want \in SUBSET Nat
      /\ Min(th[u].want) \in Nat /\ \A y \in th[u].want : Min(th[u].want) <= y
  BY TargetTyped, SessionsNat DEF Base, Acquire
<1>1. th'[u].pc = Body(u) /\ th'[u].op = th[u].op /\ th'[u].want = th[u].want
  BY AcquireEffect DEF Becomes
<1>2. Body(u) \in {"start", "stop", "read"}
  BY <1>0, BodyFits
<1>3. CASE th[u].op = "deleteSessions"
  <2>1. {s \in th[u].want : s > th[u].cur /\ th[u].op = "deleteSessions"} = {}
    <3>1. Later(u) = {}
      BY <1>0, <1>3, AcquireEffect DEF Becomes
    <3> QED
      BY <3>1 DEF Later
  <2>2. th' = [th EXCEPT ![u].pc = Body(u), ![u].cur = Min(th[u].want)]
    BY <1>3, <2>1 DEF Acquire
  <2>3. th'[u].cur = Min(th[u].want)
    BY <2>2, ThreadTypes DEF Base, ThreadType
  <2>4. ASSUME NEW s \in th[u].want PROVE ~(s < Min(th[u].want))
    BY <1>0
  <2> QED
    BY <1>1, <1>2, <1>3, <2>3, <2>4 DEF Targets
<1>4. CASE th[u].op # "deleteSessions"
  <2>1. Targets(u)' = {th'[u].cur} /\ Targets(u) = {th[u].cur}
    BY <1>1, <1>4 DEF Targets
  <2>2. th'[u].cur \in Targets(u)
    BY <1>0, <1>1, <1>4, AcquireEffect DEF Becomes
  <2>3. th'[u].cur = th[u].cur
    BY <2>1, <2>2
  <2> QED
    BY <1>0, <1>1, <1>2, <2>1, <2>3
<1> QED
  BY <1>3, <1>4

LEMMA StopInvEdge ==
  ASSUME Base, Safe, NEW u \in Threads, EdgeStep(u)
  PROVE  StopInv(u)'
<1>1. CASE Acquire(u)
  <2>1. CASE th'[u].pc = "lock"
    BY <2>1, StopInvUnknowing DEF Unknowing
  <2>2. CASE th'[u].pc = "start"
    BY <2>2, StopInvUnknowing DEF Unknowing
  <2>3. CASE th'[u].pc \notin {"lock", "start"}
    <3>1. th'[u].pc \in {"stop", "read"} /\ \A s \in Targets(u)' : ~(s < th'[u].cur)
      BY <1>1, <2>3, AcquireFirst
    <3>2. Processed(u)' = {}
      BY <3>1 DEF Processed
    <3> QED
      BY <3>1, <3>2 DEF StopInv, PublishClean, StopsUnstopped, RemembersCap, KeepsCap, Silenced
  <2> QED
    BY <2>1, <2>2, <2>3
<1>2. CASE GiveUpLock(u)
  BY <1>2, GiveUpEffect, StopInvUnknowing DEF Ends, Becomes, Unknowing
<1>3. CASE Release(u)
  <2>1. CASE UNCHANGED th
    BY <1>3, <2>1, StopInvUnknowing DEF Release, Unknowing
  <2>2. CASE th' = [th EXCEPT ![u] = AfterOperation(u)]
    <3>1. th'[u].pc \in {"cleanup", "lock", "failed", "idle"}
      BY <1>3, <2>2, AfterOperationEffect, IdleFits DEF Release, Moves, Becomes, NextResumed, Forgets
    <3> QED
      BY <3>1, StopInvUnknowing DEF Unknowing
  <2> QED
    BY <1>3, <2>1, <2>2, ReleaseEffect
<1>4. CASE CleanupStop(u) \/ CleanupDelete(u)
  BY <1>4, NoCleanup DEF Safe
<1>5. CASE Schedule(u)
  <2>1. th'[u].pc = "release"
    BY <1>5, ScheduleEffect DEF Schedules, Ends, Becomes
  <2> QED
    BY <2>1, StopInvUnknowing DEF Unknowing
<1>6. CASE RecoverWait(u)
  <2>1. th'[u].pc \in {"lock", "idle"}
    BY <1>6, RecoverWaitEffect, IdleFits DEF Moves, Becomes, Forgets
  <2> QED
    BY <2>1, StopInvUnknowing DEF Unknowing
<1> QED
  BY <1>1, <1>2, <1>3, <1>4, <1>5, <1>6 DEF EdgeStep

\* What a deletion knows of its done targets, where the step does not add one.
LEMMA SilencedKept ==
  ASSUME Base, Data, NEW u \in Threads, Shrinks, Processed(u)' \subseteq Processed(u)
  PROVE  Silenced(u)'
<1>1. \A s \in Sessions : Silent(s) => Silent(s)'
  BY DEF Shrinks, Silent
<1>2. Processed(u) \subseteq Sessions
  <2>1. th[u].pc # "idle" => Targets(u) \subseteq Sessions
    BY TargetTyped DEF Base, Targets
  <2> QED
    BY <2>1 DEF Processed
<1> QED
  BY <1>1, <1>2 DEF Data, StopInv, Silenced

\* The operation stays with its target.
LEMMA SameProcessed ==
  ASSUME NEW u \in Threads, NEW p, NEW x, NEW k, NEW r, Works(u, p, th[u].cur, x, k, r),
         \/ th[u].pc \in {"read", "stop", "stopWait", "stopRead", "stopRow"} /\ p \notin {"flush", "flushWait", "chDelete", "pgDelete"}
         \/ th[u].pc \in {"flush", "flushWait", "chDelete", "pgDelete"} /\ p \in {"flush", "flushWait", "chDelete", "pgDelete"}
  PROVE  Processed(u)' \subseteq Processed(u) /\ Targets(u)' = Targets(u)
<1>1. th'[u].pc = p /\ th'[u].cur = th[u].cur /\ th'[u].op = th[u].op /\ th'[u].want = th[u].want
  BY DEF Works, Becomes
<1>2. Targets(u)' = Targets(u)
  BY <1>1 DEF Targets
<1> QED
  BY <1>1, <1>2 DEF Processed

LEMMA StopInvStop ==
  ASSUME Base, Data, Safe, NEW u \in Threads, StopLook(u) \/ StopWait(u) \/ StopRead(u) \/ StopRow(u)
  PROVE  StopInv(u)'
<1>0. StopInv(u) /\ th[u].pc \in Inside /\ th[u].cur \in Sessions
  BY WorkTarget DEF Data, StopLook, StopWait, StopRead, StopRow, Inside
<1>1. CASE StopLook(u)
  <2>0. th[u].pc = "stop" /\ UNCHANGED <<row, workers>> /\ Shrinks
    BY <1>1, StopLookShrinks DEF StopLook, storeVars
  <2>1. CASE Works(u, "stopRead", th[u].cur, th[u].ptr, th[u].capped, th[u].res)
    <3>1. Silenced(u)'
      BY <2>0, <2>1, SameProcessed, SilencedKept
    <3>2. th'[u].pc = "stopRead"
      BY <2>1 DEF Works, Becomes
    <3> QED
      BY <3>1, <3>2 DEF StopInv, PublishClean, StopsUnstopped, RemembersCap, KeepsCap
  <2>2. CASE /\ workers[th[u].cur] \in Workers
             /\ Works(u, "stopWait", th[u].cur, workers[th[u].cur], th[u].capped, th[u].res)
    <3>1. Silenced(u)'
      BY <2>0, <2>2, SameProcessed, SilencedKept
    <3>2. th'[u].pc = "stopWait" /\ th'[u].cur = th[u].cur /\ th'[u].ptr = workers[th[u].cur]
      BY <2>2 DEF Works, Becomes
    <3>3. row[th[u].cur] # "stopped"
      BY <1>0, <2>2, RolesDisjoint DEF Data, RowInv
    <3>4. wk'[workers[th[u].cur]].pc # "gone"
      BY <1>0, <2>0, <2>2, RolesDisjoint DEF Shrinks, MapInv, Live
    <3> QED
      BY <2>0, <3>1, <3>2, <3>3, <3>4 DEF StopInv, PublishClean, StopsUnstopped, RemembersCap, KeepsCap
  <2> QED
    BY <1>1, <2>1, <2>2, StopLookWorks
<1>2. CASE StopWait(u)
  <2>0. th[u].pc = "stopWait" /\ UNCHANGED <<row, workers>> /\ Shrinks
    BY <1>2, StopWaitShrinks DEF StopWait, storeVars
  <2>1. CASE ~Live(th[u].ptr) /\ Works(u, "stopRow", th[u].cur, th[u].ptr, wk[th[u].ptr].capped, th[u].res)
    <3>1. Silenced(u)'
      BY <2>0, <2>1, SameProcessed, SilencedKept
    <3>2. th'[u].pc = "stopRow" /\ th'[u].cur = th[u].cur /\ th'[u].capped = wk[th[u].ptr].capped
      BY <2>1 DEF Works, Becomes
    <3> QED
      BY <1>0, <2>0, <2>1, <3>1, <3>2 DEF Live, StopInv, PublishClean, StopsUnstopped, RemembersCap, KeepsCap
  <2>2. CASE Works(u, "schedule", th[u].cur, th[u].ptr, th[u].capped, th[u].res)
    <3>1. Silenced(u)'
      BY <2>0, <2>2, SameProcessed, SilencedKept
    <3>2. th'[u].pc = "schedule" /\ th'[u].cur = th[u].cur
      BY <2>2 DEF Works, Becomes
    <3> QED
      BY <1>0, <2>0, <3>1, <3>2 DEF StopInv, PublishClean, StopsUnstopped, RemembersCap, KeepsCap
  <2> QED
    BY <1>2, <2>1, <2>2, StopWaitWorks
<1>3. CASE StopRead(u)
  <2>0. th[u].pc = "stopRead" /\ UNCHANGED <<row, workers, wk>> /\ Shrinks /\ workers[th[u].cur] = None
    BY <1>3, UnchangedShrinks DEF StopRead, storeVars, Base, Pointers
  <2>1. CASE row[th[u].cur] = "running" /\ Goto(u, "stopRow")
    <3>1. Moves(u, "stopRow")
      BY <2>1, GotoMoves DEF Base, ThreadPc
    <3>2. th'[u].pc = "stopRow" /\ th'[u].cur = th[u].cur /\ th'[u].op = th[u].op /\ th'[u].want = th[u].want
      BY <3>1 DEF Moves, Becomes
    <3>3. Processed(u)' \subseteq Processed(u)
      BY <2>0, <3>2 DEF Processed, Targets
    <3>4. Silenced(u)'
      BY <2>0, <3>3, SilencedKept
    <3> QED
      BY <1>0, <2>0, <2>1, <3>2, <3>4 DEF StopInv, PublishClean, StopsUnstopped, RemembersCap, KeepsCap
  <2>2. CASE AfterStop(u, "notRunning")
    BY <2>0, <2>2, NoWorkerSilent, <1>0, StopInvDone DEF Results
  <2>3. CASE Finish(u, "err") \/ Goto(u, "start")
    <3>1. th'[u].pc \in {"release", "start"}
      BY <2>3, FinishEnds, GotoMoves DEF Base, ThreadPc, Ends, Moves, Becomes
    <3> QED
      BY <3>1, StopInvUnknowing DEF Unknowing
  <2> QED
    BY <1>3, <2>1, <2>2, <2>3 DEF StopRead
<1>4. CASE StopRow(u)
  <2>0. th[u].pc = "stopRow" /\ UNCHANGED <<workers, wk>> /\ Shrinks /\ workers[th[u].cur] = None
    BY <1>4, UnchangedShrinks DEF StopRow, Base, Pointers
  <2>1. CASE \E r \in {"ok", "notRunning"} : AfterStop(u, r)
    BY <2>0, <2>1, NoWorkerSilent, <1>0, StopInvDone DEF Results
  <2>2. CASE UNCHANGED row /\ Goto(u, Restore(u))
    <3>1. Works(u, Restore(u), th[u].cur, th[u].ptr, th[u].capped, th[u].res)
      BY <2>0, <2>2, RestoreWorks
    <3>2. th'[u].pc \in {"start", "restore"} /\ th'[u].cur = th[u].cur /\ th'[u].capped = th[u].capped
      BY <3>1 DEF Works, Becomes, Restore
    <3>3. Processed(u)' = {}
      BY <3>2 DEF Processed
    <3> QED
      BY <1>0, <2>0, <2>2, <3>2, <3>3 DEF StopInv, PublishClean, StopsUnstopped, RemembersCap, KeepsCap, Silenced
  <2> QED
    BY <1>4, <2>1, <2>2 DEF StopRow, Safe
<1> QED
  BY <1>1, <1>2, <1>3, <1>4

LEMMA StopInvDelete ==
  ASSUME Base, Data, NEW u \in Threads, DeleteRead(u) \/ Flush(u) \/ FlushFails(u) \/ DeleteSamples(u) \/ DeleteRow(u)
  PROVE  StopInv(u)'
<1>0. StopInv(u) /\ th[u].pc \in Inside /\ th[u].cur \in Sessions /\ Shrinks /\ UNCHANGED wk
  BY WorkTarget, UnchangedShrinks DEF Data, DeleteRead, Flush, FlushFails, DeleteSamples, DeleteRow, Inside
<1>1. CASE DeleteRead(u)
  <2>0. th[u].pc = "read" /\ UNCHANGED row /\ th[u].op \in {"delete", "deleteSessions"}
    BY <1>1 DEF DeleteRead, storeVars, Base, Placed, Fits
  <2>1. CASE Goto(u, "stop")
    <3>1. Moves(u, "stop")
      BY <2>1, GotoMoves DEF Base, ThreadPc
    <3>2. th'[u].pc = "stop" /\ th'[u].cur = th[u].cur /\ th'[u].op = th[u].op /\ th'[u].want = th[u].want
      BY <3>1 DEF Moves, Becomes
    <3>3. Processed(u)' \subseteq Processed(u)
      BY <2>0, <3>2 DEF Processed, Targets
    <3>4. Silenced(u)'
      BY <1>0, <3>3, SilencedKept
    <3> QED
      BY <3>2, <3>4 DEF StopInv, PublishClean, StopsUnstopped, RemembersCap, KeepsCap
  <2>2. CASE row[th[u].cur] # "running" /\ th' = [th EXCEPT ![u] = NextTarget(u, "flush")]
    <3>1. Advances(u, "flush", th[u].res)
      BY <2>0, <2>2, NextTargetAdvances DEF Base, ThreadPc
    <3>2. Silent(th[u].cur)
      BY <1>0, <2>2 DEF Data, RowInv
    <3> QED
      BY <1>0, <2>0, <3>1, <3>2, StopInvAdvances
  <2>3. CASE Finish(u, "err")
    <3>1. th'[u].pc = "release"
      BY <2>3, FinishEnds DEF Base, Ends, Becomes
    <3> QED
      BY <3>1, StopInvUnknowing DEF Unknowing
  <2> QED
    BY <1>1, <2>1, <2>2, <2>3 DEF DeleteRead
<1>2. ASSUME NEW p \in {"flushWait", "chDelete", "pgDelete"}, Goto(u, p),
             th[u].pc \in {"flush", "flushWait", "chDelete", "pgDelete"}
      PROVE  StopInv(u)'
  <2>1. Works(u, p, th[u].cur, th[u].ptr, th[u].capped, th[u].res)
    BY <1>2, DeletionMoves
  <2>2. Silenced(u)'
    BY <1>0, <1>2, <2>1, SameProcessed, SilencedKept
  <2>3. th'[u].pc \in {"flushWait", "chDelete", "pgDelete"}
    BY <2>1 DEF Works, Becomes
  <2> QED
    BY <2>2, <2>3 DEF StopInv, PublishClean, StopsUnstopped, RemembersCap, KeepsCap
<1>3. CASE Finish(u, "err")
  <2>1. th'[u].pc = "release"
    BY <1>3, FinishEnds DEF Base, Ends, Becomes
  <2> QED
    BY <2>1, StopInvUnknowing DEF Unknowing
<1>4. CASE Flush(u) \/ FlushFails(u) \/ DeleteSamples(u)
  BY <1>2, <1>3, <1>4 DEF Flush, FlushFails, DeleteSamples
<1>5. CASE DeleteRow(u)
  <2>1. th'[u].pc \in {"pgDelete", "release"} /\ (th'[u].pc = "pgDelete" => Targets(u)' = Targets(u))
    <3>1. th'[u].want = th[u].want /\ th'[u].op = th[u].op
      BY <1>5, DeleteRowWorks, WorkFrame
    <3>2. th'[u].pc = "release" \/ (th'[u].pc = "pgDelete" /\ th[u].op = "deleteSessions")
      BY <1>5, DeleteRowWorks
    <3> QED
      BY <3>1, <3>2 DEF Targets
  <2>2. CASE th'[u].pc = "release"
    BY <2>2, StopInvUnknowing DEF Unknowing
  <2>3. CASE th'[u].pc = "pgDelete"
    <3>1. Processed(u)' = Targets(u) /\ Processed(u) = Targets(u)
      BY <1>5, <2>1, <2>3 DEF Processed, DeleteRow
    <3>2. Silenced(u)'
      BY <1>0, <3>1, SilencedKept
    <3> QED
      BY <2>3, <3>2 DEF StopInv, PublishClean, StopsUnstopped, RemembersCap, KeepsCap
  <2> QED
    BY <2>1, <2>2, <2>3
<1> QED
  BY <1>1, <1>4, <1>5

LEMMA StopInvStart ==
  ASSUME Base, NEW u \in Threads, StartCurrent(u) \/ Publishing(u)
  PROVE  StopInv(u)'
<1>1. CASE StartCurrent(u)
  <2>0. UNCHANGED <<row, workers>>
    BY <1>1 DEF StartCurrent, storeVars
  <2>1. CASE workers[th[u].cur] = None /\ row[th[u].cur] = "running" /\ Goto(u, "publish")
    <3>1. Moves(u, "publish")
      BY <2>1, GotoMoves DEF Base, ThreadPc
    <3>2. th'[u].pc = "publish" /\ th'[u].cur = th[u].cur
      BY <3>1 DEF Moves, Becomes
    <3>3. Processed(u)' = {}
      BY <3>2 DEF Processed
    <3> QED
      BY <2>0, <2>1, <3>2, <3>3 DEF StopInv, PublishClean, StopsUnstopped, RemembersCap, KeepsCap, Silenced
  <2>2. CASE \E r \in Results : FinishStart(u, r)
    <3>1. th'[u].pc = "release"
      BY <2>2, FinishStartEnds DEF Base, Ends, Becomes
    <3> QED
      BY <3>1, StopInvUnknowing DEF Unknowing
  <2> QED
    BY <1>1, <2>1, <2>2 DEF StartCurrent, Results
<1>2. CASE Publishing(u)
  BY <1>2, PublishWorks, RestorePreparedWorks, StopInvUnknowing DEF Publishing, Unknowing
<1> QED
  BY <1>1, <1>2

LEMMA StopInvActs ==
  ASSUME Base, Data, Safe, NEW u \in Threads, ThreadStep(u) \/ FlushFails(u)
  PROVE  StopInv(u)'
<1>1. CASE EdgeStep(u)
  BY <1>1, StopInvEdge
<1>2. CASE StopLook(u) \/ StopWait(u) \/ StopRead(u) \/ StopRow(u)
  BY <1>2, StopInvStop
<1>3. CASE DeleteRead(u) \/ Flush(u) \/ FlushFails(u) \/ DeleteSamples(u) \/ DeleteRow(u)
  BY <1>3, StopInvDelete
<1>4. CASE StartCurrent(u) \/ Publish(u) \/ RestorePrepared(u)
  BY <1>4, StopInvStart DEF Publishing
<1> QED
  BY <1>1, <1>2, <1>3, <1>4 DEF ThreadStep, EdgeStep

\* The flush that the sink answers.
LEMMA StopInvSink ==
  ASSUME Base, Data, NEW u \in Threads, SinkStep, th'[u] # th[u]
  PROVE  StopInv(u)'
<1>1. PICK x \in Threads : x = Head(queue) /\ (Goto(x, "chDelete") \/ Finish(x, "err")) /\ th[x].pc = "flushWait"
  BY SinkHead DEF SinkStep
<1>2. Works(x, "chDelete", th[x].cur, th[x].ptr, th[x].capped, th[x].res) \/ Works(x, "release", th[x].cur, th[x].ptr, th[x].capped, "err")
  BY <1>1, DeletionMoves
<1>3. x = u
  BY <1>2 DEF Works, Becomes
<1>4. CASE Works(u, "chDelete", th[u].cur, th[u].ptr, th[u].capped, th[u].res)
  <2>1. Shrinks
    BY UnchangedShrinks DEF SinkStep
  <2>2. Silenced(u)'
    BY <1>1, <1>3, <1>4, <2>1, SameProcessed, SilencedKept
  <2>3. th'[u].pc = "chDelete"
    BY <1>4 DEF Works, Becomes
  <2> QED
    BY <2>2, <2>3 DEF StopInv, PublishClean, StopsUnstopped, RemembersCap, KeepsCap
<1>5. CASE Works(u, "release", th[u].cur, th[u].ptr, th[u].capped, "err")
  <2>1. th'[u].pc = "release"
    BY <1>5 DEF Works, Becomes
  <2> QED
    BY <2>1, StopInvUnknowing DEF Unknowing
<1> QED
  BY <1>2, <1>3, <1>4, <1>5

\* Who moves a thread.
LEMMA WhoMoves ==
  ASSUME Base, Next, NEW u \in Threads, th'[u] # th[u]
  PROVE  ThreadStep(u) \/ FlushFails(u) \/ SinkStep \/ Restart
         \/ (th[u].pc = "idle" /\ th'[u].pc \in {"lock", "recoverWait"})
<1>1. ASSUME NEW t \in Threads, ThreadStep(t) \/ FlushFails(t), t # u PROVE th[u].pc = "idle" /\ th'[u].pc = "recoverWait"
  <2>1. CASE WorkStep(t)
    BY <1>1, <2>1, WorkFrame DEF WorkStep
  <2>2. CASE EdgeStep(t)
    BY <1>1, <2>2, EdgeFrame, ScheduleEffect DEF Schedules, Ends, Becomes
  <2> QED
    BY <1>1, <2>1, <2>2, ThreadKinds DEF QuietStep
<1>2. ASSUME NEW t \in Callers,
             \/ \E s \in Sessions : Create(t, s) \/ Reenable(t, s) \/ Stop(t, s) \/ Delete(t, s)
             \/ \E S \in (SUBSET Sessions) \ {{}} : DeleteSessions(t, S)
      PROVE  th[u].pc = "idle" /\ th'[u].pc = "lock"
  <2>1. t \in Threads
    BY DEF Threads
  <2>2. ASSUME NEW o, NEW S, BeginStep(t, o, S) PROVE th[u].pc = "idle" /\ th'[u].pc = "lock"
    BY <2>1, <2>2 DEF BeginStep, Begins
  <2> QED
    BY <1>2, <2>2, RequestKinds DEF QuietStep
<1>3. CASE Resume
  <2>1. th' = th \/ (th[Main].pc = "idle" /\ Begin(Main, "resume", RunningSessions))
    BY <1>3 DEF Resume
  <2>2. Main \in Threads
    BY DEF Threads
  <2> QED
    BY <2>1, <2>2, ThreadTypes DEF Begin, Base, IdleThread, ThreadType
<1>4. ASSUME NEW w \in Workers, WorkerStep(w) PROVE UNCHANGED th
  BY <1>4 DEF WorkerStep, WorkerTick, WorkerEnqueue, WorkerCap, WorkerFinish, WorkerExit
<1>5. CASE CancelWorkers \/ Wait \/ WaitReturns
  BY <1>5 DEF CancelWorkers, Wait, WaitReturns
<1> QED
  BY <1>1, <1>2, <1>3, <1>4, <1>5 DEF Next

LEMMA StopInvStep ==
  ASSUME Base, Data, Safe, Next, NEW u \in Threads
  PROVE  StopInv(u)'
<1>1. CASE Restart
  <2>1. th'[u].pc = "idle"
    BY <1>1, IdleFits DEF Restart
  <2> QED
    BY <2>1, StopInvUnknowing DEF Unknowing
<1>2. CASE ~Restart /\ th'[u] = th[u]
  <2>1. th[u].pc \in Inside \/ th[u].pc \in Unknowing
    BY ThreadTypes DEF Base, ThreadType, ThreadPc, Inside, Unknowing
  <2> QED
    BY <1>2, <2>1, StopInvSame, StopInvUnknowing
<1>3. CASE ~Restart /\ th'[u] # th[u]
  BY <1>3, WhoMoves, StopInvActs, StopInvSink, StopInvUnknowing DEF Unknowing
<1> QED
  BY <1>1, <1>2, <1>3

-----------------------------------------------------------------------------
(* The sink and ClickHouse.                                                *)

\* A sample is queued only by its worker.
LEMMA QueueGains ==
  ASSUME Base, Next, NEW i \in DOMAIN queue'
  PROVE  \/ \E j \in DOMAIN queue : queue'[i] = queue[j]
         \/ queue'[i] \notin Sessions
         \/ \E w \in Workers : WorkerEnqueue(w) /\ queue'[i] = wk[w].id
<1>0. DOMAIN queue = 1 .. Len(queue)
  BY QueueFacts
<1>1. ASSUME NEW t \in Threads, Flush(t)
      PROVE  queue'[i] \notin Sessions \/ \E j \in DOMAIN queue : queue'[i] = queue[j]
  <2>1. t \in Items /\ t \notin Sessions
    BY SessionsNat DEF Items
  <2> QED
    BY <1>0, <1>1, <2>1, AppendFacts DEF Flush
<1>2. ASSUME NEW t \in Threads, FlushFails(t)
      PROVE  queue'[i] \notin Sessions \/ \E j \in DOMAIN queue : queue'[i] = queue[j]
  BY <1>2, DropFacts, SessionsNat DEF FlushFails
<1>3. ASSUME NEW w \in Workers, WorkerEnqueue(w)
      PROVE  queue'[i] = wk[w].id \/ \E j \in DOMAIN queue : queue'[i] = queue[j]
  <2>1. Live(w)
    BY <1>3 DEF WorkerEnqueue, Live
  <2>2. wk[w].id \in Items
    BY <2>1 DEF Base, MapInv, Items
  <2>3. CASE Len(queue) < SinkCapacity
    BY <1>0, <1>3, <2>2, <2>3, AppendFacts DEF WorkerEnqueue
  <2> QED
    BY <1>3, <2>3 DEF WorkerEnqueue
<1>4. CASE SinkStep
  BY <1>4, TailFacts DEF SinkStep
<1>5. CASE Restart
  BY <1>5 DEF Restart
<1> QED
  BY <1>1, <1>2, <1>3, <1>4, <1>5, NextQueue DEF QueueKinds

\* ClickHouse gains only what was queued.
LEMMA ClickHouseGains ==
  ASSUME Base, Next, NEW s \in chRows'
  PROVE  s \in chRows \/ \E j \in DOMAIN queue : queue[j] = s
<1>1. ASSUME NEW t \in Callers,
             \/ \E x \in Sessions : Create(t, x) \/ Reenable(t, x) \/ Stop(t, x) \/ Delete(t, x)
             \/ \E S \in (SUBSET Sessions) \ {{}} : DeleteSessions(t, S)
      PROVE  UNCHANGED chRows
  BY <1>1 DEF Create, Reenable, Stop, Delete, DeleteSessions, storeVars
<1>2. ASSUME NEW t \in Threads, ThreadStep(t) \/ FlushFails(t), ~DeleteSamples(t) PROVE UNCHANGED chRows
  BY <1>2 DEF ThreadStep, Acquire, GiveUpLock, Release, StartCurrent, Publish, CleanupStop, CleanupDelete, StopLook,
       StopWait, StopRead, StopRow, RestorePrepared, Schedule, RecoverWait, DeleteRead, Flush, FlushFails, DeleteRow,
       storeVars
<1>3. ASSUME NEW t \in Threads, DeleteSamples(t) PROVE s \in chRows
  BY <1>3 DEF DeleteSamples
<1>4. ASSUME NEW w \in Workers, WorkerStep(w) PROVE UNCHANGED chRows
  BY <1>4 DEF WorkerStep, WorkerTick, WorkerEnqueue, WorkerCap, WorkerFinish, WorkerExit, storeVars
<1>5. CASE SinkStep
  <2>1. 1 \in DOMAIN queue /\ Head(queue) = queue[1]
    BY <1>5, SinkHead DEF SinkStep
  <2> QED
    BY <1>5, <2>1 DEF SinkStep
<1>6. CASE Resume \/ CancelWorkers \/ Wait \/ WaitReturns \/ Restart
  BY <1>6 DEF Resume, CancelWorkers, Wait, WaitReturns, Restart, storeVars
<1> QED
  BY <1>1, <1>2, <1>3, <1>4, <1>5, <1>6 DEF Next

\* No sample of a silent session is about to be queued.
LEMMA SilentEnqueues ==
  ASSUME Base, CapInv, NEW w \in Workers, WorkerEnqueue(w), Silent(wk[w].id)
  PROVE  FALSE
BY DEF CapInv, WorkerEnqueue, Silent

Deleting == {"flushWait", "chDelete", "pgDelete"}

\* A deletion past its flush knows that its targets are silent.
LEMMA DeletingSilent ==
  ASSUME Base, Data, NEW u \in Threads, th[u].pc \in Deleting, NEW s \in Targets(u)
  PROVE  Silent(s) /\ s \in Sessions /\ s \notin Threads /\ s # None
<1>1. Processed(u) = Targets(u)
  BY DEF Processed, Deleting
<1>2. s \in Sessions
  BY TargetTyped DEF Base, Targets, Deleting
<1> QED
  BY <1>1, <1>2, SessionsNat DEF Data, StopInv, Silenced

\* Once drained the queue stays so.
LEMMA DrainedKept ==
  ASSUME Base, Data, Next, NEW u \in Threads, th[u].pc \in {"chDelete", "pgDelete"}, NEW i \in DOMAIN queue'
  PROVE  queue'[i] \notin Targets(u)
<1>1. \A j \in DOMAIN queue : queue[j] \notin Targets(u)
  BY DEF Data, SinkInv, Drained
<1>2. ASSUME NEW w \in Workers, WorkerEnqueue(w) PROVE wk[w].id \notin Targets(u)
  BY <1>2, DeletingSilent, SilentEnqueues DEF Data, Deleting
<1>3. \A s \in Targets(u) : s \in Sessions
  BY DeletingSilent DEF Deleting
<1> QED
  BY <1>1, <1>2, <1>3, QueueGains

\* Nothing is queued behind a barrier that its deletion would miss.
LEMMA AheadKept ==
  ASSUME Base, Data, Next, NEW u \in Threads, th[u].pc = "flushWait", th'[u] = th[u]
  PROVE  Ahead(u)'
<1>0. Ahead(u) /\ Targets(u)' = Targets(u) /\ DOMAIN queue = 1 .. Len(queue) /\ Len(queue) \in Nat
  BY QueueFacts DEF Data, SinkInv, Targets
<1> SUFFICES ASSUME NEW i \in DOMAIN queue', NEW j \in DOMAIN queue', queue'[i] = u, queue'[j] \in Targets(u)
             PROVE  j < i
  BY <1>0 DEF Ahead
<1>1. u \notin Sessions /\ queue'[j] \in Sessions /\ queue'[j] \notin Threads /\ u # None /\ queue'[j] # None
  BY DeletingSilent, SessionsNat, RolesDisjoint DEF Deleting
<1>2. ASSUME i \in DOMAIN queue, j \in DOMAIN queue, queue[i] = u, queue[j] \in Targets(u) PROVE j < i
  BY <1>0, <1>2 DEF Ahead
<1>3. CASE UNCHANGED queue
  BY <1>2, <1>3
<1>4. ASSUME NEW t \in Threads, Flush(t) PROVE j < i
  <2>1. t # u /\ t \in Items
    BY <1>4 DEF Flush, Items
  <2>2. i \in DOMAIN queue /\ queue[i] = u
    BY <1>0, <1>4, <2>1, AppendFacts DEF Flush
  <2>3. j \in DOMAIN queue /\ queue[j] = queue'[j]
    BY <1>0, <1>1, <1>4, <2>1, AppendFacts DEF Flush
  <2> QED
    BY <1>2, <2>2, <2>3
<1>5. ASSUME NEW t \in Threads, FlushFails(t) PROVE j < i
  <2>1. i \in DOMAIN queue /\ j \in DOMAIN queue /\ queue[i] = u /\ queue[j] = queue'[j]
    BY <1>1, <1>5, DropFacts DEF FlushFails
  <2> QED
    BY <1>2, <2>1
<1>6. ASSUME NEW w \in Workers, WorkerEnqueue(w), Len(queue) < SinkCapacity PROVE j < i
  <2>1. wk[w].id \notin Targets(u)
    BY <1>6, DeletingSilent, SilentEnqueues DEF Data, Deleting
  <2>2. wk[w].id \in Sessions
    BY <1>6 DEF WorkerEnqueue, Base, MapInv, Live
  <2>3. queue' = Append(queue, wk[w].id) /\ wk[w].id \in Items /\ wk[w].id # u
    BY <1>1, <1>6, <2>2 DEF WorkerEnqueue, Items
  <2>4. i \in DOMAIN queue /\ j \in DOMAIN queue /\ queue[i] = u /\ queue[j] = queue'[j]
    BY <1>0, <1>6, <2>1, <2>3, AppendFacts
  <2> QED
    BY <1>2, <2>4
<1>7. CASE SinkStep
  <2>1. /\ i + 1 \in DOMAIN queue /\ j + 1 \in DOMAIN queue /\ queue[i + 1] = u /\ queue[j + 1] \in Targets(u)
        /\ i \in Nat /\ j \in Nat
    BY <1>7, TailFacts DEF SinkStep
  <2>2. j + 1 < i + 1
    BY <1>0, <2>1 DEF Ahead
  <2> QED
    BY <2>1, <2>2
<1>8. CASE Restart
  BY <1>8 DEF Restart
<1> QED
  BY <1>3, <1>4, <1>5, <1>6, <1>7, <1>8, NextQueue DEF QueueKinds, WorkerEnqueue

\* The steps that bring a deletion to its flush and beyond.
LEMMA WhoDeletes ==
  ASSUME Base, Next, NEW u \in Threads, th'[u] # th[u], th'[u].pc \in Deleting
  PROVE  /\ Flush(u) \/ SinkStep \/ DeleteSamples(u) \/ DeleteRow(u)
         /\ th[u].pc \in Inside
<1>1. th'[u].pc \in {"flushWait", "chDelete", "pgDelete"}
  BY DEF Deleting
<1>2. ~Restart
  BY <1>1, IdleFits DEF Restart
<1>3. ASSUME SinkStep PROVE th[u].pc \in Inside
  <2>1. PICK x \in Threads : (Goto(x, "chDelete") \/ Finish(x, "err")) /\ th[x].pc = "flushWait"
    BY <1>3, SinkHead DEF SinkStep
  <2>2. x = u
    BY <2>1, ThreadTypes DEF Goto, Finish, Base
  <2> QED
    BY <2>1, <2>2 DEF Inside
<1>4. ASSUME EdgeStep(u) PROVE FALSE
  <2>1. CASE Acquire(u)
    BY <1>1, <2>1, AcquireFirst
  <2>2. CASE GiveUpLock(u)
    BY <1>1, <2>2, GiveUpEffect DEF Ends, Becomes
  <2>3. CASE Release(u)
    <3>1. th' = [th EXCEPT ![u] = AfterOperation(u)]
      BY <2>3, ReleaseEffect
    <3>2. th'[u].pc \in {"cleanup", "lock", "failed", "idle"}
      BY <2>3, <3>1, AfterOperationEffect, IdleFits DEF Release, Moves, Becomes, NextResumed, Forgets
    <3> QED
      BY <1>1, <3>2
  <2>4. CASE CleanupStop(u) \/ CleanupDelete(u)
    <3>1. th'[u].pc \in {"cleanupDelete", "idle"}
      BY <2>4, CleanupEffect, IdleFits DEF Moves, Becomes, Forgets
    <3> QED
      BY <1>1, <3>1
  <2>5. CASE Schedule(u)
    <3>1. th'[u].pc = "release"
      BY <2>5, ScheduleEffect DEF Schedules, Ends, Becomes
    <3> QED
      BY <1>1, <3>1
  <2>6. CASE RecoverWait(u)
    <3>1. th'[u].pc \in {"lock", "idle"}
      BY <2>6, RecoverWaitEffect, IdleFits DEF Moves, Becomes, Forgets
    <3> QED
      BY <1>1, <3>1
  <2> QED
    BY <1>4, <2>1, <2>2, <2>3, <2>4, <2>5, <2>6 DEF EdgeStep
<1>5. ASSUME StartCurrent(u) \/ Publish(u) \/ RestorePrepared(u) PROVE FALSE
  <2>1. StartCurrent(u) => th'[u].pc \in {"publish", "release"}
    BY FinishStartEnds, GotoMoves DEF StartCurrent, Base, ThreadPc, Moves, Ends, Becomes, Results
  <2> QED
    BY <1>1, <1>5, <2>1, PublishWorks, RestorePreparedWorks
<1>6. ASSUME StopLook(u) \/ StopWait(u) PROVE FALSE
  BY <1>1, <1>6, StopLookWorks, StopWaitWorks DEF Works, Becomes
<1>7. ASSUME StopRead(u) \/ StopRow(u) PROVE FALSE
  <2>1. th[u].pc # "idle" /\ (th[u].pc = "stopRead" \/ th[u].pc = "stopRow")
    BY <1>7 DEF StopRead, StopRow
  <2>2. ASSUME NEW r \in Results, AfterStop(u, r) PROVE th'[u].pc \in {"release", "read", "flush"}
    BY <2>1, <2>2, AfterStopDone DEF Base, StopDone, Ends, Advances, Becomes
  <2>3. ASSUME NEW p \in {"stopRow", "start", "restore"}, Goto(u, p) PROVE th'[u].pc = p
    BY <2>3, GotoMoves DEF Base, ThreadPc, Moves, Becomes
  <2>4. ASSUME Finish(u, "err") PROVE th'[u].pc = "release"
    BY <2>4, FinishEnds DEF Base, Ends, Becomes
  <2>5. \/ \E r \in Results : AfterStop(u, r)
        \/ \E p \in {"stopRow", "start", "restore"} : Goto(u, p)
        \/ Finish(u, "err") \/ UNCHANGED th
    BY <1>7 DEF StopRead, StopRow, Results, Restore
  <2> QED
    BY <1>1, <2>2, <2>3, <2>4, <2>5
<1>8. ASSUME DeleteRead(u) PROVE FALSE
  <2>1. ASSUME th' = [th EXCEPT ![u] = NextTarget(u, "flush")] PROVE th'[u].pc \in {"read", "flush"}
    BY <1>8, <2>1, NextTargetAdvances DEF DeleteRead, Base, ThreadPc, Advances, Becomes
  <2>2. Goto(u, "stop") => th'[u].pc = "stop"
    BY GotoMoves DEF Base, ThreadPc, Moves, Becomes
  <2>3. Finish(u, "err") => th'[u].pc = "release"
    BY FinishEnds DEF Base, Ends, Becomes
  <2> QED
    BY <1>1, <1>8, <2>1, <2>2, <2>3 DEF DeleteRead
<1>9. ASSUME FlushFails(u) PROVE FALSE
  BY <1>1, <1>9, FinishEnds DEF FlushFails, Base, Ends, Becomes
<1>10. Flush(u) \/ SinkStep \/ DeleteSamples(u) \/ DeleteRow(u)
  BY <1>1, <1>2, <1>4, <1>5, <1>6, <1>7, <1>8, <1>9, WhoMoves DEF ThreadStep, EdgeStep
<1> QED
  BY <1>3, <1>10 DEF Flush, DeleteSamples, DeleteRow, Inside

LEMMA SinkInvStep ==
  ASSUME Base, Data, Next, NEW u \in Threads
  PROVE  SinkInv(u)'
<1>0. SinkInv(u)
  BY DEF Data
<1>1. CASE th'[u].pc \notin Deleting
  BY <1>1 DEF SinkInv, Ahead, Drained, Erased, Deleting
<1>2. CASE th'[u] = th[u] /\ th'[u].pc \in Deleting
  <2>1. Targets(u)' = Targets(u)
    BY <1>2 DEF Targets
  <2>2. Ahead(u)'
    BY <1>2, AheadKept DEF Ahead
  <2>3. Drained(u)'
    BY <1>2, <2>1, DrainedKept DEF Drained
  <2>4. Erased(u)'
    BY <1>0, <1>2, <2>1, ClickHouseGains DEF SinkInv, Drained, Erased
  <2> QED
    BY <2>2, <2>3, <2>4 DEF SinkInv
<1>3. CASE Flush(u)
  <2>1. th[u].pc = "flush" /\ queue' = Append(queue, u) /\ Len(queue) < SinkCapacity /\ u \in Items
    BY <1>3 DEF Flush, Items
  <2>2. \A i \in DOMAIN queue : queue[i] # u
    BY <2>1 DEF Base, Barriers
  <2>3. th'[u].pc = "flushWait" /\ Targets(u)' = Targets(u)
    BY <1>3, <2>1, DeletionMoves DEF Flush, Works, Becomes, Targets
  <2>4. Targets(u)' \subseteq Sessions
    BY <2>1, <2>3, TargetTyped DEF Base, Targets
  <2>5. Ahead(u)'
    <3> SUFFICES ASSUME NEW i \in DOMAIN queue', NEW j \in DOMAIN queue', queue'[i] = u, queue'[j] \in Targets(u)'
                 PROVE  j < i
      BY DEF Ahead
    <3>1. queue'[j] # u
      BY <2>4, SessionsNat
    <3>2. /\ DOMAIN queue = 1 .. Len(queue) /\ Len(queue) \in Nat /\ DOMAIN queue' = 1 .. Len(queue) + 1
          /\ queue'[Len(queue) + 1] = u /\ \A k \in 1 .. Len(queue) : queue'[k] = queue[k]
      BY <2>1, AppendFacts, QueueFacts
    <3>3. i = Len(queue) + 1 /\ j # Len(queue) + 1
      BY <2>2, <3>1, <3>2
    <3> QED
      BY <3>2, <3>3
  <2> QED
    BY <2>3, <2>5 DEF SinkInv, Drained, Erased
<1>4. CASE SinkStep /\ th'[u] # th[u] /\ th'[u].pc \in Deleting
  <2>1. PICK x \in Threads : x = Head(queue) /\ (Goto(x, "chDelete") \/ Finish(x, "err")) /\ th[x].pc = "flushWait"
    BY <1>4, SinkHead DEF SinkStep
  <2>2. x = u
    BY <1>4, <2>1, ThreadTypes DEF Goto, Finish, Base
  <2>3. \/ Works(u, "chDelete", th[u].cur, th[u].ptr, th[u].capped, th[u].res)
        \/ Works(u, "release", th[u].cur, th[u].ptr, th[u].capped, "err")
    BY <2>1, <2>2, DeletionMoves
  <2>4. th'[u].pc = "chDelete" /\ Targets(u)' = Targets(u)
    BY <1>4, <2>3 DEF Works, Becomes, Deleting, Targets
  <2>5. ASSUME NEW i \in DOMAIN queue' PROVE queue'[i] \notin Targets(u)
    <3>1. i + 1 \in DOMAIN queue /\ queue'[i] = queue[i + 1] /\ i \in Nat /\ 1 \in DOMAIN queue /\ queue[1] = u
      BY <1>4, <2>1, <2>2, <2>5, TailFacts DEF SinkStep
    <3>2. queue[i + 1] \in Targets(u) => i + 1 < 1
      BY <1>0, <2>1, <2>2, <3>1 DEF SinkInv, Ahead
    <3>3. ~(i + 1 < 1)
      BY <3>1
    <3> QED
      BY <3>1, <3>2, <3>3
  <2> QED
    BY <2>4, <2>5 DEF SinkInv, Ahead, Drained, Erased
<1>5. CASE DeleteSamples(u) /\ th'[u].pc \in Deleting
  <2>1. th[u].pc = "chDelete" /\ UNCHANGED queue
    BY <1>5 DEF DeleteSamples
  <2>2. ~Finish(u, "err")
    BY <1>5, FinishEnds DEF Base, Ends, Becomes, Deleting
  <2>3. chRows' = chRows \ th[u].want /\ Goto(u, "pgDelete")
    BY <1>5, <2>2 DEF DeleteSamples
  <2>4. Works(u, "pgDelete", th[u].cur, th[u].ptr, th[u].capped, th[u].res)
    BY <2>1, <2>3, DeletionMoves
  <2>5. th'[u].pc = "pgDelete" /\ Targets(u)' = Targets(u)
    BY <2>4 DEF Works, Becomes, Targets
  <2>6. Targets(u) = th[u].want
    BY <2>1, BatchTargets DEF Base, Placed, Fits
  <2> QED
    BY <1>0, <2>1, <2>3, <2>5, <2>6 DEF SinkInv, Ahead, Drained, Erased
<1>6. CASE DeleteRow(u) /\ th'[u].pc \in Deleting
  <2>1. th[u].pc = "pgDelete" /\ UNCHANGED <<queue, chRows>>
    BY <1>6 DEF DeleteRow
  <2>2. th'[u].pc = "pgDelete" /\ th[u].op = "deleteSessions"
    BY <1>6, DeleteRowWorks DEF Deleting
  <2>3. Targets(u)' = Targets(u)
    BY <1>6, <2>2, DeleteRowWorks, WorkFrame DEF Targets
  <2> QED
    BY <1>0, <2>1, <2>2, <2>3 DEF SinkInv, Ahead, Drained, Erased
<1> QED
  BY <1>1, <1>2, <1>3, <1>4, <1>5, <1>6, WhoDeletes

\* The row of a session goes last, and nothing of it comes back.
LEMMA DeletedStep ==
  ASSUME Base, Data, Safe, Next
  PROVE  DeletedLeavesNothing'
<1> SUFFICES ASSUME NEW s \in Sessions, row'[s] = "deleted"
             PROVE  /\ s \notin chRows'
                    /\ \A i \in DOMAIN queue' : queue'[i] # s
                    /\ \A w \in Workers : wk'[w].id = s => wk'[w].pc # "enqueue"
  BY DEF DeletedLeavesNothing
<1>1. \A w \in Workers : wk'[w].id = s => wk'[w].pc # "enqueue"
  <2>1. RowInv' /\ CapInv'
    BY RowInvStep, CapInvStep
  <2> QED
    BY <2>1 DEF RowInv, CapInv, Silent
<1>2. CASE row[s] = "deleted"
  <2>1. s \notin chRows /\ (\A i \in DOMAIN queue : queue[i] # s) /\ \A w \in Workers : wk[w].id = s => wk[w].pc # "enqueue"
    BY <1>2 DEF Data, DeletedLeavesNothing
  <2>2. s \notin chRows'
    BY <2>1, ClickHouseGains
  <2>3. \A i \in DOMAIN queue' : queue'[i] # s
    BY <2>1, QueueGains DEF WorkerEnqueue
  <2> QED
    BY <1>1, <2>2, <2>3
<1>3. CASE row[s] # "deleted"
  <2>0. row \in [Sessions -> Statuses]
    BY DEF Base, TypeOK, Statuses
  <2>1. PICK t \in Threads : DeleteRow(t) /\ row' = [row EXCEPT ![th[t].cur] = "deleted"]
    BY <1>3, <2>0, NextRowChange DEF RowChange
  <2>2. s = th[t].cur /\ th[t].pc = "pgDelete" /\ UNCHANGED <<queue, chRows>>
    BY <1>3, <2>0, <2>1 DEF DeleteRow
  <2>3. s \in Targets(t)
    BY <2>2, WorkTarget DEF Inside
  <2>4. Drained(t) /\ Erased(t)
    BY DEF Data, SinkInv
  <2> QED
    BY <1>1, <2>2, <2>3, <2>4 DEF Drained, Erased
<1> QED
  BY <1>2, <1>3

-----------------------------------------------------------------------------
(* The theorems.                                                           *)

LEMMA InitData == Init => Data
<1> SUFFICES ASSUME Init PROVE Data
  OBVIOUS
<1>1. /\ \A t \in Threads : th[t].pc = "idle"
      /\ \A w \in Workers : wk[w] = NoWorker
      /\ \A s \in Sessions : workers[s] = None /\ row[s] # "deleted"
  BY SupervisorAssumption, IdleFits DEF Init
<1>2. RowInv /\ CapInv /\ DeletedLeavesNothing
  BY <1>1, NoWorkerTyped DEF RowInv, CapInv, Silent, DeletedLeavesNothing
<1>3. ASSUME NEW t \in Threads PROVE StopInv(t) /\ SinkInv(t)
  BY <1>1 DEF StopInv, PublishClean, StopsUnstopped, RemembersCap, KeepsCap, Silenced, Processed,
       SinkInv, Ahead, Drained, Erased
<1> QED
  BY <1>2, <1>3 DEF Data

LEMMA NextData == Base /\ Data /\ Safe /\ Next => Data'
BY RowInvStep, CapInvStep, DeletedStep, StopInvStep, SinkInvStep DEF Data

LEMMA StutterData == Data /\ UNCHANGED vars => Data'
<1> SUFFICES ASSUME Data, UNCHANGED vars PROVE Data'
  OBVIOUS
<1>1. UNCHANGED <<row, workers, th, wk, queue, chRows>>
  BY DEF vars
<1>2. (RowInv /\ CapInv /\ DeletedLeavesNothing)'
  BY <1>1 DEF Data, RowInv, CapInv, DeletedLeavesNothing, Silent
<1>3. ASSUME NEW t \in Threads PROVE (StopInv(t) /\ SinkInv(t))'
  <2>1. StopInv(t) /\ SinkInv(t) /\ Targets(t)' = Targets(t) /\ Processed(t)' = Processed(t)
    BY <1>1 DEF Data, Targets, Processed
  <2>2. StopInv(t)'
    BY <1>1, <2>1 DEF StopInv, PublishClean, StopsUnstopped, RemembersCap, KeepsCap, Silenced, Silent
  <2>3. SinkInv(t)'
    BY <1>1, <2>1 DEF SinkInv, Ahead, Drained, Erased
  <2> QED
    BY <2>2, <2>3
<1> QED
  BY <1>2, <1>3 DEF Data

LEMMA DataHolds == ASSUME Safe PROVE Spec => []Data
<1>1. Base /\ Data /\ [Next]_vars => Data'
  BY NextData, StutterData
<1> QED
  BY InitData, <1>1, BaseHolds, PTL DEF Spec

\* Stop waits for the goroutine before it marks the row, and what it restores
\* after a failed update it restores under the lock of the session: a stopped
\* row never has a worker, if no update is committed and reported as failed.
THEOREM StoppedHasNoWorkerHolds ==
  ASSUME "lost" \notin Faults, "create" \notin Ops
  PROVE  Spec => []StoppedHasNoWorker
<1>1. Safe
  BY DEF Safe
<1>2. Data => StoppedHasNoWorker
  BY DEF Data, RowInv, StoppedHasNoWorker
<1> QED
  BY <1>1, <1>2, DataHolds, PTL

\* Delete and DeleteSessions stop the worker, cross the queue with a barrier,
\* delete the samples and only then the row: a deleted session has no sample
\* stored, queued or about to be queued, under the same conditions.
THEOREM DeletedLeavesNothingHolds ==
  ASSUME "lost" \notin Faults, "create" \notin Ops
  PROVE  Spec => []DeletedLeavesNothing
<1>1. Safe
  BY DEF Safe
<1>2. Data => DeletedLeavesNothing
  BY DEF Data
<1> QED
  BY <1>1, <1>2, DataHolds, PTL

-----------------------------------------------------------------------------
(* No running session is forgotten.                                        *)

\* Rows that run are not made by a request under way.
Steady == "create" \notin Ops /\ "reenable" \notin Ops

\* Thread t will start the session again, or find that it need not.
Duty(t, s) ==
  /\ th[t].cur = s
  /\ \/ th[t].ptr # None /\ th[t].pc \in {"stopWait", "stopRow", "restore", "schedule"}
     \/ th[t].op = "recover" /\ ~(th[t].pc = "release" /\ th[t].res # "err")

\* A worker leaves by itself only when its row is finished.
Exited     == \A w \in Workers : wk[w].pc = "exit" => row[wk[w].id] # "running"
\* A recovery that succeeded still has its lock.
EndsLocked == \A w \in Workers : th[w].pc = "release" /\ th[w].res # "err" => operations[th[w].cur] = w
Guarded    == \A s \in Sessions : row[s] = "running" /\ workers[s] = None => \E t \in Threads : Duty(t, s)
\* A cancelled worker is waited for, or has its recovery scheduled.
Followed   == \A w \in Workers : Live(w) /\ wk[w].cancelled =>
                \/ \E t \in Threads : th[t].ptr = w /\ th[t].pc \in {"stopWait", "schedule"}
                \/ th[w].pc # "idle"
\* Resume has not passed over a session.
Covers     == \A s \in Sessions : row[s] = "running" /\ workers[s] = None =>
                s \in th[Main].want /\ ~(th[Main].pc = "release" /\ th[Main].res # "err" /\ th[Main].cur = s)

Watch == /\ Exited /\ EndsLocked
         /\ phase = "serving" => Guarded /\ Followed
         /\ phase = "boot" /\ th[Main].pc # "idle" => Covers

\* Which steps a thread can take from where it stands.
LEMMA AtPlace ==
  ASSUME NEW t \in Threads, ThreadStep(t)
  PROVE  \/ th[t].pc = "lock" /\ (Acquire(t) \/ GiveUpLock(t))
         \/ th[t].pc = "release" /\ Release(t)
         \/ th[t].pc = "start" /\ StartCurrent(t)
         \/ th[t].pc = "publish" /\ Publish(t)
         \/ th[t].pc = "stopWait" /\ StopWait(t)
         \/ th[t].pc = "stopRow" /\ StopRow(t)
         \/ th[t].pc = "restore" /\ RestorePrepared(t)
         \/ th[t].pc = "schedule" /\ Schedule(t)
         \/ th[t].pc = "recoverWait" /\ RecoverWait(t)
         \/ th[t].pc \in {"cleanup", "cleanupDelete", "stop", "stopRead", "read", "flush", "chDelete", "pgDelete"}
<1>1. CleanupStop(t) \/ CleanupDelete(t) \/ StopLook(t) \/ StopRead(t) \/ DeleteRead(t) \/ Flush(t) \/ DeleteSamples(t) \/ DeleteRow(t) =>
        th[t].pc \in {"cleanup", "cleanupDelete", "stop", "stopRead", "read", "flush", "chDelete", "pgDelete"}
  BY DEF CleanupStop, CleanupDelete, StopLook, StopRead, DeleteRead, Flush, DeleteSamples, DeleteRow
<1>2. /\ Acquire(t) \/ GiveUpLock(t) => th[t].pc = "lock"
      /\ Release(t) => th[t].pc = "release"
      /\ StartCurrent(t) => th[t].pc = "start"
      /\ Publish(t) => th[t].pc = "publish"
  BY DEF Acquire, GiveUpLock, Release, StartCurrent, Publish
<1>3. /\ StopWait(t) => th[t].pc = "stopWait"
      /\ StopRow(t) => th[t].pc = "stopRow"
      /\ RestorePrepared(t) => th[t].pc = "restore"
      /\ Schedule(t) => th[t].pc = "schedule"
      /\ RecoverWait(t) => th[t].pc = "recoverWait"
  BY DEF StopWait, StopRow, RestorePrepared, Schedule, RecoverWait
<1> QED
  BY <1>1, <1>2, <1>3 DEF ThreadStep

\* No row becomes running.
LEMMA RunningStays ==
  ASSUME Base, Steady, Next, NEW s \in Sessions, row'[s] = "running"
  PROVE  row[s] = "running"
<1>0. row \in [Sessions -> Statuses]
  BY DEF Base, TypeOK, Statuses
<1>1. ASSUME NEW x, row' = [row EXCEPT ![x] = "stopped"] \/ row' = [row EXCEPT ![x] = "deleted"] \/ row' = [row EXCEPT ![x] = "finished"]
      PROVE  row[s] = "running"
  BY <1>0, <1>1
<1>2. ASSUME NEW t \in Callers,
             \/ \E x \in Sessions : Create(t, x) \/ Reenable(t, x) \/ Stop(t, x) \/ Delete(t, x)
             \/ \E S \in (SUBSET Sessions) \ {{}} : DeleteSessions(t, S)
      PROVE  UNCHANGED row
  BY <1>2 DEF Steady, Serves, Create, Reenable, Stop, Delete, DeleteSessions, storeVars
<1>3. ASSUME NEW t \in Threads, StopRow(t) \/ DeleteRow(t) PROVE row[s] = "running"
  <2>1. row' = row \/ row' = [row EXCEPT ![th[t].cur] = "stopped"] \/ row' = [row EXCEPT ![th[t].cur] = "deleted"]
    BY <1>3 DEF StopRow, DeleteRow
  <2> QED
    BY <1>1, <2>1
<1>4. ASSUME NEW t \in Threads,
             \/ Acquire(t) \/ GiveUpLock(t) \/ Release(t)
             \/ StartCurrent(t) \/ Publish(t) \/ StopLook(t) \/ StopWait(t) \/ StopRead(t)
             \/ RestorePrepared(t) \/ Schedule(t) \/ RecoverWait(t)
             \/ DeleteRead(t) \/ Flush(t) \/ FlushFails(t) \/ DeleteSamples(t)
      PROVE  UNCHANGED row
  BY <1>4 DEF Acquire, GiveUpLock, Release, StartCurrent, Publish, StopLook, StopWait, StopRead,
       RestorePrepared, Schedule, RecoverWait, DeleteRead, Flush, FlushFails, DeleteSamples, storeVars
<1>5. ASSUME NEW w \in Workers, WorkerStep(w) PROVE row[s] = "running"
  <2>1. row' = row \/ row' = [row EXCEPT ![wk[w].id] = "finished"]
    BY <1>5 DEF WorkerStep, WorkerTick, WorkerEnqueue, WorkerCap, WorkerFinish, WorkerExit, storeVars
  <2> QED
    BY <1>1, <2>1
<1>6. CASE SinkStep \/ Resume \/ CancelWorkers \/ Wait \/ WaitReturns \/ Restart
  BY <1>6 DEF SinkStep, Resume, CancelWorkers, Wait, WaitReturns, Restart, storeVars
<1> QED
  BY <1>2, <1>3, <1>4, <1>5, <1>6, NoCleanup DEF Next, ThreadStep, Steady

\* Only its own exit takes a worker out of the map.
LEMMA WhoLeaves ==
  ASSUME Base, Next, ~Restart, NEW s \in Sessions, workers[s] # None, workers'[s] = None
  PROVE  workers[s] \in Workers /\ WorkerExit(workers[s])
<1>0. workers \in [Sessions -> Workers \cup {None}] /\ workers[s] \in Workers
  BY DEF Base, TypeOK
<1>1. ASSUME NEW t \in Callers,
             \/ \E x \in Sessions : Create(t, x) \/ Reenable(t, x) \/ Stop(t, x) \/ Delete(t, x)
             \/ \E S \in (SUBSET Sessions) \ {{}} : DeleteSessions(t, S)
      PROVE  UNCHANGED workers
  BY <1>1 DEF Create, Reenable, Stop, Delete, DeleteSessions
<1>2. ASSUME NEW t \in Threads, Publish(t) \/ RestorePrepared(t) PROVE FALSE
  <2>1. th[t].cur \in Sessions /\ th[t].capped \in BOOLEAN /\ FALSE \in BOOLEAN
    BY <1>2, CurIsSession, ThreadTypes DEF Publish, RestorePrepared, Base, ThreadType
  <2>2. UNCHANGED workers \/ \E w \in Workers, k \in BOOLEAN : Grows(th[t].cur, w, k)
    BY <1>2, <2>1, PublishGrows DEF Publish, RestorePrepared
  <2> QED
    BY <1>0, <2>1, <2>2 DEF Grows
<1>3. ASSUME NEW t \in Threads, EdgeStep(t) PROVE UNCHANGED workers
  BY <1>3, EdgeFrame
<1>4. ASSUME NEW t \in Threads,
             \/ StartCurrent(t) \/ StopLook(t) \/ StopWait(t) \/ StopRead(t) \/ StopRow(t) \/ DeleteRead(t) \/ Flush(t)
             \/ FlushFails(t) \/ DeleteSamples(t) \/ DeleteRow(t)
      PROVE  UNCHANGED workers
  BY <1>4 DEF StartCurrent, StopLook, StopWait, StopRead, StopRow, DeleteRead, Flush, FlushFails, DeleteSamples, DeleteRow
<1>5. ASSUME NEW w \in Workers, WorkerStep(w) PROVE WorkerExit(workers[s])
  <2>1. CASE WorkerExit(w)
    <3>1. wk[w].id \in Sessions /\ workers[wk[w].id] = w /\ workers' = [workers EXCEPT ![wk[w].id] = None]
      BY <2>1, WorkerExitShrinks
    <3> QED
      BY <1>0, <2>1, <3>1
  <2>2. CASE ~WorkerExit(w)
    BY <1>5, <2>2, WorkerGoesOn DEF WorkerStep
  <2> QED
    BY <2>1, <2>2
<1>6. CASE SinkStep \/ Resume \/ CancelWorkers \/ Wait \/ WaitReturns
  BY <1>6 DEF SinkStep, Resume, CancelWorkers, Wait, WaitReturns
<1> QED
  BY <1>0, <1>1, <1>2, <1>3, <1>4, <1>5, <1>6 DEF Next, ThreadStep, EdgeStep

\* Only a worker that marked its row finished turns to its exit.
LEMMA WhoExits ==
  ASSUME Base, Next, NEW w \in Workers, wk'[w].pc = "exit", wk[w].pc # "exit"
  PROVE  WorkerFinish(w)
<1>0. wk \in [Workers -> WorkerType]
  BY WorkerTyped DEF Base
<1>1. wk' # wk /\ wk'[w] # wk[w]
  OBVIOUS
<1>2. ASSUME NEW v \in Workers, WorkerStep(v) PROVE WorkerFinish(w)
  BY <1>1, <1>2, WorkerGoesOn, WorkerExitShrinks DEF WorkerStep
<1>3. ASSUME NEW t \in Threads, Publish(t) \/ RestorePrepared(t) PROVE FALSE
  <2>1. th[t].cur \in Sessions /\ th[t].capped \in BOOLEAN /\ FALSE \in BOOLEAN
    BY <1>3, CurIsSession, ThreadTypes DEF Publish, RestorePrepared, Base, ThreadType
  <2>2. UNCHANGED wk \/ \E v \in Workers, k \in BOOLEAN : Grows(th[t].cur, v, k)
    BY <1>3, <2>1, PublishGrows DEF Publish, RestorePrepared
  <2> QED
    BY <1>1, <2>2 DEF Grows
<1>4. ASSUME NEW t \in Threads, StopLook(t) PROVE FALSE
  <2>1. wk' = [wk EXCEPT ![workers[th[t].cur]].cancelled = TRUE]
    BY <1>1, <1>4 DEF StopLook
  <2> QED
    BY <1>0, <2>1 DEF WorkerType
<1>5. ASSUME NEW t \in Threads, StopWait(t) PROVE FALSE
  <2>1. wk' = [wk EXCEPT ![th[t].ptr] = NoWorker]
    BY <1>1, <1>5 DEF StopWait
  <2> QED
    BY <1>0, <2>1, NoWorkerTyped
<1>6. ASSUME NEW t \in Threads, EdgeStep(t) PROVE UNCHANGED wk
  BY <1>6, EdgeFrame
<1>7. ASSUME NEW t \in Threads,
             \/ StartCurrent(t) \/ StopRead(t) \/ StopRow(t) \/ DeleteRead(t) \/ Flush(t) \/ FlushFails(t)
             \/ DeleteSamples(t) \/ DeleteRow(t)
      PROVE  UNCHANGED wk
  BY <1>7 DEF StartCurrent, StopRead, StopRow, DeleteRead, Flush, FlushFails, DeleteSamples, DeleteRow
<1>8. ASSUME NEW t \in Callers,
             \/ \E s \in Sessions : Create(t, s) \/ Reenable(t, s) \/ Stop(t, s) \/ Delete(t, s)
             \/ \E S \in (SUBSET Sessions) \ {{}} : DeleteSessions(t, S)
      PROVE  UNCHANGED wk
  BY <1>8 DEF Create, Reenable, Stop, Delete, DeleteSessions
<1>9. CASE SinkStep \/ Resume \/ CancelWorkers \/ Wait \/ WaitReturns
  BY <1>1, <1>9 DEF SinkStep, Resume, CancelWorkers, Wait, WaitReturns
<1>10. CASE Restart
  BY <1>10, NoWorkerTyped DEF Restart
<1> QED
  BY <1>1, <1>2, <1>3, <1>4, <1>5, <1>6, <1>7, <1>8, <1>9, <1>10 DEF Next, ThreadStep, EdgeStep

LEMMA ExitedStep ==
  ASSUME Base, Watch, Steady, Next
  PROVE  Exited'
<1> SUFFICES ASSUME NEW w \in Workers, wk'[w].pc = "exit" PROVE row'[wk'[w].id] # "running"
  BY DEF Exited
<1>1. CASE wk[w].pc = "exit"
  <2>1. wk[w].id \in Sessions /\ row[wk[w].id] # "running"
    BY <1>1 DEF Base, MapInv, Live, Watch, Exited
  <2>2. wk'[w].id = wk[w].id
    <3>1. CASE Shrinks
      BY <3>1 DEF Shrinks
    <3>2. CASE Restart
      BY <3>2, NoWorkerTyped DEF Restart
    <3>3. ASSUME NEW t \in Threads, NEW v \in Workers, NEW k \in BOOLEAN, Publishes(t, v, k) PROVE wk'[w].id = wk[w].id
      BY <1>1, <3>3 DEF Publishes, Grows, FreeWorkers, Live
    <3> QED
      BY <3>1, <3>2, <3>3, NextPublishes
  <2> QED
    BY <2>1, <2>2, RunningStays
<1>2. CASE wk[w].pc # "exit"
  <2>1. WorkerFinish(w)
    BY <1>2, WhoExits
  <2>2. wk[w].id \in Sessions /\ row \in [Sessions -> Statuses]
    BY <2>1 DEF WorkerFinish, Base, MapInv, Live, TypeOK, Statuses
  <2>3. row'[wk[w].id] = "finished" /\ wk'[w].id = wk[w].id
    BY <2>1, <2>2, WorkerGoesOn DEF WorkerFinish
  <2> QED
    BY <2>3
<1> QED
  BY <1>1, <1>2

\* A lock is taken from nobody.
LEMMA LockKept ==
  ASSUME Base, Next, ~Restart, NEW u \in Threads, NEW s \in Sessions, operations[s] = u, ~Release(u)
  PROVE  operations'[s] = u
<1>0. operations \in [Sessions -> Threads \cup {None}] /\ u # None
  BY RolesDisjoint DEF Base, TypeOK
<1>1. ASSUME NEW t \in Threads, EdgeStep(t) PROVE operations'[s] = u
  <2>1. CASE Acquire(t)
    BY <1>0, <2>1, AcquireEffect
  <2>2. CASE Release(t)
    BY <2>2, ReleaseEffect
  <2>3. CASE GiveUpLock(t) \/ CleanupStop(t) \/ CleanupDelete(t) \/ Schedule(t) \/ RecoverWait(t)
    BY <2>3 DEF GiveUpLock, CleanupStop, CleanupDelete, Schedule, RecoverWait
  <2> QED
    BY <1>1, <2>1, <2>2, <2>3 DEF EdgeStep
<1>2. CASE LifeStep
  BY <1>2 DEF LifeStep, CancelWorkers, Wait, WaitReturns, Resume
<1> QED
  BY <1>1, <1>2, NextKinds DEF Kinds, WorkStep, BeginStep, QuietStep

LEMMA EndsLockedStep ==
  ASSUME Base, Watch, Next
  PROVE  EndsLocked'
<1> SUFFICES ASSUME NEW w \in Workers, th'[w].pc = "release", th'[w].res # "err" PROVE operations'[th'[w].cur] = w
  BY DEF EndsLocked
<1>0. w \in Threads /\ ~Restart
  BY IdleFits DEF Threads, Restart
<1>1. ASSUME EdgeStep(w) PROVE FALSE
  <2>1. CASE Acquire(w)
    BY <1>0, <2>1, AcquireFirst
  <2>2. CASE GiveUpLock(w)
    BY <1>0, <2>2, GiveUpEffect DEF Ends, Becomes
  <2>3. CASE Release(w)
    <3>1. th[w].pc = "release" /\ th[w].op # "deleteSessions"
      BY <1>0, <2>3 DEF Release, Base, Placed
    <3>2. th' = [th EXCEPT ![w] = AfterOperation(w)]
      BY <1>0, <2>3, <3>1, ReleaseEffect
    <3>3. th'[w].pc \in {"cleanup", "lock", "failed", "idle"}
      BY <1>0, <3>1, <3>2, AfterOperationEffect, IdleFits DEF Moves, Becomes, NextResumed, Forgets
    <3> QED
      BY <3>3
  <2>4. CASE CleanupStop(w) \/ CleanupDelete(w)
    <3>1. th[w].op = "create"
      BY <1>0, <2>4, CleanupEffect
    <3> QED
      BY <1>0, <3>1 DEF Base, Placed
  <2>5. CASE Schedule(w)
    BY <1>0, <2>5, ScheduleEffect, RolesDisjoint
  <2>6. CASE RecoverWait(w)
    <3>1. th'[w].pc \in {"lock", "idle"}
      BY <1>0, <2>6, RecoverWaitEffect, IdleFits DEF Moves, Becomes, Forgets
    <3> QED
      BY <3>1
  <2> QED
    BY <1>1, <2>1, <2>2, <2>3, <2>4, <2>5, <2>6 DEF EdgeStep
<1>2. CASE th'[w] = th[w]
  <2>1. operations[th[w].cur] = w /\ th[w].cur \in Sessions
    BY <1>0, <1>2, CurIsSession DEF Watch, EndsLocked
  <2>2. ~Release(w)
    BY <1>1 DEF EdgeStep
  <2> QED
    BY <1>0, <1>2, <2>1, <2>2, LockKept
<1>3. CASE WorkStep(w)
  <2>1. th[w].pc \in Inside /\ UNCHANGED operations
    BY <1>3 DEF WorkStep, Working, Works
  <2>2. th'[w].cur \in Targets(w)
    BY <1>3 DEF WorkStep, Working, Works, Keeps, Becomes
  <2>3. Held(w) = Targets(w)
    BY <1>0, <2>1 DEF Base, LockPlaces
  <2> QED
    BY <2>1, <2>2, <2>3 DEF Held
<1>4. CASE th'[w] # th[w]
  <2>1. ASSUME NEW t \in Threads, t # w, WorkStep(t) PROVE FALSE
    BY <1>0, <1>4, <2>1, WorkFrame DEF WorkStep
  <2>2. ASSUME NEW t \in Threads, t # w, EdgeStep(t) PROVE FALSE
    BY <1>0, <1>4, <2>2, EdgeFrame, ScheduleEffect DEF Schedules, Ends, Becomes
  <2>3. ASSUME NEW t \in Threads, NEW o, NEW S, BeginStep(t, o, S) PROVE FALSE
    BY <1>0, <1>4, <2>3 DEF BeginStep, Begins
  <2>4. ~QuietStep /\ ~LifeStep
    BY <1>0, <1>4 DEF QuietStep, LifeStep, CancelWorkers, Wait, WaitReturns
  <2> QED
    BY <1>1, <1>3, <2>1, <2>2, <2>3, <2>4, NextKinds DEF Kinds
<1> QED
  BY <1>2, <1>4

\* A thread with a duty keeps it, hands it on, or publishes the worker.
LEMMA DutyKept ==
  ASSUME Base, Watch, Steady, Next, ~Restart, phase = "serving", NEW t \in Threads, NEW s \in Sessions, Duty(t, s),
         row'[s] = "running", workers'[s] = None
  PROVE  \E u \in Threads : Duty(u, s)'
<1>0. ~closing /\ ~rootDone /\ row[s] = "running" /\ row \in [Sessions -> Statuses]
  BY RunningStays DEF Base, Life, TypeOK, Statuses
<1>1. th[t].cur = s /\ th[t].pc # "idle"
  BY IdleFits DEF Duty, Base, Placed
<1>2. CASE th'[t] = th[t]
  BY <1>2 DEF Duty
<1>3. ASSUME Publish(t) \/ RestorePrepared(t), PublishPrepared(s, FALSE) \/ PublishPrepared(s, th[t].capped) PROVE FALSE
  <2>1. th[t].capped \in BOOLEAN /\ FALSE \in BOOLEAN
    BY ThreadTypes DEF Base, ThreadType
  <2>2. (UNCHANGED workers /\ workers[s] # None) \/ \E w \in Workers, k \in BOOLEAN : Grows(s, w, k)
    BY <1>0, <1>3, <2>1, PublishGrows
  <2> QED
    BY <2>2, RolesDisjoint DEF Grows, Base, TypeOK
<1>4. CASE ThreadStep(t) /\ th[t].ptr # None /\ th[t].pc \in {"stopWait", "stopRow", "restore", "schedule"}
  <2>1. CASE StopWait(t)
    <3>1. th'[t].cur = s /\ th'[t].ptr = th[t].ptr /\ th'[t].pc \in {"stopRow", "schedule"}
      BY <1>1, <2>1, StopWaitWorks DEF Works, Becomes
    <3> QED
      BY <1>4, <3>1 DEF Duty
  <2>2. CASE StopRow(t)
    <3>1. row'[s] = row[s] /\ Goto(t, Restore(t))
      BY <1>0, <1>1, <1>2, <2>2 DEF StopRow
    <3>2. Restore(t) = "restore" /\ th[t].pc = "stopRow"
      BY <1>4, <2>2 DEF Restore, StopRow
    <3>3. th'[t].cur = s /\ th'[t].ptr = th[t].ptr /\ th'[t].pc = "restore"
      BY <1>1, <3>1, <3>2, RestoreWorks DEF Works, Becomes
    <3> QED
      BY <1>4, <3>3 DEF Duty
  <2>3. CASE RestorePrepared(t)
    BY <1>1, <1>3, <2>3 DEF RestorePrepared
  <2>4. CASE Schedule(t)
    <3> DEFINE w == th[t].ptr
    <3>1. w \in Workers /\ w \in Threads /\ th[t].pc = "schedule"
      BY <2>4, ScheduleEffect DEF Threads
    <3> HIDE DEF w
    <3>2. CASE th[w].pc = "idle"
      <4>1. th'[w].pc = "recoverWait" /\ th'[w].op = "recover" /\ th'[w].cur = s
        BY <1>0, <1>1, <2>4, <3>2, ScheduleEffect DEF Schedules, w
      <4> QED
        BY <3>1, <4>1 DEF Duty
    <3>3. CASE th[w].pc # "idle"
      <4>1. th[w].cur = s /\ th[w].op = "recover"
        <5>1. PointsAt(t, w)
          BY <3>1, PointerParts DEF Base
        <5> QED
          BY <1>1, <3>1, <3>3, <5>1 DEF PointsAt, Base, Placed, w
      <4>2. operations[s] = t
        <5>1. Held(t) = Targets(t) /\ th[t].cur \in Targets(t)
          BY <3>1, WorkTarget DEF Inside, Base, LockPlaces
        <5> QED
          BY <1>1, <5>1 DEF Held
      <4>3. t # w
        BY <2>4, <3>1, ScheduleEffect, RolesDisjoint
      <4>4. ~(th[w].pc = "release" /\ th[w].res # "err")
        BY <3>1, <4>1, <4>2, <4>3 DEF Watch, EndsLocked
      <4>5. th'[w] = th[w]
        BY <2>4, <3>1, <3>3, <4>3, ScheduleEffect DEF w, Ends, Becomes
      <4> QED
        BY <3>1, <4>1, <4>4, <4>5 DEF Duty
    <3> QED
      BY <3>2, <3>3
  <2> QED
    BY <1>4, <2>1, <2>2, <2>3, <2>4, AtPlace
<1>5. CASE ThreadStep(t) /\ th[t].op = "recover" /\ ~(th[t].pc = "release" /\ th[t].res # "err")
  <2>0. /\ th[t].pc \in {"recoverWait", "lock", "start", "publish", "release"}
        /\ Starting(t) /\ th[t].op # "deleteSessions" /\ th[t].want = {s}
    BY <1>1, <1>5 DEF Base, Placed, Fits, Starting, Single
  <2> SUFFICES th'[t].cur = s /\ th'[t].op = "recover" /\ ~(th'[t].pc = "release" /\ th'[t].res # "err")
    BY DEF Duty
  <2>1. CASE Acquire(t)
    <3>1. \E c \in Targets(t) : Becomes(t, Body(t), c, None, th[t].capped, th[t].res)
      BY <2>0, <2>1, AcquireEffect
    <3>2. Targets(t) = {s} /\ Body(t) # "release"
      BY <1>1, <2>0, <2>1, BodyFits DEF Targets, Acquire
    <3> QED
      BY <1>5, <3>1, <3>2 DEF Becomes
  <2>2. CASE GiveUpLock(t)
    BY <1>1, <1>5, <2>2, GiveUpEffect DEF Ends, Becomes
  <2>3. CASE Release(t)
    <3>1. th' = [th EXCEPT ![t] = AfterOperation(t)] /\ th[t].pc = "release"
      BY <2>0, <2>3, ReleaseEffect
    <3>2. th'[t].cur = s /\ th'[t].op = "recover" /\ th'[t].pc = "lock"
      BY <1>0, <1>1, <1>5, <3>1, AfterOperationEffect DEF Becomes
    <3> QED
      BY <3>2
  <2>4. CASE RecoverWait(t)
    <3>1. Moves(t, "lock")
      BY <1>0, <2>4, RecoverWaitEffect
    <3> QED
      BY <1>1, <1>5, <3>1 DEF Moves, Becomes
  <2>5. CASE StartCurrent(t)
    <3>1. UNCHANGED workers /\ workers[s] = None
      BY <2>5 DEF StartCurrent
    <3>2. Goto(t, "publish") \/ FinishStart(t, "err")
      BY <1>0, <1>1, <2>5, <3>1 DEF StartCurrent
    <3>3. Moves(t, "publish") \/ Ends(t, "err")
      BY <2>0, <3>2, GotoMoves, FinishStartEnds DEF Base, ThreadPc, Results
    <3> QED
      BY <1>1, <1>5, <3>3 DEF Moves, Ends, Becomes
  <2>6. CASE Publish(t)
    <3>1. FinishStart(t, "err")
      BY <1>1, <1>3, <2>6 DEF Publish
    <3>2. Ends(t, "err")
      BY <2>0, <3>1, FinishStartEnds DEF Base, Results
    <3> QED
      BY <1>1, <1>5, <3>2 DEF Ends, Becomes
  <2> QED
    BY <1>5, <2>0, <2>1, <2>2, <2>3, <2>4, <2>5, <2>6, AtPlace
<1>6. ~FlushFails(t)
  BY DEF FlushFails, Duty, Base, Placed, Fits
<1>7. CASE SinkStep
  <2>1. th[t].pc # "flushWait"
    BY DEF Duty, Base, Placed, Fits
  <2>2. UNCHANGED th \/ \E x \in Threads : (Goto(x, "chDelete") \/ Finish(x, "err")) /\ th[x].pc = "flushWait"
    BY <1>7, SinkHead DEF SinkStep
  <2>3. th'[t] = th[t]
    BY <2>1, <2>2, ThreadTypes DEF Goto, Finish, Base
  <2> QED
    BY <1>2, <2>3
<1>8. CASE ThreadStep(t)
  BY <1>4, <1>5, <1>8 DEF Duty
<1> QED
  BY <1>1, <1>2, <1>6, <1>7, <1>8, WhoMoves

\* Serving begins when Resume is done, and ends with the shutdown.
LEMMA ToServing ==
  ASSUME Base, Next, phase' = "serving"
  PROVE  \/ phase = "serving"
         \/ /\ phase = "boot" /\ UNCHANGED <<row, workers, wk>>
            /\ \/ RunningSessions = {}
               \/ /\ th[Main].pc = "release" /\ th[Main].op = "resume" /\ th[Main].res # "err"
                  /\ th[Main].want = {th[Main].cur}
<1>1. ASSUME NEW t \in Threads, EdgeStep(t), phase # "serving"
      PROVE  /\ phase = "boot" /\ UNCHANGED <<row, workers, wk>>
             /\ th[Main].pc = "release" /\ th[Main].op = "resume" /\ th[Main].res # "err"
             /\ th[Main].want = {th[Main].cur}
  <2>1. CASE Release(t)
    <3>1. t = Main /\ AfterOperation(t) = IdleThread /\ th' = [th EXCEPT ![t] = AfterOperation(t)]
      BY <1>1, <2>1, ReleaseEffect
    <3>2. th[t].pc = "release" /\ UNCHANGED <<row, workers, wk>>
      BY <2>1 DEF Release, storeVars
    <3>3. th[t].op = "resume"
      BY <3>1, <3>2 DEF Base, Placed
    <3>4. th[t].res # "err" /\ th[t].want = {th[t].cur}
      BY <3>1, <3>2, <3>3, AfterOperationEffect
    <3>5. phase = "boot"
      BY <3>1, <3>2 DEF Base, Life, TypeOK
    <3> QED
      BY <3>1, <3>2, <3>3, <3>4, <3>5
  <2>2. CASE Acquire(t) \/ GiveUpLock(t) \/ CleanupStop(t) \/ CleanupDelete(t) \/ Schedule(t) \/ RecoverWait(t)
    BY <1>1, <2>2 DEF Acquire, GiveUpLock, CleanupStop, CleanupDelete, Schedule, RecoverWait, lifeVars
  <2> QED
    BY <1>1, <2>1, <2>2 DEF EdgeStep
<1>2. CASE LifeStep
  BY <1>2 DEF LifeStep, CancelWorkers, Wait, WaitReturns, Restart, Resume, storeVars
<1> QED
  BY <1>1, <1>2, NextKinds DEF Kinds, WorkStep, BeginStep, QuietStep, lifeVars

LEMMA GuardedStep ==
  ASSUME Base, Watch, Steady, Next, phase' = "serving"
  PROVE  Guarded'
<1> SUFFICES ASSUME NEW s \in Sessions, row'[s] = "running", workers'[s] = None
             PROVE  \E t \in Threads : Duty(t, s)'
  BY DEF Guarded
<1>0. row[s] = "running" /\ ~Restart
  BY RunningStays DEF Restart
<1>1. CASE phase = "serving" /\ workers[s] = None
  <2>1. PICK t \in Threads : Duty(t, s)
    BY <1>0, <1>1 DEF Watch, Guarded
  <2> QED
    BY <1>0, <1>1, <2>1, DutyKept
<1>2. CASE phase = "serving" /\ workers[s] # None
  <2> DEFINE w == workers[s]
  <2>1. w \in Workers /\ WorkerExit(w)
    BY <1>0, <1>2, WhoLeaves
  <2>2. Live(w) /\ wk[w].id = s
    BY <1>2 DEF Base, MapInv
  <2> HIDE DEF w
  <2>3. wk[w].pc # "exit"
    BY <1>0, <2>1, <2>2 DEF Watch, Exited
  <2>4. wk[w].cancelled /\ UNCHANGED th
    BY <1>2, <2>1, <2>3 DEF WorkerExit, Cancelled, Base, Life
  <2>5. CASE \E t \in Threads : th[t].ptr = w /\ th[t].pc \in {"stopWait", "schedule"}
    <3>1. PICK t \in Threads : th[t].ptr = w /\ th[t].pc \in {"stopWait", "schedule"}
      BY <2>5
    <3>2. PointsAt(t, w)
      BY <2>1, PointerParts DEF Base
    <3>3. th[t].cur = s /\ th[t].ptr # None
      BY <2>1, <2>2, <3>1, <3>2, RolesDisjoint DEF PointsAt
    <3> QED
      BY <2>4, <3>1, <3>3 DEF Duty
  <2>6. CASE th[w].pc # "idle"
    <3>1. RecoversLater(w) /\ w \in Threads
      BY <2>1, PointerParts DEF Base, Threads
    <3>2. th[w].pc = "recoverWait" /\ th[w].cur = s
      BY <2>2, <2>6, <3>1 DEF RecoversLater
    <3>3. th[w].op = "recover"
      BY <3>1, <3>2 DEF Base, Placed, Fits
    <3> QED
      BY <2>4, <3>1, <3>2, <3>3 DEF Duty
  <2> QED
    BY <1>2, <2>1, <2>2, <2>4, <2>5, <2>6 DEF Watch, Followed
<1>3. CASE phase # "serving"
  <2>1. phase = "boot" /\ workers[s] = None /\ s \in RunningSessions
    BY <1>0, <1>3, ToServing DEF RunningSessions
  <2>2. th[Main].pc = "release" /\ th[Main].res # "err" /\ th[Main].want = {th[Main].cur}
    BY <1>3, <2>1, ToServing
  <2> QED
    BY <1>0, <2>1, <2>2 DEF Watch, Covers
<1> QED
  BY <1>1, <1>2, <1>3

\* Who cancels a worker while the service is up.
LEMMA WhoCancels ==
  ASSUME Base, Next, NEW w \in Workers, Live(w)', wk'[w].cancelled
  PROVE  \/ Live(w) /\ wk[w].cancelled
         \/ \E t \in Threads : StopLook(t) /\ workers[th[t].cur] = w
<1>0. wk \in [Workers -> WorkerType] /\ wk'[w].pc # "gone"
  BY WorkerTyped DEF Base, Live
<1>1. ASSUME NEW v \in Workers, WorkerStep(v) PROVE Live(w) /\ wk[w].cancelled
  BY <1>0, <1>1, WorkerGoesOn, WorkerExitShrinks DEF WorkerStep, Live
<1>2. ASSUME NEW t \in Threads, Publish(t) \/ RestorePrepared(t) PROVE Live(w) /\ wk[w].cancelled
  <2>1. th[t].cur \in Sessions /\ th[t].capped \in BOOLEAN /\ FALSE \in BOOLEAN
    BY <1>2, CurIsSession, ThreadTypes DEF Publish, RestorePrepared, Base, ThreadType
  <2>2. UNCHANGED wk \/ \E v \in Workers, k \in BOOLEAN : Grows(th[t].cur, v, k)
    BY <1>2, <2>1, PublishGrows DEF Publish, RestorePrepared
  <2> QED
    BY <1>0, <2>2 DEF Grows, Live
<1>3. ASSUME NEW t \in Threads, StopLook(t), workers[th[t].cur] # w PROVE Live(w) /\ wk[w].cancelled
  <2>1. UNCHANGED wk \/ wk' = [wk EXCEPT ![workers[th[t].cur]].cancelled = TRUE]
    BY <1>3 DEF StopLook
  <2>2. wk'[w] = wk[w]
    BY <1>0, <1>3, <2>1
  <2> QED
    BY <1>0, <2>2 DEF Live
<1>4. ASSUME NEW t \in Threads, StopWait(t) PROVE Live(w) /\ wk[w].cancelled
  <2>1. UNCHANGED wk \/ wk' = [wk EXCEPT ![th[t].ptr] = NoWorker]
    BY <1>4 DEF StopWait
  <2>2. wk'[w] = wk[w]
    BY <1>0, <2>1, NoWorkerTyped
  <2> QED
    BY <1>0, <2>2 DEF Live
<1>5. ASSUME UNCHANGED wk PROVE Live(w) /\ wk[w].cancelled
  BY <1>0, <1>5 DEF Live
<1>6. ASSUME NEW t \in Threads, EdgeStep(t) PROVE UNCHANGED wk
  BY <1>6, EdgeFrame
<1>7. ASSUME NEW t \in Threads,
             \/ StartCurrent(t) \/ StopRead(t) \/ StopRow(t) \/ DeleteRead(t) \/ Flush(t) \/ FlushFails(t)
             \/ DeleteSamples(t) \/ DeleteRow(t)
      PROVE  UNCHANGED wk
  BY <1>7 DEF StartCurrent, StopRead, StopRow, DeleteRead, Flush, FlushFails, DeleteSamples, DeleteRow
<1>8. ASSUME NEW t \in Callers,
             \/ \E s \in Sessions : Create(t, s) \/ Reenable(t, s) \/ Stop(t, s) \/ Delete(t, s)
             \/ \E S \in (SUBSET Sessions) \ {{}} : DeleteSessions(t, S)
      PROVE  UNCHANGED wk
  BY <1>8 DEF Create, Reenable, Stop, Delete, DeleteSessions
<1>9. CASE SinkStep \/ Resume \/ CancelWorkers \/ Wait \/ WaitReturns
  BY <1>5, <1>9 DEF SinkStep, Resume, CancelWorkers, Wait, WaitReturns
<1>10. CASE Restart
  BY <1>0, <1>10, NoWorkerTyped DEF Restart
<1> QED
  BY <1>1, <1>2, <1>3, <1>4, <1>5, <1>6, <1>7, <1>8, <1>9, <1>10 DEF Next, ThreadStep, EdgeStep

LEMMA FollowedStep ==
  ASSUME Base, Watch, Next, phase' = "serving"
  PROVE  Followed'
<1> SUFFICES ASSUME NEW w \in Workers, Live(w)', wk'[w].cancelled
             PROVE  \/ \E t \in Threads : th'[t].ptr = w /\ th'[t].pc \in {"stopWait", "schedule"}
                    \/ th'[w].pc # "idle"
  BY DEF Followed
<1>0. w \in Threads /\ ~Restart
  BY DEF Threads, Restart
<1>1. ASSUME NEW t \in Threads, StopLook(t), workers[th[t].cur] = w
      PROVE  th'[t].ptr = w /\ th'[t].pc = "stopWait"
  BY <1>1, StopLookWorks, RolesDisjoint DEF Works, Becomes
<1>2. CASE Live(w) /\ wk[w].cancelled
  <2>0. phase = "serving" /\ ~closing /\ ~rootDone
    <3>1. phase # "boot"
      BY <1>2 DEF Base, Life
    <3>2. phase = "serving"
      BY <3>1, ToServing
    <3> QED
      BY <3>2 DEF Base, Life
  <2>1. CASE th[w].pc # "idle"
    <3>1. RecoversLater(w)
      BY PointerParts DEF Base
    <3>2. th[w].pc = "recoverWait"
      BY <1>2, <2>1, <3>1 DEF RecoversLater
    <3>3. ~ThreadStep(w)
      <4>1. ASSUME RecoverWait(w) PROVE FALSE
        BY <1>0, <1>2, <2>0, <4>1, RecoverWaitEffect
      <4> QED
        BY <1>0, <3>2, <4>1, AtPlace
    <3>4. ~FlushFails(w)
      BY <3>2 DEF FlushFails
    <3>5. SinkStep => th'[w] = th[w]
      <4>1. SinkStep => UNCHANGED th \/ \E x \in Threads : (Goto(x, "chDelete") \/ Finish(x, "err")) /\ th[x].pc = "flushWait"
        BY SinkHead DEF SinkStep
      <4> QED
        BY <1>0, <3>2, <4>1, ThreadTypes DEF Goto, Finish, Base
    <3>6. th'[w] = th[w]
      BY <1>0, <2>1, <3>3, <3>4, <3>5, WhoMoves
    <3> QED
      BY <2>1, <3>6
  <2>2. ASSUME NEW t \in Threads, th[t].ptr = w, th[t].pc \in {"stopWait", "schedule"}
        PROVE  \/ th'[t].ptr = w /\ th'[t].pc \in {"stopWait", "schedule"}
               \/ th'[w].pc # "idle"
    <3>1. CASE th'[t] = th[t]
      BY <2>2, <3>1
    <3>2. CASE StopWait(t)
      BY <1>2, <2>2, <3>2, StopWaitWorks DEF Works, Becomes
    <3>3. CASE Schedule(t)
      <4>1. CASE th[w].pc = "idle"
        BY <2>0, <2>2, <3>3, <4>1, ScheduleEffect DEF Schedules
      <4>2. CASE th[w].pc # "idle"
        <5>1. t # w
          BY <3>3, ScheduleEffect, RolesDisjoint
        <5>2. th'[w] = th[w]
          BY <1>0, <2>2, <3>3, <4>2, <5>1, ScheduleEffect DEF Ends, Becomes
        <5> QED
          BY <4>2, <5>2
      <4> QED
        BY <4>1, <4>2
    <3>4. ASSUME th'[t] # th[t] PROVE StopWait(t) \/ Schedule(t)
      <4>1. ~FlushFails(t)
        BY <2>2 DEF FlushFails
      <4>2. SinkStep => th'[t] = th[t]
        <5>1. SinkStep => UNCHANGED th \/ \E x \in Threads : (Goto(x, "chDelete") \/ Finish(x, "err")) /\ th[x].pc = "flushWait"
          BY SinkHead DEF SinkStep
        <5> QED
          BY <2>2, <5>1, ThreadTypes DEF Goto, Finish, Base
      <4>3. ThreadStep(t)
        BY <1>0, <2>2, <3>4, <4>1, <4>2, WhoMoves
      <4> QED
        BY <2>2, <4>3, AtPlace
    <3> QED
      BY <3>1, <3>2, <3>3, <3>4
  <2> QED
    BY <1>2, <2>0, <2>1, <2>2 DEF Watch, Followed
<1> QED
  BY <1>1, <1>2, WhoCancels

LEMMA CoversStep ==
  ASSUME Base, Watch, Steady, Next, phase' = "boot", th'[Main].pc # "idle"
  PROVE  Covers'
<1> SUFFICES ASSUME NEW s \in Sessions, row'[s] = "running", workers'[s] = None
             PROVE  /\ s \in th'[Main].want
                    /\ ~(th'[Main].pc = "release" /\ th'[Main].res # "err" /\ th'[Main].cur = s)
  BY DEF Covers
<1>0. ~Restart /\ Main \in Threads /\ row[s] = "running"
  BY RunningStays, IdleFits DEF Restart, Threads
<1>1. phase = "boot"
  <2>1. ASSUME NEW t \in Threads, EdgeStep(t) PROVE phase' = phase \/ phase' = "serving"
    BY <2>1, ReleaseEffect DEF EdgeStep, Acquire, GiveUpLock, CleanupStop, CleanupDelete, Schedule, RecoverWait, lifeVars
  <2>2. LifeStep => phase' = phase \/ phase' = "serving" \/ phase' = "draining" \/ phase' = "stopped"
    BY <1>0 DEF LifeStep, CancelWorkers, Wait, WaitReturns, Resume
  <2> QED
    BY <2>1, <2>2, NextKinds DEF Kinds, WorkStep, BeginStep, QuietStep, lifeVars
<1>2. ~closing /\ ~rootDone
  BY <1>1 DEF Base, Life
<1>3. workers[s] = None
  <2>1. ASSUME workers[s] # None PROVE FALSE
    <3>1. workers[s] \in Workers /\ WorkerExit(workers[s])
      BY <1>0, <2>1, WhoLeaves
    <3>2. wk[workers[s]].id = s /\ ~wk[workers[s]].cancelled
      BY <1>1, <2>1, <3>1 DEF Base, MapInv, Life
    <3>3. wk[workers[s]].pc = "exit"
      BY <1>2, <3>1, <3>2 DEF WorkerExit, Cancelled
    <3> QED
      BY <1>0, <3>1, <3>2, <3>3 DEF Watch, Exited
  <2> QED
    BY <2>1
<1>4. CASE th[Main].pc = "idle"
  <2>1. ASSUME NEW t \in Threads, WorkStep(t) \/ EdgeStep(t) PROVE FALSE
    BY <1>0, <1>4, <2>1, WorkFrame, EdgeFrame, ScheduleEffect, RolesDisjoint DEF WorkStep
  <2>2. ASSUME NEW t \in Threads, NEW o, NEW S \in SUBSET Sessions, BeginStep(t, o, S)
        PROVE  Begins(Main, "resume", RunningSessions)
    BY <1>0, <1>4, <2>2, RolesDisjoint DEF BeginStep, Begins
  <2>3. ~QuietStep /\ ~LifeStep
    BY <1>0, <1>4 DEF QuietStep, LifeStep, CancelWorkers, Wait, WaitReturns
  <2>4. Begins(Main, "resume", RunningSessions)
    BY <2>1, <2>2, <2>3, NextKinds DEF Kinds
  <2> QED
    BY <1>0, <2>4 DEF Begins, RunningSessions
<1>5. CASE th[Main].pc # "idle"
  <2>0. /\ s \in th[Main].want /\ ~(th[Main].pc = "release" /\ th[Main].res # "err" /\ th[Main].cur = s)
        /\ th[Main].op = "resume" /\ th[Main].pc \in {"lock", "start", "publish", "release", "failed"}
        /\ Starting(Main) /\ th[Main].ptr = None
    BY <1>0, <1>1, <1>3, <1>5 DEF Watch, Covers, Base, Placed, Fits, Starting
  <2>1. CASE th'[Main] = th[Main]
    BY <2>0, <2>1
  <2>2. CASE ThreadStep(Main)
    <3>1. CASE Acquire(Main)
      <4>1. \E c \in Targets(Main) : Becomes(Main, Body(Main), c, None, th[Main].capped, th[Main].res)
        BY <1>0, <2>0, <3>1, AcquireEffect
      <4>2. Body(Main) # "release"
        BY <1>0, <3>1, BodyFits DEF Acquire
      <4> QED
        BY <2>0, <4>1, <4>2 DEF Becomes
    <3>2. CASE GiveUpLock(Main)
      BY <1>0, <2>0, <3>2, GiveUpEffect DEF Ends, Becomes
    <3>3. CASE Release(Main)
      <4>1. th' = [th EXCEPT ![Main] = AfterOperation(Main)] /\ th[Main].pc = "release"
        BY <1>0, <2>0, <3>3, ReleaseEffect
      <4>2. \/ /\ th[Main].res # "err" /\ th'[Main].want = th[Main].want \ {th[Main].cur} /\ th'[Main].pc = "lock"
            \/ /\ th[Main].res = "err" /\ th'[Main].want = th[Main].want /\ th'[Main].pc = "failed"
        BY <1>0, <2>0, <4>1, AfterOperationEffect, IdleFits DEF Moves, Becomes, NextResumed, Forgets
      <4> QED
        BY <2>0, <4>1, <4>2
    <3>4. CASE StartCurrent(Main)
      <4>1. workers[th[Main].cur] # None => th[Main].cur # s
        BY <1>3
      <4>2. Goto(Main, "publish") \/ FinishStart(Main, "err") \/ (th[Main].cur # s /\ \E r \in Results : FinishStart(Main, r))
        BY <1>0, <1>3, <3>4, <4>1 DEF StartCurrent, Results
      <4>3. Moves(Main, "publish") \/ Ends(Main, "err") \/ (th[Main].cur # s /\ \E r : Ends(Main, r))
        BY <1>0, <2>0, <4>2, GotoMoves, FinishStartEnds DEF Base, ThreadPc, Results
      <4> QED
        BY <2>0, <4>3 DEF Moves, Ends, Becomes
    <3>5. CASE Publish(Main)
      <4>0. th[Main].cur \in Sessions
        BY <1>0, <1>5, CurIsSession
      <4>1. CASE PublishPrepared(th[Main].cur, FALSE)
        <5>1. FALSE \in BOOLEAN
          OBVIOUS
        <5>2. (UNCHANGED workers /\ workers[th[Main].cur] # None) \/ \E w \in Workers, k \in BOOLEAN : Grows(th[Main].cur, w, k)
          BY <1>2, <4>0, <4>1, <5>1, PublishGrows
        <5>3. th[Main].cur # s
          BY <1>3, <4>0, <5>2, RolesDisjoint DEF Grows, Base, TypeOK
        <5>4. \E r \in Results : FinishStart(Main, r)
          BY <3>5 DEF Publish, Results
        <5>5. \E r : Ends(Main, r)
          BY <1>0, <5>4, FinishStartEnds DEF Base
        <5> QED
          BY <2>0, <5>3, <5>5 DEF Ends, Becomes
      <4>2. CASE FinishStart(Main, "err")
        <5>1. Ends(Main, "err")
          BY <1>0, <2>0, <4>2, FinishStartEnds DEF Base, Results
        <5> QED
          BY <2>0, <5>1 DEF Ends, Becomes
      <4> QED
        BY <3>5, <4>1, <4>2 DEF Publish
    <3> QED
      BY <1>0, <2>0, <2>2, <3>1, <3>2, <3>3, <3>4, <3>5, AtPlace
  <2>3. ~FlushFails(Main) /\ (SinkStep => th'[Main] = th[Main])
    <3>1. SinkStep => UNCHANGED th \/ \E x \in Threads : (Goto(x, "chDelete") \/ Finish(x, "err")) /\ th[x].pc = "flushWait"
      BY SinkHead DEF SinkStep
    <3> QED
      BY <1>0, <2>0, <3>1, ThreadTypes DEF FlushFails, Goto, Finish, Base
  <2> QED
    BY <1>0, <1>5, <2>1, <2>2, <2>3, WhoMoves
<1> QED
  BY <1>4, <1>5

-----------------------------------------------------------------------------

LEMMA InitWatch == Init => Watch
<1> SUFFICES ASSUME Init PROVE Watch
  OBVIOUS
<1>1. /\ \A t \in Threads : th[t].pc = "idle"
      /\ \A w \in Workers : wk[w] = NoWorker
      /\ phase = "boot" /\ Workers \subseteq Threads /\ Main \in Threads
  BY IdleFits DEF Init, Threads
<1> QED
  BY <1>1, NoWorkerTyped DEF Watch, Exited, EndsLocked

LEMMA NextWatch == Base /\ Watch /\ Steady /\ Next => Watch'
<1> SUFFICES ASSUME Base, Watch, Steady, Next PROVE Watch'
  OBVIOUS
<1> QED
  BY ExitedStep, EndsLockedStep, GuardedStep, FollowedStep, CoversStep DEF Watch

LEMMA StutterWatch == Watch /\ UNCHANGED vars => Watch'
<1> SUFFICES ASSUME Watch, UNCHANGED vars PROVE Watch'
  OBVIOUS
<1>1. UNCHANGED <<row, workers, operations, phase, th, wk>>
  BY DEF vars
<1>2. Exited' /\ EndsLocked'
  BY <1>1 DEF Watch, Exited, EndsLocked
<1>3. Guarded => Guarded'
  BY <1>1 DEF Guarded, Duty
<1>4. Followed => Followed'
  BY <1>1 DEF Followed, Live
<1>5. Covers => Covers'
  BY <1>1 DEF Covers
<1> QED
  BY <1>1, <1>2, <1>3, <1>4, <1>5 DEF Watch

\* A failed or timed-out Stop or Delete restores the worker, or leaves a
\* recovery behind, and Resume passes over no row: while the service is up no
\* running session is without a worker and without a thread that will see to
\* it, whatever fails, if no request makes rows running beside the lock.
THEOREM RunningIsOwnedHolds ==
  ASSUME "create" \notin Ops, "reenable" \notin Ops
  PROVE  Spec => []RunningIsOwned
<1>1. Steady
  BY DEF Steady
<1>2. Base /\ Watch /\ [Next]_vars => Watch'
  BY <1>1, NextWatch, StutterWatch
<1>3. Base /\ Watch => RunningIsOwned
  <2> SUFFICES ASSUME Base, Watch, phase = "serving", NEW s \in Sessions, row[s] = "running", workers[s] = None
               PROVE  \E t \in Threads : th[t].pc # "idle" /\ s \in th[t].want
    BY DEF RunningIsOwned
  <2>1. PICK t \in Threads : Duty(t, s)
    BY DEF Watch, Guarded
  <2>2. th[t].pc # "idle"
    BY <2>1, IdleFits DEF Duty, Base, Placed
  <2>3. s \in th[t].want
    BY <2>1, <2>2 DEF Duty, Base, Placed
  <2> QED
    BY <2>2, <2>3
<1> QED
  BY InitWatch, <1>2, <1>3, BaseHolds, PTL DEF Spec
=============================================================================
