-------------------------------- MODULE Runs --------------------------------
(***************************************************************************)
(* A variation run and its child sessions: the run and edit handlers       *)
(* (api/runs.go, api/edit.go, api/run_report.go), the statements they      *)
(* issue (db/runs.go, db/runs.sql.go) and the row locks those take, beside *)
(* the handlers of single sessions and the workers' ticks.                 *)
(*                                                                         *)
(* The supervisor appears as the Control interface the handlers see: each  *)
(* operation on a session takes effect in one step and answers; what goes  *)
(* on inside is the subject of Supervisor.  Children are numbered in the   *)
(* order the store lists them.  A name is the pair of the text it is made  *)
(* of and the child it was generated for (0: typed by a person).           *)
(***************************************************************************)
EXTENDS Naturals, FiniteSets, FiniteSetsExt

CONSTANTS
  Children,     \* sessions of the run, a set of positive numbers
  Callers,      \* handler goroutines
  IPs,          \* exit addresses the workers observe
  Texts,        \* texts people give to runs and sessions
  Ops,          \* requests issued in this instance
  Single,       \* bound: children that requests address on their own
  Faults,       \* "store": a call fails without effect, "lost": it takes effect without a reply
  MaxReportObservations,
  Free          \* nobody holds the lock

ASSUME RunsAssumption ==
  /\ Children \subseteq Nat \ {0} /\ Children # {} /\ IsFiniteSet(Children)
  /\ Ops \subseteq {"createRun", "stopRun", "reenableRun", "deleteRun", "editRun", "runReport",
                    "stop", "reenable", "delete", "edit"}
  /\ Faults \subseteq {"store", "lost"}
  /\ Free \notin Callers /\ MaxReportObservations \in Nat

VARIABLES
  run,      \* variation_runs: state of the row and the name in it
  rows,     \* sampling_sessions: status, name and name_customized of each child
  ips,      \* session_ips: addresses of each child
  locks,    \* row locks held by open transactions, 0 stands for the run row
  workers,  \* children that have a worker
  call,     \* per caller: its request and where it is
  seen,     \* history, per caller: what happened to the children since the request arrived
  strayed   \* history: workers that outlived the end of their session's run

vars == <<run, rows, ips, locks, workers, call, seen, strayed>>

NoRow  == [status |-> "none", name |-> <<"", 0>>, custom |-> FALSE]
NoCall == [op |-> "none", pc |-> "idle", arg |-> 0, text |-> "", left |-> {}, listed |-> {},
           pending |-> {}, confirmed |-> TRUE, pool |-> {}, res |-> "none", status |-> "none"]
NoHistory == [lag |-> {}, started |-> FALSE]

Exists(s)  == rows[s].status # "none"
Stored     == {s \in Children : Exists(s)}
Running(s) == rows[s].status = "running"
Fault(f)   == f \in Faults

Init ==
  /\ run = [state |-> "unborn", name |-> ""]
  /\ rows = [s \in Children |-> NoRow] /\ ips = [s \in Children |-> {}]
  /\ locks = [r \in Children \cup {0} |-> Free]
  /\ workers = {} /\ call = [c \in Callers |-> NoCall] /\ seen = [c \in Callers |-> NoHistory]
  /\ strayed = {}

-----------------------------------------------------------------------------
(* Statements.                                                             *)

VariantName(text, s) == <<text, s>>

\* InsertRun and InsertRunSession: a generated name is not customized.
InsertRun(text) == run' = [state |-> "here", name |-> text]
InsertRunSessions(text) ==
  rows' = [s \in Children |-> [status |-> "running", name |-> VariantName(text, s), custom |-> FALSE]]

\* The counts of the Runs and RunByID queries, and the status they derive.
RunCounts == [variants |-> Cardinality(Stored),
              running  |-> Cardinality({s \in Stored : Running(s)}),
              finished |-> Cardinality({s \in Stored : rows[s].status = "finished"})]
DeriveRunStatus(n) ==
  CASE n.running > 0                              -> "running"
    [] n.variants > 0 /\ n.finished = n.variants  -> "finished"
    [] OTHER                                      -> "stopped"
RunByID == [found |-> run.state = "here", status |-> DeriveRunStatus(RunCounts)]

\* RunSessions, SessionsByRun and RunSessionVariantParams list the children.
RunSessions == Stored
RunSessionVariantParams == Stored

\* RunIPObservations: the newest MaxReportObservations pairs, if there are more.
Observations == {p \in Children \X IPs : p[2] \in ips[p[1]]}
RunIPObservations ==
  {O \in SUBSET Observations :
     Cardinality(O) = Min({Cardinality(Observations), MaxReportObservations})}

\* Mutant of RenameGenerated: provenance is not looked at.
RenameGeneratedAlways(s) == Exists(s)
\* The WHERE clause of RenameGeneratedRunSession, evaluated on the latest row.
RenameGenerated(s) == Exists(s) /\ ~rows[s].custom

\* RenameSession records that a person chose the name.
RenameSession(s, text) == rows' = [rows EXCEPT ![s].name = <<text, 0>>, ![s].custom = TRUE]

\* DeleteRun cascades to the children and their addresses.
DeleteRunRow ==
  /\ run' = [run EXCEPT !.state = "deleted"]
  /\ rows' = [s \in Children |-> NoRow]
  /\ ips' = [s \in Children |-> {}]

Unlocked(S) == \A r \in S : locks[r] = Free

-----------------------------------------------------------------------------
(* The Control interface, one session at a time; the answer is r.          *)

\* A worker in the map is kept, and nobody looks at the row.
Start(s, r) ==
  /\ \/ r = "ok" /\ (s \in workers \/ Running(s)) /\ workers' = workers \cup {s}
     \/ /\ s \notin workers /\ UNCHANGED workers
        /\ \/ r = "notRunning" /\ Exists(s) /\ ~Running(s)
           \/ r = "notFound" /\ ~Exists(s)
           \/ r = "err" /\ Fault("store")
  /\ UNCHANGED <<rows, ips>>

\* What a stop that fails at its deadline leaves behind: the status of the row,
\* and whether there is a worker.  The worker it stopped runs again whatever
\* the row says, which that worker may have finished before it exited; if
\* there was none, a running row gets one.
StopFailures(s) ==
  {o \in [status : {"none", "running", "stopped", "finished"}, worker : BOOLEAN] :
     \/ /\ Fault("store") /\ o.status = rows[s].status
        /\ (s \in workers => o.worker) /\ (o.worker => s \in workers \/ Running(s))
     \/ Fault("store") /\ Running(s) /\ o.status = "finished" /\ s \in workers /\ o.worker
     \/ Fault("lost") /\ Running(s) /\ o.status = "stopped" /\ (o.worker <=> s \in workers)}

StopFails(s) ==
  \E o \in StopFailures(s) :
    /\ o.status = rows[s].status \/ Unlocked({s})
    /\ rows' = [rows EXCEPT ![s].status = o.status]
    /\ workers' = IF o.worker THEN workers \cup {s} ELSE workers \ {s}

\* A stop whose first reply was lost finds the row not running when it retries.
Stop(s, r) ==
  /\ \/ /\ r = "ok" \/ (r = "notRunning" /\ Fault("lost"))
        /\ Running(s) /\ Unlocked({s})
        /\ rows' = [rows EXCEPT ![s].status = "stopped"] /\ workers' = workers \ {s}
     \/ /\ r = "notRunning" /\ ~Running(s) /\ (Exists(s) \/ s \in workers)
        /\ workers' = workers \ {s} /\ UNCHANGED rows
     \/ r = "notFound" /\ ~Exists(s) /\ s \notin workers /\ UNCHANGED <<rows, workers>>
     \/ r = "err" /\ StopFails(s)
  /\ UNCHANGED ips

\* The row changes first; a reply that is lost, or a start that fails, leaves
\* it running with the worker it had before, or with none.
ReenableSession(s, r) ==
  /\ \/ /\ r \in {"ok", "err"} /\ Exists(s) /\ ~Running(s) /\ Unlocked({s})
        /\ rows' = [rows EXCEPT ![s].status = "running"]
        /\ \/ r = "ok" /\ workers' = workers \cup {s}
           \/ r = "err" /\ (Fault("lost") \/ (Fault("store") /\ s \notin workers)) /\ UNCHANGED workers
     \/ r = "alreadyRunning" /\ Running(s) /\ UNCHANGED <<rows, workers>>
     \/ r = "notFound" /\ ~Exists(s) /\ UNCHANGED <<rows, workers>>
     \/ r = "err" /\ Fault("store") /\ UNCHANGED <<rows, workers>>
  /\ UNCHANGED ips

\* Delete and DeleteSessions stop the sessions of S whose row is running, one
\* by one; another one's worker, if it has strayed, they leave alone.
StopEach(T) == [s \in Children |-> IF s \in T /\ Running(s) THEN [rows[s] EXCEPT !.status = "stopped"]
                                   ELSE rows[s]]
RunningOf(T) == {s \in T : Running(s)}

\* One of the stops, or of the reads before them, fails.
DeleteAborts(S) ==
  \E T \in SUBSET (S \cap Stored) : \E f \in (S \cap Stored) \ T : \E o \in StopFailures(f) :
    /\ Unlocked(RunningOf(T)) /\ (o.status = rows[f].status \/ Unlocked({f}))
    /\ rows' = [StopEach(T) EXCEPT ![f].status = o.status]
    /\ workers' = IF o.worker THEN (workers \ RunningOf(T)) \cup {f} ELSE workers \ (RunningOf(T) \cup {f})
    /\ UNCHANGED ips

\* The rows D are removed once all are stopped; a failure removes some of them.
DeleteAll(S, r) ==
  LET T == S \cap Stored
  IN \/ \E D \in SUBSET T :
          /\ \/ r = "ok" /\ D = T
             \/ r = "err" /\ (Fault("lost") \/ (Fault("store") /\ (D # T \/ D = {})))
          /\ Unlocked(D \cup RunningOf(T))
          /\ rows' = [s \in Children |-> IF s \in D THEN NoRow ELSE StopEach(T)[s]]
          /\ workers' = workers \ RunningOf(T)
          /\ ips' = [s \in Children |-> IF s \in D THEN {} ELSE ips[s]]
     \/ r = "err" /\ DeleteAborts(S)
Delete(s, r) ==
  \/ (Exists(s) \/ r = "err") /\ DeleteAll({s}, r)
  \/ r = "notFound" /\ ~Exists(s) /\ UNCHANGED <<rows, ips, workers>>

-----------------------------------------------------------------------------
(* The workers.                                                            *)

\* SaveTick commits the addresses of a tick; it writes the child's row.
Observe(s, a) ==
  /\ s \in workers /\ Exists(s) /\ Unlocked({s})
  /\ ips' = [ips EXCEPT ![s] = @ \cup {a}]
  /\ UNCHANGED <<run, rows, locks, workers, call>>

\* finish retries every error until it is cancelled, also once the row is no
\* longer running.
WorkerFinishes(s) ==
  /\ s \in workers /\ Running(s) /\ Unlocked({s})
  /\ rows' = [rows EXCEPT ![s].status = "finished"]
  /\ workers' = workers \ {s} \/ (Fault("lost") /\ UNCHANGED workers)
  /\ UNCHANGED <<run, ips, locks, call>>

-----------------------------------------------------------------------------
(* Requests.                                                               *)

At(c, o, p) == call[c].op = o /\ call[c].pc = p
Set(c, r)   == call' = [call EXCEPT ![c] = r]
Goto(c, p)  == Set(c, [call[c] EXCEPT !.pc = p])
Done(c, r)  == Set(c, [NoCall EXCEPT !.op = call[c].op, !.pc = "done", !.res = r])
First(c)    == Min(call[c].left)
\* The loop moves on, or to p when the last child was visited.
Visited(c, p) ==
  LET left == call[c].left \ {First(c)}
  IN Set(c, [call[c] EXCEPT !.left = left, !.pc = IF left = {} THEN p ELSE @])

FirstPc(o) == CASE o = "createRun" -> "insert"
                [] o \in {"stopRun", "reenableRun", "deleteRun", "runReport"} -> "find"
                [] OTHER -> "do"

\* A request arrives; a run or session is addressed once its id can be known.
\* Requests for a session address one of Single; the texts matter to
\* the properties only where a run is renamed, elsewhere one of them stands
\* for all.
Request(c, o, s, t) ==
  /\ call[c].pc = "idle" /\ o \in Ops
  /\ s \in IF o \in {"stop", "reenable", "delete", "edit"} THEN Single ELSE {Min(Children)}
  /\ o = "editRun" \/ t = CHOOSE u \in Texts : TRUE
  /\ (run.state = "unborn") <=> (o = "createRun")
  /\ o = "createRun" => \A d \in Callers : call[d].op # "createRun"
  /\ Set(c, [NoCall EXCEPT !.op = o, !.pc = FirstPc(o), !.arg = s, !.text = t])
  /\ UNCHANGED <<run, rows, ips, locks, workers>>

Return(c) ==
  /\ call[c].pc = "done"
  /\ Set(c, NoCall)
  /\ UNCHANGED <<run, rows, ips, locks, workers>>

\* CreateRun, valid and expanded: one transaction inserts the run and its children.
CreateRunInsert(c) ==
  /\ At(c, "createRun", "insert")
  /\ \/ /\ InsertRun(call[c].text) /\ InsertRunSessions(call[c].text)
        /\ \/ Set(c, [call[c] EXCEPT !.pc = "start", !.left = Children])
           \/ Fault("lost") /\ Done(c, "err")
     \/ Fault("store") /\ Done(c, "err") /\ UNCHANGED <<run, rows>>
  /\ UNCHANGED <<ips, locks, workers>>

\* A child that was stopped or deleted meanwhile is no reason to roll back.
CreateRunStart(c) ==
  /\ At(c, "createRun", "start")
  /\ \E r \in {"ok", "notRunning", "notFound", "err"} :
       /\ Start(First(c), r)
       /\ IF r = "err" THEN Set(c, [call[c] EXCEPT !.pc = "cleanup", !.left = Children])
                       ELSE IF call[c].left = {First(c)} THEN Done(c, "ok") ELSE Visited(c, "start")
  /\ UNCHANGED <<run, locks>>

\* Mutant of CreateRunCleanup: a failed deletion counts as done.
CreateRunCleanupHasty(c) ==
  /\ At(c, "createRun", "cleanup")
  /\ \E r \in {"ok", "notFound", "err"} :
       /\ Delete(First(c), r)
       /\ LET left == call[c].left \ {First(c)}
          IN Set(c, [call[c] EXCEPT !.left = left, !.pc = IF left = {} THEN "drop" ELSE @])
  /\ UNCHANGED <<run, locks>>

\* The rollback deletes every child and remembers whether all are gone.
CreateRunCleanup(c) ==
  /\ At(c, "createRun", "cleanup")
  /\ \E r \in {"ok", "notFound", "err"} :
       /\ Delete(First(c), r)
       /\ LET left == call[c].left \ {First(c)}
              sure == call[c].confirmed /\ r # "err"
          IN Set(c, [call[c] EXCEPT !.left = left, !.confirmed = sure,
                       !.pc = IF left # {} THEN @ ELSE IF sure THEN "drop" ELSE "done",
                       !.res = IF left = {} /\ ~sure THEN "err" ELSE @])
  /\ UNCHANGED <<run, locks>>

\* DELETE of the run row, by the rollback or by DeleteRun: it locks the row,
DropRun(c) ==
  /\ call[c].op \in {"createRun", "deleteRun"} /\ call[c].pc = "drop"
  /\ \/ Unlocked({0}) /\ locks' = [locks EXCEPT ![0] = c] /\ Goto(c, "cascade")
     \/ Fault("store") /\ Done(c, "err") /\ UNCHANGED locks
  /\ UNCHANGED <<run, rows, ips, workers>>

ReleaseLocks(c) == locks' = [r \in DOMAIN locks |-> IF locks[r] = c THEN Free ELSE locks[r]]

\* and then waits for the rows of the children that the cascade removes.
DropRunCascade(c) ==
  /\ call[c].pc = "cascade"
  /\ \/ /\ Unlocked(Stored) /\ DeleteRunRow
        /\ Done(c, IF call[c].op = "createRun" THEN "err" ELSE "ok") \/ (Fault("lost") /\ Done(c, "err"))
     \/ Fault("store") /\ UNCHANGED <<run, rows, ips>> /\ Done(c, "err")
  /\ ReleaseLocks(c)
  /\ UNCHANGED workers

\* RunByID at the start of StopRun, ReenableRun, DeleteRun and RunReport.
FindRun(c) ==
  /\ call[c].pc = "find"
  /\ \/ RunByID.found /\ Goto(c, "list")
     \/ ~RunByID.found /\ Done(c, "notFound")
     \/ Fault("store") /\ Done(c, "err")
  /\ UNCHANGED <<run, rows, ips, locks, workers>>

\* Mutant of ListChildren and of ReadObservations: the report reads them in
\* the other order.
ListObservationsFirst(c) ==
  /\ call[c].pc = "list"
  /\ IF call[c].op = "runReport"
     THEN \E O \in RunIPObservations : Set(c, [call[c] EXCEPT !.pc = "observe", !.pool = O])
     ELSE Set(c, [call[c] EXCEPT !.left = RunSessions, !.listed = RunSessions,
                    !.pc = IF call[c].op = "deleteRun" THEN "batch"
                           ELSE IF RunSessions = {} THEN "summary" ELSE "each"])
  /\ UNCHANGED <<run, rows, ips, locks, workers>>

ListChildren(c) ==
  /\ call[c].pc = "list"
  /\ \/ Set(c, [call[c] EXCEPT !.left = RunSessions, !.listed = RunSessions,
                  !.pc = CASE call[c].op = "deleteRun" -> "batch"
                           [] call[c].op = "runReport" -> "observe"
                           [] OTHER -> IF RunSessions = {} THEN "summary" ELSE "each"])
     \/ Fault("store") /\ Done(c, "err")
  /\ UNCHANGED <<run, rows, ips, locks, workers>>

\* Mutant of FanOut: a child that needs nothing ends the loop.
FanOutShort(c) ==
  /\ call[c].pc = "each"
  /\ LET s == First(c)
     IN \E r \in {"ok", "notRunning", "alreadyRunning", "notFound", "err"} :
          /\ IF call[c].op = "stopRun" THEN Stop(s, r) ELSE ReenableSession(s, r)
          /\ IF r = "err" THEN Done(c, "err")
             ELSE IF r = "ok" THEN Visited(c, "summary") ELSE Goto(c, "summary")
  /\ UNCHANGED <<run, locks>>

\* fanOut: the idempotent answer and a missing child are skipped, any other
\* error ends the request.
FanOut(c) ==
  /\ call[c].pc = "each"
  /\ LET s == First(c)
     IN \E r \in {"ok", "notRunning", "alreadyRunning", "notFound", "err"} :
          /\ IF call[c].op = "stopRun" THEN Stop(s, r) ELSE ReenableSession(s, r)
          /\ IF r = "err" THEN Done(c, "err") ELSE Visited(c, "summary")
  /\ UNCHANGED <<run, locks>>

\* The summary that StopRun, ReenableRun and EditRun answer with.
Summarize(c) ==
  /\ call[c].pc = "summary"
  /\ \/ RunByID.found /\ Set(c, [NoCall EXCEPT !.op = call[c].op, !.pc = "done", !.res = "ok",
                                               !.status = RunByID.status])
     \/ ~RunByID.found /\ Done(c, "notFound")
     \/ Fault("store") /\ Done(c, "err")
  /\ UNCHANGED <<run, rows, ips, locks, workers>>

DeleteRunBatch(c) ==
  /\ At(c, "deleteRun", "batch")
  /\ \E r \in {"ok", "err"} :
       /\ DeleteAll(call[c].listed, r)
       /\ IF r = "ok" THEN Goto(c, "drop") ELSE Done(c, "err")
  /\ UNCHANGED <<run, locks>>

\* RunReport reads the observations after the children and aggregates both.
ReadObservations(c) ==
  /\ At(c, "runReport", "observe")
  /\ \/ \E O \in RunIPObservations :
          Set(c, [call[c] EXCEPT !.pc = "done", !.res = "ok", !.left = {}, !.pool = O])
     \/ Fault("store") /\ Done(c, "err")
  /\ UNCHANGED <<run, rows, ips, locks, workers>>

\* Mutant of RenameRun: the run row is read but not locked.
RenameRunUnlocked(c) ==
  /\ At(c, "editRun", "do")
  /\ IF run.state = "here"
     THEN Goto(c, "params") /\ run' = [run EXCEPT !.name = call[c].text]
     ELSE Done(c, "notFound") /\ UNCHANGED run
  /\ UNCHANGED <<rows, ips, locks, workers>>

\* EditRun: the UPDATE of the run row waits for its lock and keeps it; the
\* new name is visible to others once the transaction commits.
RenameRun(c) ==
  /\ At(c, "editRun", "do")
  /\ \/ /\ run.state = "here" /\ Unlocked({0})
        /\ locks' = [locks EXCEPT ![0] = c]
        /\ Goto(c, "params")
     \/ run.state # "here" /\ Done(c, "notFound") /\ UNCHANGED locks
     \/ Fault("store") /\ Done(c, "err") /\ UNCHANGED locks
  /\ UNCHANGED <<run, rows, ips, workers>>

RenameRunParams(c) ==
  /\ At(c, "editRun", "params")
  /\ Set(c, [call[c] EXCEPT !.left = RunSessionVariantParams,
               !.pc = IF RunSessionVariantParams = {} THEN "commit" ELSE "child"])
  /\ UNCHANGED <<run, rows, ips, locks, workers>>

\* RenameGeneratedRunSession: waits for the child's lock, keeps it on a match.
RenameRunChild(c) ==
  /\ At(c, "editRun", "child")
  /\ LET s == First(c)
         left == call[c].left \ {s}
         match == RenameGenerated(s)
     IN /\ Unlocked({s})
        /\ locks' = IF match THEN [locks EXCEPT ![s] = c] ELSE locks
        /\ Set(c, [call[c] EXCEPT !.left = left, !.pc = IF left = {} THEN "commit" ELSE @,
                     !.pending = IF match THEN @ \cup {s} ELSE @])
  /\ UNCHANGED <<run, rows, ips, workers>>

RenameRunCommit(c) ==
  /\ At(c, "editRun", "commit")
  /\ run' = [run EXCEPT !.name = call[c].text]
  /\ rows' = [s \in Children |-> IF s \in call[c].pending
                                 THEN [rows[s] EXCEPT !.name = VariantName(call[c].text, s)] ELSE rows[s]]
  /\ ReleaseLocks(c)
  /\ \/ Goto(c, "summary")
     \/ Fault("lost") /\ Done(c, "err")
  /\ UNCHANGED <<ips, workers>>

\* Any statement of the transaction fails: nothing of it stays.
RenameRunRollback(c) ==
  /\ call[c].op = "editRun" /\ call[c].pc \in {"params", "child", "commit"} /\ Fault("store")
  /\ ReleaseLocks(c) /\ Done(c, "err")
  /\ UNCHANGED <<run, rows, ips, workers>>

\* EditSession: the rename, and then the row is read for the answer.
EditSession(c) ==
  /\ At(c, "edit", "do")
  /\ LET s == call[c].arg
     IN \/ /\ Exists(s) /\ Unlocked({s}) /\ RenameSession(s, call[c].text)
           /\ Goto(c, "reread") \/ (Fault("lost") /\ Done(c, "err"))
        \/ ~Exists(s) /\ Done(c, "notFound") /\ UNCHANGED rows
        \/ Fault("store") /\ Done(c, "err") /\ UNCHANGED rows
  /\ UNCHANGED <<run, ips, locks, workers>>

\* SessionByID for the answer of EditSession and of ReenableSession.
RereadSession(c) ==
  /\ call[c].pc = "reread"
  /\ \/ Exists(call[c].arg) /\ Done(c, "ok")
     \/ ~Exists(call[c].arg) /\ Done(c, IF call[c].op = "edit" THEN "notFound" ELSE "err")
     \/ Fault("store") /\ Done(c, "err")
  /\ UNCHANGED <<run, rows, ips, locks, workers>>

\* StopSession, ReenableSession and DeleteSession pass the answer on.
SessionRequest(c) ==
  /\ call[c].op \in {"stop", "reenable", "delete"} /\ call[c].pc = "do"
  /\ \E r \in {"ok", "notRunning", "alreadyRunning", "notFound", "err"} :
       /\ CASE call[c].op = "stop"     -> Stop(call[c].arg, r)
            [] call[c].op = "reenable" -> ReenableSession(call[c].arg, r)
            [] OTHER                   -> Delete(call[c].arg, r)
       /\ IF call[c].op = "reenable" /\ r = "ok" THEN Goto(c, "reread") ELSE Done(c, r)
  /\ UNCHANGED <<run, locks>>

-----------------------------------------------------------------------------
Handler(c) ==
  \/ Return(c)
  \/ CreateRunInsert(c) \/ CreateRunStart(c) \/ CreateRunCleanup(c) \/ DropRun(c) \/ DropRunCascade(c)
  \/ FindRun(c) \/ ListChildren(c) \/ FanOut(c) \/ Summarize(c) \/ DeleteRunBatch(c)
  \/ ReadObservations(c)
  \/ RenameRun(c) \/ RenameRunParams(c) \/ RenameRunChild(c) \/ RenameRunCommit(c)
  \/ RenameRunRollback(c) \/ EditSession(c) \/ RereadSession(c) \/ SessionRequest(c)

\* The history: which children have not been in the state the request asks
\* for since it arrived, and whether one was started since.
Wanted(o, status) == CASE o = "stopRun"     -> status # "running"
                       [] o = "reenableRun" -> status \in {"running", "none"}
                       [] OTHER             -> TRUE
RecordSeen ==
  seen' = [c \in Callers |->
    IF call'[c].op = "none" THEN NoHistory ELSE
    [lag |-> {s \in IF call[c].op = "none" THEN Children ELSE seen[c].lag : ~Wanted(call'[c].op, rows'[s].status)},
     started |-> call'[c].op = "stopRun" /\
                   (seen[c].started \/ \E s \in Children : ~Running(s) /\ rows'[s].status = "running")]]

\* A worker strays when its session is stopped or finished and it stays
\* nevertheless, in a step that tells nobody of a success; never because the
\* row is removed.  It has strayed until it is gone or the row runs again.
NoSuccess == \A c \in Callers : call'[c] = call[c] \/ call'[c].res = "err" \/ ~call'[c].confirmed
RecordStrayed ==
  strayed' = {s \in workers' :
    /\ rows'[s].status # "running"
    /\ s \in strayed \/ (Running(s) /\ rows'[s].status # "none" /\ NoSuccess)}

Next ==
  /\ \/ \E c \in Callers : Handler(c)
     \/ \E c \in Callers, o \in Ops : \E s \in Children, t \in Texts : Request(c, o, s, t)
     \/ \E s \in Children : WorkerFinishes(s) \/ \E a \in IPs : Observe(s, a)
  /\ RecordSeen /\ RecordStrayed

Spec == Init /\ [][Next]_vars

-----------------------------------------------------------------------------
(* Properties.                                                             *)

TypeOK ==
  /\ run \in [state : {"unborn", "here", "deleted"}, name : Texts \cup {""}]
  /\ rows \in [Children -> [status : {"none", "running", "stopped", "finished"},
                            name : (Texts \cup {""}) \X (Children \cup {0}), custom : BOOLEAN]]
  /\ ips \in [Children -> SUBSET IPs]
  /\ locks \in [Children \cup {0} -> Callers \cup {Free}]
  /\ workers \subseteq Children
  /\ \A c \in Callers : call[c].left \subseteq Children /\ call[c].pending \subseteq Children
  /\ seen \in [Callers -> [lag : SUBSET Children, started : BOOLEAN]]
  /\ strayed \subseteq workers

\* A worker has a running row, and no child outlives its run: neither the
\* rollback of a half-started run, nor DeleteRun and its cascade, nor the
\* deletion of one child beside them removes a row under a worker ("strictly
\* safer than an unmanageable orphan").  The exception is a worker that has
\* strayed, by a stop that failed or a finish without a reply: the code runs it
\* on a row that is no longer running, and a later deletion, which stops only
\* what runs, removes the row under it.  Without failures there is no such worker.
NoOrphanWorker ==
  /\ \A s \in workers : Running(s) \/ s \in strayed
  /\ run.state = "deleted" => Stored = {}
  /\ Faults = {} => strayed = {}

\* What every step of every handler keeps.
RunsConsistent == TypeOK /\ NoOrphanWorker

\* When no rename is under way, every child that carries a generated name
\* carries the one generated from the run's present name, however renames of
\* the run and of its children were interleaved, failed or were rolled back.
NamesFollowRun ==
  (\A c \in Callers : call[c].op = "editRun" => call[c].pc \in {"do", "summary", "done"}) =>
    \A s \in Stored : ~rows[s].custom => rows[s].name = VariantName(run.name, s)

\* A name a person chose is changed only by the next person.
ChosenNamesKept ==
  [][\A s \in Children : Exists(s) /\ rows[s].custom /\ Exists(s)' =>
       /\ rows'[s].custom
       /\ rows'[s].name # rows[s].name => rows'[s].name[2] = 0]_vars

\* A StopRun (ReenableRun) that answers 200 found each child not running
\* (running) or gone at some moment since it was asked, although sessions and
\* runs are operated on concurrently; and the summary of a StopRun does not
\* say running unless a child was started meanwhile.
FanOutReaches ==
  \A c \in Callers : call[c].pc = "done" /\ call[c].res = "ok" =>
    /\ call[c].op \in {"stopRun", "reenableRun"} => seen[c].lag = {}
    /\ call[c].op = "stopRun" /\ call[c].status = "running" => seen[c].started

\* A report adds up although its tables are read one after the other: every
\* address of the pool belongs to a cell, that is to a listed child.
PoolMatchesCells ==
  \A c \in Callers : At(c, "runReport", "done") /\ call[c].res = "ok" =>
    \A p \in call[c].pool : p[1] \in call[c].listed
=============================================================================
