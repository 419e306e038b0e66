----------------------------- MODULE RunsProofs -----------------------------
(***************************************************************************)
(* What the handlers of runs and sessions keep together, proved for every  *)
(* set of children, callers, addresses and texts, every selection of       *)
(* requests and both kinds of store failure.                               *)
(***************************************************************************)
EXTENDS Runs, FiniteSetTheorems, WellFoundedInduction, TLAPS

-----------------------------------------------------------------------------
(***************************************************************************)
(* The inductive invariant.                                                *)
(***************************************************************************)

OpNames  == {"none", "createRun", "stopRun", "reenableRun", "deleteRun", "editRun", "runReport",
             "stop", "reenable", "delete", "edit"}
Pcs      == {"idle", "insert", "start", "cleanup", "drop", "cascade", "find", "list", "each", "summary",
             "batch", "observe", "do", "params", "child", "commit", "reread", "done"}
Answers  == {"none", "ok", "notFound", "notRunning", "alreadyRunning", "err"}
Statuses == {"none", "running", "stopped", "finished"}
CallType ==
  [op : OpNames, pc : Pcs, arg : Children \cup {0}, text : Texts \cup {""},
   left : SUBSET Children, listed : SUBSET Children, pending : SUBSET Children,
   confirmed : BOOLEAN, pool : SUBSET (Children \X IPs), res : Answers, status : Statuses]

\* Which requests come by which place, and what a request knows there.
Placed(c) ==
  /\ call[c].pc = "idle" <=> call[c].op = "none"
  /\ call[c].pc \in {"insert", "start", "cleanup"} => call[c].op = "createRun"
  /\ call[c].pc \in {"drop", "cascade"} => call[c].op \in {"createRun", "deleteRun"}
  /\ call[c].pc \in {"find", "list"} => call[c].op \in {"stopRun", "reenableRun", "deleteRun", "runReport"}
  /\ call[c].pc = "each" => call[c].op \in {"stopRun", "reenableRun"}
  /\ call[c].pc = "summary" => call[c].op \in {"stopRun", "reenableRun", "editRun"}
  /\ call[c].pc = "batch" => call[c].op = "deleteRun"
  /\ call[c].pc = "observe" => call[c].op = "runReport"
  /\ call[c].pc \in {"params", "child", "commit"} => call[c].op = "editRun"
  /\ call[c].pc = "do" => call[c].op \in {"editRun", "edit", "stop", "reenable", "delete"}
  /\ call[c].pc = "reread" => call[c].op \in {"edit", "reenable"}
  /\ call[c].pc \in {"do", "reread"} => call[c].arg \in Children
  /\ call[c].pc \in {"start", "cleanup", "each", "child"} => call[c].left # {}
  /\ call[c].pc \in {"do", "params"} => call[c].pending = {}

Typed == TypeOK /\ call \in [Callers -> CallType] /\ \A c \in Callers : Placed(c)

\* The run is inserted once, by the one creation there is, and every other
\* request comes after it.
Life ==
  /\ run.state = "unborn" => \A s \in Children : ~Exists(s)
  /\ run.state = "deleted" => \A s \in Children : ~Exists(s)
  /\ \A c \in Callers :
       /\ call[c].pc = "insert" => run.state = "unborn"
       /\ call[c].pc \in {"start", "cleanup", "drop", "cascade"} => run.state # "unborn"
       /\ call[c].op \notin {"none", "createRun"} => run.state # "unborn"
  /\ \A c, d \in Callers : call[c].op = "createRun" /\ call[d].op = "createRun" => c = d

\* Workers have running rows, except those that have strayed, which only
\* failures cause; sessions without a row have no addresses.
RowsOwn ==
  /\ \A s \in workers : Running(s) \/ s \in strayed
  /\ Faults = {} => strayed = {}
  /\ \A s \in Children : ~Exists(s) => ips[s] = {}

\* What a request listed or removed covers all that is left, because rows
\* only disappear once the run is inserted.
Gone(c) ==
  /\ call[c].pc = "cleanup" /\ call[c].confirmed => \A s \in Children \ call[c].left : ~Exists(s)
  /\ call[c].pc \in {"drop", "cascade"} => \A s \in Children : ~Exists(s)
  /\ call[c].pc \in {"batch", "observe"} => \A s \in Children : Exists(s) => s \in call[c].listed

\* The lock of the run row serializes renames and deletions of the run; a
\* rename holds the row of every child that it is about to rename.
LockPlaces(c) ==
  /\ call[c].pc \in {"cascade", "params", "child", "commit"} => locks[0] = c
  /\ locks[0] = c => call[c].pc \in {"cascade", "params", "child", "commit"}
  /\ \A s \in Children : locks[s] = c => call[c].pc \in {"child", "commit"} /\ s \in call[c].pending
  /\ call[c].pc \in {"child", "commit"} => \A s \in call[c].pending : locks[s] = c

\* Generated names follow the run at every moment, and a rename under way
\* has met, or will meet, every child that carries one.
Generated(s) == Exists(s) /\ ~rows[s].custom
NamesFollow  == \A s \in Children : Generated(s) => rows[s].name = VariantName(run.name, s)
Rename(c) ==
  /\ call[c].pc \in {"child", "commit"} => \A s \in call[c].pending : Generated(s)
  /\ call[c].pc = "child" => \A s \in Children : Generated(s) => s \in call[c].pending \cup call[c].left
  /\ call[c].pc = "commit" => \A s \in Children : Generated(s) => s \in call[c].pending

\* The fan-out has still to visit every child that lags behind the request.
Lag(c) ==
  /\ call[c].pc = "each" => seen[c].lag \subseteq call[c].left
  /\ call[c].op \in {"stopRun", "reenableRun"} /\ call[c].pc = "summary" => seen[c].lag = {}
  /\ call[c].op = "stopRun" /\ ~seen[c].started => \A s \in Children : Running(s) => s \in seen[c].lag

Inv ==
  /\ Typed /\ Life /\ RowsOwn /\ NamesFollow
  /\ \A c \in Callers : Gone(c) /\ LockPlaces(c) /\ Rename(c) /\ Lag(c)
  /\ FanOutReaches /\ PoolMatchesCells

-----------------------------------------------------------------------------
(* The least child of a loop, and the operations on sessions.              *)

LEMMA MinIn ==
  ASSUME NEW S \in SUBSET Nat, S # {}
  PROVE  Min(S) \in S
<1>1. PICK x \in S : \A y \in S : ~(<<y, x>> \in OpToRel(<, Nat))
  BY NatLessThanWellFounded, WFMin
<1>2. ASSUME NEW y \in S PROVE x <= y
  <2>1. x \in Nat /\ y \in Nat
    OBVIOUS
  <2>2. y < x => <<y, x>> \in OpToRel(<, Nat)
    BY <2>1 DEF OpToRel
  <2>3. ~(y < x)
    BY <1>1, <2>2
  <2> QED
    BY <2>1, <2>3
<1> QED
  BY <1>2 DEF Min

LEMMA FirstIn ==
  ASSUME Typed, NEW c \in Callers, call[c].left # {}
  PROVE  First(c) \in call[c].left /\ First(c) \in Children /\ call[c].left \subseteq Children
<1>1. call[c].left \subseteq Children
  BY DEF Typed, TypeOK
<1>2. call[c].left \in SUBSET Nat
  BY <1>1, RunsAssumption
<1> QED
  BY <1>1, <1>2, MinIn DEF First

RowType == [status : {"none", "running", "stopped", "finished"},
            name : (Texts \cup {""}) \X (Children \cup {0}), custom : BOOLEAN]

\* What an operation of the supervisor that answers r may do to a session:
\* nothing, or, if no rename holds its row, change its status or remove it.  A
\* worker is left behind on a row that ceases to run only by one that failed,
\* and the row is still there.
ControlStep(r) ==
  /\ rows' \in [Children -> RowType] /\ ips' \in [Children -> SUBSET IPs] /\ workers' \subseteq Children
  /\ \A s \in Children :
       \/ rows'[s] = rows[s] /\ ips'[s] = ips[s]
       \/ /\ Exists(s) /\ locks[s] = Free
          /\ \/ rows'[s] = NoRow /\ ips'[s] = {}
             \/ /\ rows'[s].status # "none" /\ rows'[s].name = rows[s].name
                /\ rows'[s].custom <=> rows[s].custom
                /\ ips'[s] = ips[s]
  /\ \A s \in workers' :
       \/ rows'[s].status = "running"
       \/ s \in workers /\ (Running(s) => rows'[s].status # "none" /\ r = "err" /\ Faults # {})

LEMMA StartControls ==
  ASSUME Typed, NEW s \in Children, NEW r, Start(s, r)
  PROVE  ControlStep("ok") /\ UNCHANGED <<rows, ips>>
BY DEF Typed, TypeOK, Start, ControlStep, Running, RowType

LEMMA StatusOnly ==
  ASSUME NEW w \in RowType, NEW x \in Statuses
  PROVE  /\ [w EXCEPT !.status = x] \in RowType
         /\ [w EXCEPT !.status = x].status = x
         /\ [w EXCEPT !.status = x].name = w.name
         /\ [w EXCEPT !.status = x].custom = w.custom
         /\ x = w.status => [w EXCEPT !.status = x] = w
BY DEF RowType, Statuses

\* Only the status of the row changes.
LEMMA StatusChange ==
  ASSUME Typed, NEW s \in Children, NEW x \in Statuses,
         rows' = [rows EXCEPT ![s].status = x]
  PROVE  /\ rows' \in [Children -> RowType]
         /\ rows'[s].status = x /\ rows'[s].name = rows[s].name /\ (rows'[s].custom <=> rows[s].custom)
         /\ x = rows[s].status => rows'[s] = rows[s]
         /\ \A u \in Children \ {s} : rows'[u] = rows[u]
<1>1. rows \in [Children -> RowType]
  BY DEF Typed, TypeOK, RowType
<1>2. rows[s] \in RowType
  BY <1>1
<1>3. rows' = [rows EXCEPT ![s] = [rows[s] EXCEPT !.status = x]]
  BY <1>1
<1> QED
  BY <1>1, <1>2, <1>3, StatusOnly

LEMMA NothingControls ==
  ASSUME Typed, UNCHANGED <<rows, ips, workers>>
  PROVE  ControlStep("ok")
BY DEF Typed, TypeOK, Running, RowType, ControlStep

\* A stop that fails changes the status of a running row at most, which it
\* does not remove, and never leaves a worker where there was none unless the
\* row runs.
LEMMA FailureOutcomes ==
  ASSUME NEW s \in Children, NEW o \in StopFailures(s)
  PROVE  /\ o.status \in Statuses /\ o.worker \in BOOLEAN /\ Faults # {}
         /\ o.status = rows[s].status \/ (Running(s) /\ o.status \in {"stopped", "finished"})
         /\ o.worker /\ s \notin workers => Running(s) /\ o.status = rows[s].status
BY DEF StopFailures, Statuses, Fault

LEMMA StopControls ==
  ASSUME Typed, NEW s \in Children, NEW r, Stop(s, r)
  PROVE  /\ ControlStep(r)
         /\ r # "err" => rows'[s].status # "running"
<1> USE DEF Typed, TypeOK, Running, Exists, RowType
<1>1. CASE /\ r # "err" /\ Running(s) /\ Unlocked({s})
           /\ rows' = [rows EXCEPT ![s].status = "stopped"] /\ workers' = workers \ {s} /\ ips' = ips
  <2>1. /\ rows' \in [Children -> RowType]
        /\ rows'[s].status = "stopped" /\ rows'[s].name = rows[s].name /\ (rows'[s].custom <=> rows[s].custom)
        /\ \A u \in Children \ {s} : rows'[u] = rows[u]
    BY <1>1, StatusChange DEF Statuses
  <2> QED
    BY <1>1, <2>1 DEF ControlStep, Unlocked
<1>2. CASE ~Running(s) /\ UNCHANGED <<rows, ips>> /\ workers' \subseteq workers
  BY <1>2 DEF ControlStep
<1>3. CASE r = "err" /\ StopFails(s) /\ UNCHANGED ips
  <2>1. PICK o \in StopFailures(s) :
          /\ o.status = rows[s].status \/ Unlocked({s})
          /\ rows' = [rows EXCEPT ![s].status = o.status]
          /\ workers' = IF o.worker THEN workers \cup {s} ELSE workers \ {s}
    BY <1>3 DEF StopFails
  <2>2. /\ o.status \in Statuses /\ o.worker \in BOOLEAN /\ Faults # {}
        /\ o.status = rows[s].status \/ (Running(s) /\ o.status \in {"stopped", "finished"})
        /\ o.worker /\ s \notin workers => Running(s) /\ o.status = rows[s].status
    BY FailureOutcomes
  <2>3. /\ rows' \in [Children -> RowType]
        /\ rows'[s].status = o.status /\ rows'[s].name = rows[s].name /\ (rows'[s].custom <=> rows[s].custom)
        /\ o.status = rows[s].status => rows'[s] = rows[s]
        /\ \A u \in Children \ {s} : rows'[u] = rows[u]
    BY <2>1, <2>2, StatusChange
  <2>4. workers' \subseteq Children /\ \A u \in workers' : u \in workers \/ (u = s /\ o.worker)
    BY <2>1
  <2>5. \A u \in workers' : \/ rows'[u].status = "running"
                            \/ u \in workers /\ (Running(u) => rows'[u].status # "none" /\ r = "err" /\ Faults # {})
    BY <1>3, <2>2, <2>3, <2>4
  <2>6. Running(s) /\ o.status # rows[s].status => locks[s] = Free
    BY <2>1 DEF Unlocked
  <2> QED
    BY <1>3, <2>2, <2>3, <2>4, <2>5, <2>6 DEF ControlStep
<1> QED
  BY <1>1, <1>2, <1>3 DEF Stop

LEMMA ReenableControls ==
  ASSUME Typed, NEW s \in Children, NEW r, ReenableSession(s, r)
  PROVE  /\ ControlStep("ok")
         /\ r # "err" => rows'[s].status \in {"running", "none"}
<1>1. CASE UNCHANGED <<rows, workers, ips>> /\ (r # "err" => rows[s].status \in {"running", "none"})
  BY <1>1, NothingControls
<1>2. CASE /\ Exists(s) /\ ~Running(s) /\ Unlocked({s})
           /\ rows' = [rows EXCEPT ![s].status = "running"]
           /\ workers' \in {workers, workers \cup {s}} /\ ips' = ips
  <2>1. /\ rows' \in [Children -> RowType]
        /\ rows'[s].status = "running" /\ rows'[s].name = rows[s].name /\ (rows'[s].custom <=> rows[s].custom)
        /\ \A u \in Children \ {s} : rows'[u] = rows[u]
    BY <1>2, StatusChange DEF Statuses
  <2> QED
    BY <1>2, <2>1 DEF ControlStep, Unlocked, Typed, TypeOK, Running, Exists
<1> QED
  BY <1>1, <1>2 DEF ReenableSession, Running, Exists

\* The stops of a deletion, before any row is removed.
LEMMA StopsEach ==
  ASSUME Typed, NEW T \in SUBSET Children
  PROVE  /\ StopEach(T) \in [Children -> RowType]
         /\ \A s \in Children :
              /\ s \notin RunningOf(T) => StopEach(T)[s] = rows[s]
              /\ s \in RunningOf(T) =>
                   /\ Running(s) /\ StopEach(T)[s].status = "stopped" /\ StopEach(T)[s].name = rows[s].name
                   /\ StopEach(T)[s].custom <=> rows[s].custom
<1>1. \A s \in Children : rows[s] \in RowType
  BY DEF Typed, TypeOK, RowType
<1>2. "stopped" \in Statuses
  BY DEF Statuses
<1> DEFINE Put(s) == [rows[s] EXCEPT !.status = "stopped"]
<1>3. \A s \in Children :
        /\ Put(s) \in RowType /\ Put(s).status = "stopped" /\ Put(s).name = rows[s].name
        /\ Put(s).custom <=> rows[s].custom
  BY <1>1, <1>2, StatusOnly
<1>4. StopEach(T) = [s \in Children |-> IF s \in T /\ Running(s) THEN Put(s) ELSE rows[s]]
  BY DEF StopEach
<1> HIDE DEF Put
<1>5. \A s \in Children : s \in RunningOf(T) <=> s \in T /\ Running(s)
  BY DEF RunningOf
<1> QED
  BY <1>1, <1>3, <1>4, <1>5

LEMMA DeleteAborted ==
  ASSUME Typed, NEW S \in SUBSET Children, DeleteAborts(S)
  PROVE  ControlStep("err")
<1>1. PICK T \in SUBSET (S \cap Stored) : \E f \in (S \cap Stored) \ T : \E o \in StopFailures(f) :
        /\ Unlocked(RunningOf(T)) /\ (o.status = rows[f].status \/ Unlocked({f}))
        /\ rows' = [StopEach(T) EXCEPT ![f].status = o.status]
        /\ workers' = IF o.worker THEN (workers \ RunningOf(T)) \cup {f} ELSE workers \ (RunningOf(T) \cup {f})
        /\ UNCHANGED ips
  BY DEF DeleteAborts
<1>2. PICK f \in (S \cap Stored) \ T : \E o \in StopFailures(f) :
        /\ Unlocked(RunningOf(T)) /\ (o.status = rows[f].status \/ Unlocked({f}))
        /\ rows' = [StopEach(T) EXCEPT ![f].status = o.status]
        /\ workers' = IF o.worker THEN (workers \ RunningOf(T)) \cup {f} ELSE workers \ (RunningOf(T) \cup {f})
        /\ UNCHANGED ips
  BY <1>1
<1>3. PICK o \in StopFailures(f) :
        /\ Unlocked(RunningOf(T)) /\ (o.status = rows[f].status \/ Unlocked({f}))
        /\ rows' = [StopEach(T) EXCEPT ![f].status = o.status]
        /\ workers' = IF o.worker THEN (workers \ RunningOf(T)) \cup {f} ELSE workers \ (RunningOf(T) \cup {f})
        /\ UNCHANGED ips
  BY <1>2
<1>4. T \subseteq Children /\ f \in Children /\ Exists(f) /\ f \notin RunningOf(T)
  BY DEF Stored, RunningOf
<1>5. /\ o.status \in Statuses /\ o.worker \in BOOLEAN /\ Faults # {}
      /\ o.status = rows[f].status \/ (Running(f) /\ o.status \in {"stopped", "finished"})
      /\ o.worker /\ f \notin workers => Running(f) /\ o.status = rows[f].status
  BY <1>4, FailureOutcomes
<1> DEFINE R == StopEach(T)
           n == [R[f] EXCEPT !.status = o.status]
<1>6. /\ R \in [Children -> RowType] /\ R[f] = rows[f]
      /\ \A s \in Children :
           /\ s \notin RunningOf(T) => R[s] = rows[s]
           /\ s \in RunningOf(T) => /\ Running(s) /\ R[s].status = "stopped" /\ R[s].name = rows[s].name
                                    /\ R[s].custom <=> rows[s].custom
  <2>1. /\ R \in [Children -> RowType]
        /\ \A s \in Children :
             /\ s \notin RunningOf(T) => R[s] = rows[s]
             /\ s \in RunningOf(T) => /\ Running(s) /\ R[s].status = "stopped" /\ R[s].name = rows[s].name
                                      /\ R[s].custom <=> rows[s].custom
    BY <1>4, StopsEach
  <2> QED
    BY <1>4, <2>1
<1>7. rows' = [R EXCEPT ![f] = n]
  BY <1>3, <1>6
<1> HIDE DEF R
<1>8. n \in RowType /\ n.status = o.status /\ n.name = rows[f].name /\ (n.custom <=> rows[f].custom)
      /\ (o.status = rows[f].status => n = rows[f])
  <2>1. R[f] \in RowType
    BY <1>4, <1>6
  <2> QED
    BY <1>5, <1>6, <2>1, StatusOnly
<1> HIDE DEF n
<1>9. /\ rows' \in [Children -> RowType] /\ rows'[f] = n
      /\ \A s \in Children \ {f} : rows'[s] = R[s]
  BY <1>4, <1>6, <1>7, <1>8
<1>10. ips' \in [Children -> SUBSET IPs] /\ workers' \subseteq Children
  BY <1>3, <1>4 DEF Typed, TypeOK
<1>11. ASSUME NEW s \in Children
       PROVE  \/ rows'[s] = rows[s] /\ ips'[s] = ips[s]
              \/ /\ Exists(s) /\ locks[s] = Free
                 /\ rows'[s].status # "none" /\ rows'[s].name = rows[s].name
                 /\ rows'[s].custom <=> rows[s].custom
                 /\ ips'[s] = ips[s]
  <2>1. CASE s = f
    BY <1>3, <1>4, <1>5, <1>8, <1>9, <2>1 DEF Unlocked
  <2>2. CASE s \in RunningOf(T)
    BY <1>3, <1>4, <1>6, <1>9, <2>2 DEF Unlocked, Running, Exists
  <2>3. CASE s \notin RunningOf(T) /\ s # f
    BY <1>3, <1>6, <1>9, <2>3
  <2> QED
    BY <2>1, <2>2, <2>3
<1>12. ASSUME NEW s \in workers'
       PROVE  \/ rows'[s].status = "running"
              \/ s \in workers /\ (Running(s) => rows'[s].status # "none" /\ Faults # {})
  <2>1. CASE s = f
    BY <1>3, <1>4, <1>5, <1>8, <1>9, <2>1 DEF Running
  <2>2. CASE s # f
    BY <1>3, <1>6, <1>9, <1>10, <2>2 DEF Running
  <2> QED
    BY <2>1, <2>2
<1> QED
  BY <1>9, <1>10, <1>11, <1>12 DEF ControlStep

LEMMA DeleteAllControls ==
  ASSUME Typed, NEW S \in SUBSET Children, NEW r, DeleteAll(S, r)
  PROVE  /\ ControlStep(r)
         /\ r = "ok" => \A s \in S : rows'[s].status = "none"
<1> USE DEF Typed, TypeOK
<1> DEFINE T == S \cap Stored
<1>1. CASE r = "err" /\ DeleteAborts(S)
  BY <1>1, DeleteAborted
<1>2. ASSUME NEW D \in SUBSET T, r = "ok" => D = T, Unlocked(D \cup RunningOf(T)),
             rows' = [s \in Children |-> IF s \in D THEN NoRow ELSE StopEach(T)[s]],
             workers' = workers \ RunningOf(T),
             ips' = [s \in Children |-> IF s \in D THEN {} ELSE ips[s]]
      PROVE  ControlStep(r) /\ (r = "ok" => \A s \in S : rows'[s].status = "none")
  <2>1. T \subseteq Children /\ \A s \in T : Exists(s)
    BY DEF Stored
  <2>2. /\ StopEach(T) \in [Children -> RowType]
        /\ \A s \in Children :
             /\ s \notin RunningOf(T) => StopEach(T)[s] = rows[s]
             /\ s \in RunningOf(T) =>
                  /\ Running(s) /\ StopEach(T)[s].status = "stopped" /\ StopEach(T)[s].name = rows[s].name
                  /\ StopEach(T)[s].custom <=> rows[s].custom
    BY <2>1, StopsEach
  <2>3. NoRow \in RowType /\ NoRow.status = "none"
    BY DEF NoRow, RowType
  <2>4. RunningOf(T) \subseteq T /\ \A s \in T : Running(s) => s \in RunningOf(T)
    BY DEF RunningOf
  <2>5. r = "ok" => \A s \in S : rows'[s].status = "none"
    <3>1. \A s \in S \ T : rows[s].status = "none" /\ s \notin RunningOf(T)
      BY <2>4 DEF Stored, Exists
    <3> QED
      BY <1>2, <2>2, <2>3, <3>1
  <2> HIDE DEF T
  <2>6. rows' \in [Children -> RowType] /\ ips' \in [Children -> SUBSET IPs] /\ workers' \subseteq Children
    BY <1>2, <2>1, <2>2, <2>3
  <2>7. ASSUME NEW s \in Children
        PROVE  \/ rows'[s] = rows[s] /\ ips'[s] = ips[s]
               \/ /\ Exists(s) /\ locks[s] = Free
                  /\ \/ rows'[s] = NoRow /\ ips'[s] = {}
                     \/ /\ rows'[s].status # "none" /\ rows'[s].name = rows[s].name
                        /\ rows'[s].custom <=> rows[s].custom
                        /\ ips'[s] = ips[s]
    BY <1>2, <2>1, <2>2, <2>3, <2>4 DEF Unlocked
  <2>8. ASSUME NEW s \in workers' PROVE s \in workers /\ (Running(s) => rows'[s].status = "running")
    BY <1>2, <2>2, <2>4, <2>8 DEF Running
  <2> QED
    BY <2>5, <2>6, <2>7, <2>8 DEF ControlStep
<1> QED
  BY <1>1, <1>2 DEF DeleteAll

LEMMA DeleteControls ==
  ASSUME Typed, NEW s \in Children, NEW r, Delete(s, r)
  PROVE  /\ ControlStep(r)
         /\ r # "err" => rows'[s].status = "none"
<1>1. CASE DeleteAll({s}, r)
  <2>1. r # "err" => r = "ok"
    BY <1>1 DEF DeleteAll
  <2> QED
    BY <1>1, <2>1, DeleteAllControls
<1>2. CASE r = "notFound" /\ ~Exists(s) /\ UNCHANGED <<rows, ips, workers>>
  BY <1>2 DEF Typed, TypeOK, Running, Exists, RowType, ControlStep
<1> QED
  BY <1>1, <1>2 DEF Delete

-----------------------------------------------------------------------------
(* A step of one caller.                                                   *)

\* The record of c changes and no other.
Moved(c) ==
  /\ call' \in [Callers -> CallType]
  /\ \A d \in Callers \ {c} : call'[d] = call[d]

\* Fields that most moves leave alone.
Kept(c) ==
  /\ call'[c].op = call[c].op /\ call'[c].arg = call[c].arg /\ call'[c].text = call[c].text
  /\ call'[c].listed = call[c].listed /\ call'[c].pending = call[c].pending
  /\ call'[c].confirmed <=> call[c].confirmed
  /\ call'[c].pool = call[c].pool /\ call'[c].res = call[c].res /\ call'[c].status = call[c].status

Ended(c, r) ==
  /\ call'[c].op = call[c].op /\ call'[c].pc = "done" /\ call'[c].res = r
  /\ call'[c].status = "none"

LEMMA SetMoves ==
  ASSUME Typed, NEW c \in Callers, NEW r \in CallType, Set(c, r)
  PROVE  Moved(c) /\ call'[c] = r
BY DEF Typed, Set, Moved

LEMMA NoCallTyped == NoCall \in CallType
BY DEF NoCall, CallType, OpNames, Pcs, Answers, Statuses

LEMMA DoneMoves ==
  ASSUME Typed, NEW c \in Callers, NEW r \in Answers, Done(c, r)
  PROVE  Moved(c) /\ Ended(c, r)
<1> DEFINE n == [NoCall EXCEPT !.op = call[c].op, !.pc = "done", !.res = r]
<1>1. call[c].op \in OpNames
  BY DEF Typed, CallType
<1>2. n \in CallType
  BY <1>1, NoCallTyped DEF CallType, Pcs
<1>3. n.op = call[c].op /\ n.pc = "done" /\ n.res = r /\ n.status = "none"
  BY DEF NoCall
<1>4. Set(c, n)
  BY DEF Done
<1> HIDE DEF n
<1> QED
  BY <1>2, <1>3, <1>4, SetMoves DEF Ended

LEMMA GotoMoves ==
  ASSUME Typed, NEW c \in Callers, NEW p \in Pcs, Goto(c, p)
  PROVE  Moved(c) /\ Kept(c) /\ call'[c].pc = p /\ call'[c].left = call[c].left
<1> DEFINE n == [call[c] EXCEPT !.pc = p]
<1>1. call[c] \in CallType
  BY DEF Typed
<1>2. n \in CallType
  BY <1>1 DEF CallType
<1>3. /\ n.pc = p /\ n.left = call[c].left
      /\ n.op = call[c].op /\ n.arg = call[c].arg /\ n.text = call[c].text
      /\ n.listed = call[c].listed /\ n.pending = call[c].pending /\ n.confirmed = call[c].confirmed
      /\ n.pool = call[c].pool /\ n.res = call[c].res /\ n.status = call[c].status
  BY <1>1 DEF CallType
<1>4. Set(c, n)
  BY DEF Goto
<1> HIDE DEF n
<1> QED
  BY <1>2, <1>3, <1>4, SetMoves DEF Kept

\* The loops start with the children L, and go on with those that remain.
LEMMA LoopMoves ==
  ASSUME Typed, NEW c \in Callers, NEW p \in Pcs, NEW L \in SUBSET Children,
         Set(c, [call[c] EXCEPT !.left = L, !.pc = p])
  PROVE  Moved(c) /\ Kept(c) /\ call'[c].pc = p /\ call'[c].left = L
<1> DEFINE n == [call[c] EXCEPT !.left = L, !.pc = p]
<1>1. call[c] \in CallType
  BY DEF Typed
<1>2. n \in CallType
  BY <1>1 DEF CallType
<1>3. /\ n.pc = p /\ n.left = L
      /\ n.op = call[c].op /\ n.arg = call[c].arg /\ n.text = call[c].text
      /\ n.listed = call[c].listed /\ n.pending = call[c].pending /\ n.confirmed = call[c].confirmed
      /\ n.pool = call[c].pool /\ n.res = call[c].res /\ n.status = call[c].status
  BY <1>1 DEF CallType
<1>4. Set(c, n)
  OBVIOUS
<1> HIDE DEF n
<1> QED
  BY <1>2, <1>3, <1>4, SetMoves DEF Kept

LEMMA VisitedMoves ==
  ASSUME Typed, NEW c \in Callers, NEW p \in Pcs, Visited(c, p), call[c].left # {}
  PROVE  /\ Moved(c) /\ Kept(c) /\ call'[c].left = call[c].left \ {First(c)}
         /\ call'[c].pc = IF call[c].left \ {First(c)} = {} THEN p ELSE call[c].pc
<1> DEFINE L == call[c].left \ {First(c)}
           q == IF L = {} THEN p ELSE call[c].pc
<1>1. call[c] \in CallType
  BY DEF Typed
<1>2. L \in SUBSET Children /\ q \in Pcs
  BY <1>1 DEF CallType
<1>3. Set(c, [call[c] EXCEPT !.left = L, !.pc = q])
  BY <1>1 DEF Visited, CallType
<1> HIDE DEF L, q
<1>4. Moved(c) /\ Kept(c) /\ call'[c].pc = q /\ call'[c].left = L
  BY <1>2, <1>3, LoopMoves
<1> QED
  BY <1>4 DEF L, q

-----------------------------------------------------------------------------
(* What the others may rely on while c takes a step, and what c owes.      *)

NameKept(s) ==
  Exists(s) /\ rows[s].custom /\ rows'[s].status # "none" =>
    /\ rows'[s].custom
    /\ rows'[s].name # rows[s].name => rows'[s].name[2] = 0

Effect(c) ==
  /\ Moved(c)
  /\ run' \in [state : {"unborn", "here", "deleted"}, name : Texts \cup {""}]
  /\ rows' \in [Children -> RowType] /\ ips' \in [Children -> SUBSET IPs] /\ workers' \subseteq Children
  /\ locks' \in [Children \cup {0} -> Callers \cup {Free}]
  /\ (run'.state = "unborn") <=> (run.state = "unborn")
  /\ run'.state = "deleted" => run.state = "deleted" \/ \A s \in Children : rows'[s].status = "none"
  /\ \A r \in Children \cup {0} :
       \/ locks'[r] = locks[r]
       \/ locks[r] = Free /\ locks'[r] = c
       \/ locks[r] = c /\ locks'[r] = Free
  /\ \A s \in Children :
       /\ rows'[s].status # "none" => Exists(s)
       /\ rows'[s].status # "none" /\ ~rows'[s].custom => Generated(s)
       /\ locks[s] \notin {Free, c} => rows'[s] = rows[s]
       /\ NameKept(s)
  /\ \A s \in workers' :
       \/ rows'[s].status = "running"
       \/ s \in workers /\ (Running(s) => rows'[s].status # "none" /\ Faults # {} /\ NoSuccess)
  /\ \A s \in Children : rows'[s].status = "none" => ips'[s] = {}
  /\ \A s \in Children : rows'[s].status # "none" /\ ~rows'[s].custom => rows'[s].name = VariantName(run'.name, s)

\* A handler goes on with its request or returns.
Step(c) == Effect(c) /\ call'[c].op \in {call[c].op, "none"} /\ call'[c].pc # "insert"

\* The parts of the invariant about c.
Own(c) ==
  /\ Placed(c)
  /\ call[c].pc \in {"start", "cleanup", "drop", "cascade"} => run.state # "unborn"
  /\ Gone(c) /\ LockPlaces(c) /\ Rename(c)

LEMMA ControlHasEffect ==
  ASSUME Inv, NEW c, Moved(c), NEW r, ControlStep(r), r = "err" => NoSuccess, UNCHANGED <<run, locks>>
  PROVE  Effect(c)
<1> USE DEF Inv, Typed, TypeOK, ControlStep, Exists, Generated, RowsOwn, NamesFollow
<1>1. \A s \in Children : NoRow.status = "none" /\ VariantName(run'.name, s) = VariantName(run.name, s)
  BY DEF NoRow, VariantName
<1>2. ASSUME NEW s \in Children
      PROVE  /\ rows'[s].status # "none" => Exists(s)
             /\ rows'[s].status # "none" /\ ~rows'[s].custom => Generated(s)
             /\ locks[s] \notin {Free, c} => rows'[s] = rows[s]
             /\ rows'[s].status = "none" => ips'[s] = {}
             /\ rows'[s].status # "none" /\ ~rows'[s].custom => rows'[s].name = VariantName(run'.name, s)
             /\ NameKept(s)
  BY <1>1 DEF NameKept
<1> QED
  BY <1>2 DEF Effect

\* The request of c tells nobody of a success when the operation failed.
LEMMA ControlGivesStep ==
  ASSUME Inv, NEW c \in Callers, Moved(c), NEW r, ControlStep(r), UNCHANGED <<run, locks>>,
         r = "err" => call'[c].res = "err" \/ ~call'[c].confirmed,
         call'[c].op \in {call[c].op, "none"}, call'[c].pc # "insert"
  PROVE  Step(c)
<1>1. r = "err" => NoSuccess
  BY DEF Moved, NoSuccess
<1> QED
  BY <1>1, ControlHasEffect DEF Step

LEMMA QuietGivesStep ==
  ASSUME Inv, NEW c \in Callers, Moved(c), UNCHANGED <<run, rows, ips, locks, workers>>,
         call'[c].op \in {call[c].op, "none"}, call'[c].pc # "insert"
  PROVE  Step(c)
<1>1. ControlStep("ok")
  BY NothingControls DEF Inv
<1> QED
  BY <1>1, ControlGivesStep

\* Away from the transactions a caller holds no lock and renames nothing.
Holding == {"cascade", "params", "child", "commit"}
LEMMA NothingHeld ==
  ASSUME Inv, NEW c \in Callers, call[c].pc \notin Holding, call'[c].pc \notin Holding, UNCHANGED locks
  PROVE  LockPlaces(c)' /\ Rename(c)'
<1>1. LockPlaces(c)
  BY DEF Inv
<1> QED
  BY <1>1 DEF LockPlaces, Rename, Holding

LEMMA EndedOwns ==
  ASSUME Inv, NEW c \in Callers, NEW r, Ended(c, r), call[c].pc # "idle",
         call[c].pc \notin Holding, UNCHANGED locks
  PROVE  Own(c)'
<1>1. call[c].op # "none"
  BY DEF Inv, Typed, Placed
<1>2. LockPlaces(c)' /\ Rename(c)'
  BY NothingHeld DEF Ended, Holding
<1> QED
  BY <1>1, <1>2 DEF Own, Placed, Gone, Ended

LEMMA QuietEnds ==
  ASSUME Inv, NEW c \in Callers, NEW r \in Answers, Done(c, r), call[c].pc # "idle",
         call[c].pc \notin Holding, UNCHANGED <<run, rows, ips, locks, workers>>
  PROVE  Step(c) /\ Own(c)' /\ Ended(c, r)
<1>1. Moved(c) /\ Ended(c, r)
  BY DoneMoves DEF Inv
<1>2. Step(c)
  BY <1>1, QuietGivesStep DEF Ended
<1> QED
  BY <1>1, <1>2, EndedOwns

LEMMA ControlEnds ==
  ASSUME Inv, NEW c \in Callers, NEW r \in Answers, Done(c, r), call[c].pc # "idle",
         call[c].pc \notin Holding, ControlStep(r) \/ ControlStep("ok"), UNCHANGED <<run, locks>>
  PROVE  Step(c) /\ Own(c)' /\ Ended(c, r)
<1>1. Moved(c) /\ Ended(c, r)
  BY DoneMoves DEF Inv
<1>2. Step(c)
  BY <1>1, ControlGivesStep DEF Ended
<1> QED
  BY <1>1, <1>2, EndedOwns

\* The move says nothing about a fan-out or a report.
Aside(c) ==
  call'[c].op \in {"stopRun", "reenableRun", "runReport"} =>
    /\ call'[c].pc \notin {"each", "summary"}
    /\ call'[c].pc = "done" => call'[c].res # "ok"

-----------------------------------------------------------------------------
(* One lemma per action: reading steps.                                    *)

LEMMA ReturnKeeps ==
  ASSUME Inv, NEW c \in Callers, Return(c)
  PROVE  Step(c) /\ Own(c)' /\ Aside(c)
<1>1. Moved(c) /\ call'[c] = NoCall
  BY SetMoves, NoCallTyped DEF Inv, Return
<1>2. call'[c].op = "none" /\ call'[c].pc = "idle"
  <2>1. NoCall.op = "none" /\ NoCall.pc = "idle"
    BY DEF NoCall
  <2> QED
    BY <1>1, <2>1
<1>3. Step(c)
  BY <1>1, <1>2, QuietGivesStep DEF Return
<1>4. LockPlaces(c)' /\ Rename(c)'
  BY <1>2, NothingHeld DEF Return, Holding
<1> QED
  BY <1>2, <1>3, <1>4 DEF Own, Placed, Gone, Aside

LEMMA FindRunKeeps ==
  ASSUME Inv, NEW c \in Callers, FindRun(c)
  PROVE  Step(c) /\ Own(c)' /\ Aside(c)
<1>1. Placed(c)
  BY DEF Inv, Typed
<1>2. CASE Goto(c, "list")
  <2>1. Moved(c) /\ Kept(c) /\ call'[c].pc = "list"
    BY <1>2, GotoMoves DEF Inv, Pcs
  <2>2. Step(c)
    BY <2>1, QuietGivesStep DEF FindRun, Kept
  <2>3. LockPlaces(c)' /\ Rename(c)'
    BY <2>1, NothingHeld DEF FindRun, Holding
  <2> QED
    BY <1>1, <2>1, <2>2, <2>3 DEF FindRun, Own, Placed, Gone, Kept, Aside
<1>3. ASSUME NEW r \in {"notFound", "err"}, Done(c, r)
      PROVE  Step(c) /\ Own(c)' /\ Aside(c)
  <2>1. Step(c) /\ Own(c)' /\ Ended(c, r)
    BY <1>3, QuietEnds DEF FindRun, Answers, Holding
  <2> QED
    BY <2>1 DEF Ended, Aside
<1> QED
  BY <1>2, <1>3 DEF FindRun

LEMMA ListChildrenKeeps ==
  ASSUME Inv, NEW c \in Callers, ListChildren(c)
  PROVE  /\ Step(c) /\ Own(c)'
         /\ Aside(c) \/ /\ call'[c].op = call[c].op /\ call[c].op \in {"stopRun", "reenableRun"}
                        /\ call'[c].pc = IF Stored = {} THEN "summary" ELSE "each"
                        /\ call'[c].left = Stored
<1> DEFINE p == CASE call[c].op = "deleteRun" -> "batch"
                  [] call[c].op = "runReport" -> "observe"
                  [] OTHER -> IF RunSessions = {} THEN "summary" ELSE "each"
           n == [call[c] EXCEPT !.left = RunSessions, !.listed = RunSessions, !.pc = p]
<1>1. Placed(c) /\ call[c].pc = "list" /\ call[c] \in CallType
  BY DEF Inv, Typed, ListChildren
<1>2. CASE Set(c, n)
  <2>1. /\ p \in Pcs /\ RunSessions = Stored /\ Stored \subseteq Children
        /\ p \in {"batch", "observe", "summary", "each"}
        /\ p = "batch" => call[c].op = "deleteRun"
        /\ p = "observe" => call[c].op = "runReport"
        /\ p \in {"summary", "each"} => /\ call[c].op \in {"stopRun", "reenableRun"}
                                        /\ p = IF Stored = {} THEN "summary" ELSE "each"
    <3>1. call[c].op \in {"stopRun", "reenableRun", "deleteRun", "runReport"}
      BY <1>1 DEF Placed
    <3>2. RunSessions = Stored /\ Stored \subseteq Children
      BY DEF RunSessions, Stored
    <3>3. CASE call[c].op = "deleteRun"
      BY <3>2, <3>3 DEF Pcs
    <3>4. CASE call[c].op = "runReport"
      BY <3>2, <3>4 DEF Pcs
    <3>5. CASE call[c].op \notin {"deleteRun", "runReport"} /\ RunSessions = {}
      <4>1. p = "summary"
        BY <3>5
      <4> QED
        BY <3>1, <3>2, <3>5, <4>1 DEF Pcs
    <3>6. CASE call[c].op \notin {"deleteRun", "runReport"} /\ RunSessions # {}
      <4>1. p = "each"
        BY <3>6
      <4> QED
        BY <3>1, <3>2, <3>6, <4>1 DEF Pcs
    <3> QED
      BY <3>1, <3>3, <3>4, <3>5, <3>6
  <2> HIDE DEF p
  <2>2. n \in CallType /\ n.left = Stored /\ n.listed = Stored /\ n.pc = p /\ n.op = call[c].op
    BY <1>1, <2>1 DEF CallType
  <2>3. Moved(c) /\ call'[c] = n
    BY <1>2, <2>2, SetMoves DEF Inv
  <2>4. call'[c].left = Stored /\ call'[c].listed = Stored /\ call'[c].pc = p /\ call'[c].op = call[c].op
    BY <2>2, <2>3
  <2>5. Step(c)
    BY <2>1, <2>3, <2>4, QuietGivesStep DEF ListChildren
  <2>6. LockPlaces(c)' /\ Rename(c)'
    BY <1>1, <2>1, <2>4, NothingHeld DEF ListChildren, Holding
  <2>7. Placed(c)'
    BY <1>1, <2>1, <2>4 DEF Placed
  <2>8. Gone(c)'
    BY <2>1, <2>4 DEF Gone, Stored, Exists, ListChildren
  <2>9. Own(c)'
    BY <2>1, <2>4, <2>6, <2>7, <2>8 DEF Own
  <2> QED
    BY <1>1, <2>1, <2>4, <2>5, <2>9 DEF Aside, Placed
<1>3. CASE Done(c, "err")
  <2>1. Step(c) /\ Own(c)' /\ Ended(c, "err")
    BY <1>3, QuietEnds DEF ListChildren, Answers, Holding
  <2> QED
    BY <2>1 DEF Ended, Aside
<1> QED
  BY <1>2, <1>3 DEF ListChildren

LEMMA SummarizeKeeps ==
  ASSUME Inv, NEW c \in Callers, Summarize(c)
  PROVE  /\ Step(c) /\ Own(c)' /\ call'[c].op = call[c].op /\ call'[c].pc = "done"
         /\ call'[c].res = "ok" => call'[c].status = RunByID.status
<1> DEFINE n == [NoCall EXCEPT !.op = call[c].op, !.pc = "done", !.res = "ok", !.status = RunByID.status]
<1>1. Placed(c) /\ call[c].pc = "summary" /\ call[c] \in CallType
  BY DEF Inv, Typed, Summarize
<1>2. CASE Set(c, n)
  <2>1. RunByID.status \in Statuses
    BY DEF RunByID, DeriveRunStatus, Statuses
  <2>2. n \in CallType
    BY <1>1, <2>1, NoCallTyped DEF CallType, Pcs, Answers
  <2>3. n.op = call[c].op /\ n.pc = "done" /\ n.res = "ok" /\ n.status = RunByID.status
    BY DEF NoCall
  <2> HIDE DEF n
  <2>4. Moved(c) /\ call'[c] = n
    BY <1>2, <2>2, SetMoves DEF Inv
  <2>5. Step(c)
    BY <2>3, <2>4, QuietGivesStep DEF Summarize
  <2>6. LockPlaces(c)' /\ Rename(c)'
    BY <1>1, <2>3, <2>4, NothingHeld DEF Summarize, Holding
  <2> QED
    BY <1>1, <2>3, <2>4, <2>5, <2>6 DEF Own, Placed, Gone
<1>3. ASSUME NEW r \in {"notFound", "err"}, Done(c, r)
      PROVE  Step(c) /\ Own(c)' /\ Ended(c, r)
  BY <1>3, QuietEnds DEF Summarize, Answers, Holding
<1> QED
  BY <1>2, <1>3 DEF Summarize, Ended

LEMMA ReadObservationsKeeps ==
  ASSUME Inv, NEW c \in Callers, ReadObservations(c)
  PROVE  /\ Step(c) /\ Own(c)' /\ call'[c].op = "runReport" /\ call'[c].pc = "done"
         /\ call'[c].res = "ok" => \A p \in call'[c].pool : p[1] \in call'[c].listed
<1>1. Placed(c) /\ call[c].pc = "observe" /\ call[c].op = "runReport" /\ call[c] \in CallType
  BY DEF Inv, Typed, ReadObservations, At
<1>2. ASSUME NEW O \in RunIPObservations,
             Set(c, [call[c] EXCEPT !.pc = "done", !.res = "ok", !.left = {}, !.pool = O])
      PROVE  /\ Step(c) /\ Own(c)' /\ call'[c].op = "runReport" /\ call'[c].pc = "done"
             /\ \A p \in call'[c].pool : p[1] \in call'[c].listed
  <2> DEFINE n == [call[c] EXCEPT !.pc = "done", !.res = "ok", !.left = {}, !.pool = O]
  <2>1. O \subseteq Observations /\ Observations \subseteq Children \X IPs
    BY DEF RunIPObservations, Observations
  <2>2. \A p \in Observations : p[1] \in Children /\ p[2] \in ips[p[1]]
    BY DEF Observations
  <2>3. \A p \in O : p[1] \in call[c].listed
    BY <1>1, <2>1, <2>2 DEF Inv, RowsOwn, Gone
  <2>4. n \in CallType
    BY <1>1, <2>1 DEF CallType, Pcs, Answers
  <2>5. n.op = call[c].op /\ n.pc = "done" /\ n.pool = O /\ n.listed = call[c].listed
    BY <1>1 DEF CallType
  <2>6. Set(c, n)
    BY <1>2
  <2> HIDE DEF n
  <2>7. Moved(c) /\ call'[c] = n
    BY <2>4, <2>6, SetMoves DEF Inv
  <2>8. Step(c)
    BY <2>5, <2>7, QuietGivesStep DEF ReadObservations
  <2>9. LockPlaces(c)' /\ Rename(c)'
    BY <1>1, <2>5, <2>7, NothingHeld DEF ReadObservations, Holding
  <2> QED
    BY <1>1, <2>3, <2>5, <2>7, <2>8, <2>9 DEF Own, Placed, Gone
<1>3. CASE Done(c, "err")
  <2>1. Step(c) /\ Own(c)' /\ Ended(c, "err")
    BY <1>1, <1>3, QuietEnds DEF ReadObservations, Answers, Holding
  <2> QED
    BY <1>1, <2>1 DEF Ended
<1> QED
  BY <1>2, <1>3 DEF ReadObservations

LEMMA RereadSessionKeeps ==
  ASSUME Inv, NEW c \in Callers, RereadSession(c)
  PROVE  Step(c) /\ Own(c)' /\ Aside(c)
<1>1. Placed(c) /\ call[c].pc = "reread"
  BY DEF Inv, Typed, RereadSession
<1>2. ASSUME NEW r \in {"ok", "notFound", "err"}, Done(c, r)
      PROVE  Step(c) /\ Own(c)' /\ Aside(c)
  <2>1. Step(c) /\ Own(c)' /\ Ended(c, r)
    BY <1>1, <1>2, QuietEnds DEF RereadSession, Answers, Holding
  <2> QED
    BY <1>1, <2>1 DEF Ended, Aside, Placed
<1> QED
  BY <1>2 DEF RereadSession

-----------------------------------------------------------------------------
(* Steps that operate on a session.                                        *)

LEMMA CreateRunStartKeeps ==
  ASSUME Inv, NEW c \in Callers, CreateRunStart(c)
  PROVE  Step(c) /\ Own(c)' /\ Aside(c)
<1>1. /\ Placed(c) /\ call[c].pc = "start" /\ call[c].op = "createRun" /\ call[c].left # {}
      /\ Typed /\ RowsOwn /\ run.state # "unborn" /\ UNCHANGED <<run, locks>>
  BY DEF Inv, Typed, CreateRunStart, At, Placed, Life
<1>2. First(c) \in Children
  BY <1>1, FirstIn
<1>3. PICK r \in {"ok", "notRunning", "notFound", "err"} :
        /\ Start(First(c), r)
        /\ IF r = "err" THEN Set(c, [call[c] EXCEPT !.pc = "cleanup", !.left = Children])
           ELSE IF call[c].left = {First(c)} THEN Done(c, "ok") ELSE Visited(c, "start")
  BY DEF CreateRunStart
<1>4. ControlStep("ok")
  BY <1>1, <1>2, <1>3, StartControls
<1>5. CASE Done(c, "ok")
  <2>1. Step(c) /\ Own(c)' /\ Ended(c, "ok")
    BY <1>1, <1>4, <1>5, ControlEnds DEF Answers, Holding
  <2> QED
    BY <1>1, <2>1 DEF Ended, Aside
<1>6. CASE \/ Set(c, [call[c] EXCEPT !.pc = "cleanup", !.left = Children])
           \/ Visited(c, "start") /\ call[c].left # {First(c)}
  <2>1. /\ Moved(c) /\ Kept(c) /\ call'[c].left # {}
        /\ \/ call'[c].pc = "cleanup" /\ call'[c].left = Children
           \/ call'[c].pc = "start"
    <3>1. CASE Set(c, [call[c] EXCEPT !.pc = "cleanup", !.left = Children])
      <4>1. Set(c, [call[c] EXCEPT !.left = Children, !.pc = "cleanup"])
        BY <1>1, <3>1 DEF Typed, CallType
      <4>2. "cleanup" \in Pcs /\ Children # {}
        BY RunsAssumption DEF Pcs
      <4> QED
        BY <1>1, <4>1, <4>2, LoopMoves
    <3>2. CASE Visited(c, "start") /\ call[c].left # {First(c)}
      <4>1. "start" \in Pcs
        BY DEF Pcs
      <4>2. call[c].left \ {First(c)} # {}
        BY <1>1, <3>2
      <4> QED
        BY <1>1, <3>2, <4>1, <4>2, VisitedMoves
    <3> QED
      BY <1>6, <3>1, <3>2
  <2>2. Step(c)
    BY <1>1, <1>4, <2>1, ControlGivesStep DEF Kept
  <2>3. LockPlaces(c)' /\ Rename(c)'
    BY <1>1, <2>1, NothingHeld DEF Holding
  <2> QED
    BY <1>1, <2>1, <2>2, <2>3 DEF Own, Placed, Gone, Kept, Aside
<1> QED
  BY <1>3, <1>5, <1>6

LEMMA CreateRunCleanupKeeps ==
  ASSUME Inv, NEW c \in Callers, CreateRunCleanup(c)
  PROVE  Step(c) /\ Own(c)' /\ Aside(c)
<1>1. /\ Placed(c) /\ call[c].pc = "cleanup" /\ call[c].op = "createRun" /\ call[c].left # {}
      /\ Typed /\ RowsOwn /\ run.state # "unborn" /\ call[c] \in CallType /\ Gone(c) /\ UNCHANGED <<run, locks>>
  BY DEF Inv, Typed, CreateRunCleanup, At, Placed, Life
<1>2. First(c) \in Children /\ call[c].left \subseteq Children
  BY <1>1, FirstIn
<1> DEFINE L == call[c].left \ {First(c)}
<1>3. PICK r \in {"ok", "notFound", "err"} :
        /\ Delete(First(c), r)
        /\ Set(c, [call[c] EXCEPT !.left = L, !.confirmed = call[c].confirmed /\ r # "err",
                     !.pc = IF L # {} THEN call[c].pc
                            ELSE IF call[c].confirmed /\ r # "err" THEN "drop" ELSE "done",
                     !.res = IF L = {} /\ ~(call[c].confirmed /\ r # "err") THEN "err" ELSE call[c].res])
  BY <1>1 DEF CreateRunCleanup, CallType
<1>4. ControlStep(r) /\ (r # "err" => rows'[First(c)].status = "none")
  BY <1>1, <1>2, <1>3, DeleteControls
<1> DEFINE sure == call[c].confirmed /\ r # "err"
           p == IF L # {} THEN call[c].pc ELSE IF sure THEN "drop" ELSE "done"
           a == IF L = {} /\ ~sure THEN "err" ELSE call[c].res
           n == [call[c] EXCEPT !.left = L, !.confirmed = sure, !.pc = p, !.res = a]
<1>5. /\ sure \in BOOLEAN /\ p \in {"cleanup", "drop", "done"} /\ a \in Answers /\ L \subseteq Children
      /\ p = "cleanup" => L # {}
      /\ p = "drop" => L = {} /\ sure
      /\ sure => call[c].confirmed /\ r # "err"
  BY <1>1, <1>2 DEF CallType, Answers
<1>6. Set(c, n)
  BY <1>3
<1> HIDE DEF L, sure, p, a
<1>7. n \in CallType
  BY <1>1, <1>5 DEF CallType, Pcs
<1>8. n.left = L /\ n.confirmed = sure /\ n.pc = p /\ n.op = call[c].op
  BY <1>1 DEF CallType
<1> HIDE DEF n
<1>9. Moved(c) /\ call'[c] = n
  BY <1>1, <1>6, <1>7, SetMoves
<1>10. call'[c].left = L /\ (call'[c].confirmed <=> sure) /\ call'[c].pc = p /\ call'[c].op = "createRun"
  BY <1>1, <1>8, <1>9
<1>11. Step(c)
  BY <1>1, <1>4, <1>5, <1>9, <1>10, ControlGivesStep
<1>12. LockPlaces(c)' /\ Rename(c)'
  BY <1>1, <1>5, <1>10, NothingHeld DEF Holding
<1>13. sure => \A s \in Children \ L : rows'[s].status = "none"
  BY <1>1, <1>4, <1>5, <1>11 DEF Gone, Step, Effect, L, Exists
<1>14. Gone(c)'
  BY <1>5, <1>10, <1>13 DEF Gone, Exists
<1>15. Placed(c)'
  BY <1>5, <1>10 DEF Placed
<1> QED
  BY <1>1, <1>10, <1>11, <1>12, <1>14, <1>15 DEF Own, Aside

LEMMA FanOutKeeps ==
  ASSUME Inv, NEW c \in Callers, FanOut(c)
  PROVE  /\ Step(c) /\ Own(c)' /\ call'[c].op = call[c].op
         /\ \/ call'[c].pc = "done" /\ call'[c].res = "err"
            \/ /\ call'[c].left = call[c].left \ {First(c)} /\ First(c) \in Children
               /\ call'[c].pc = IF call[c].left \ {First(c)} = {} THEN "summary" ELSE "each"
               /\ Wanted(call[c].op, rows'[First(c)].status)
<1>1. /\ Placed(c) /\ call[c].pc = "each" /\ call[c].op \in {"stopRun", "reenableRun"} /\ call[c].left # {}
      /\ Typed /\ RowsOwn /\ UNCHANGED <<run, locks>>
  BY DEF Inv, Typed, FanOut, Placed
<1>2. First(c) \in Children
  BY <1>1, FirstIn
<1>3. PICK r \in {"ok", "notRunning", "alreadyRunning", "notFound", "err"} :
        /\ IF call[c].op = "stopRun" THEN Stop(First(c), r) ELSE ReenableSession(First(c), r)
        /\ IF r = "err" THEN Done(c, "err") ELSE Visited(c, "summary")
  BY DEF FanOut
<1>4. /\ ControlStep(r) \/ ControlStep("ok")
      /\ r # "err" => Wanted(call[c].op, rows'[First(c)].status)
  BY <1>1, <1>2, <1>3, StopControls, ReenableControls DEF Wanted
<1>5. CASE r = "err"
  <2>1. Step(c) /\ Own(c)' /\ Ended(c, "err")
    BY <1>1, <1>3, <1>4, <1>5, ControlEnds DEF Answers, Holding
  <2> QED
    BY <1>1, <2>1 DEF Ended
<1>6. CASE r # "err"
  <2>1. "summary" \in Pcs
    BY DEF Pcs
  <2>2. /\ Moved(c) /\ Kept(c) /\ call'[c].left = call[c].left \ {First(c)}
        /\ call'[c].pc = IF call[c].left \ {First(c)} = {} THEN "summary" ELSE "each"
    BY <1>1, <1>3, <1>6, <2>1, VisitedMoves
  <2>3. Step(c)
    BY <1>1, <1>4, <1>6, <2>2, ControlGivesStep DEF Kept
  <2>4. LockPlaces(c)' /\ Rename(c)'
    BY <1>1, <2>2, NothingHeld DEF Holding
  <2> QED
    BY <1>1, <1>2, <1>4, <1>6, <2>2, <2>3, <2>4 DEF Own, Placed, Gone, Kept
<1> QED
  BY <1>5, <1>6

LEMMA DeleteRunBatchKeeps ==
  ASSUME Inv, NEW c \in Callers, DeleteRunBatch(c)
  PROVE  Step(c) /\ Own(c)' /\ Aside(c)
<1>1. /\ Placed(c) /\ call[c].pc = "batch" /\ call[c].op = "deleteRun" /\ call[c].listed \in SUBSET Children
      /\ Typed /\ RowsOwn /\ Gone(c) /\ run.state # "unborn" /\ UNCHANGED <<run, locks>>
  BY DEF Inv, Typed, DeleteRunBatch, At, CallType, Life
<1>2. PICK r \in {"ok", "err"} :
        /\ DeleteAll(call[c].listed, r)
        /\ IF r = "ok" THEN Goto(c, "drop") ELSE Done(c, "err")
  BY DEF DeleteRunBatch
<1>3. ControlStep(r) /\ (r = "ok" => \A s \in call[c].listed : rows'[s].status = "none")
  BY <1>1, <1>2, DeleteAllControls
<1>4. CASE r = "ok"
  <2>1. "drop" \in Pcs
    BY DEF Pcs
  <2>2. Moved(c) /\ Kept(c) /\ call'[c].pc = "drop"
    BY <1>1, <1>2, <1>4, <2>1, GotoMoves
  <2>3. Step(c)
    BY <1>1, <1>3, <1>4, <2>2, ControlGivesStep DEF Kept
  <2>4. LockPlaces(c)' /\ Rename(c)'
    BY <1>1, <2>2, NothingHeld DEF Holding
  <2>5. Gone(c)'
    BY <1>1, <1>3, <1>4, <2>2, <2>3 DEF Gone, Step, Effect, Exists
  <2> QED
    BY <1>1, <2>2, <2>3, <2>4, <2>5 DEF Own, Placed, Kept, Aside
<1>5. CASE r = "err"
  <2>1. Step(c) /\ Own(c)' /\ Ended(c, "err")
    BY <1>1, <1>2, <1>3, <1>5, ControlEnds DEF Answers, Holding
  <2> QED
    BY <1>1, <2>1 DEF Ended, Aside
<1> QED
  BY <1>4, <1>5

LEMMA SessionRequestKeeps ==
  ASSUME Inv, NEW c \in Callers, SessionRequest(c)
  PROVE  Step(c) /\ Own(c)' /\ Aside(c)
<1>1. /\ Placed(c) /\ call[c].pc = "do" /\ call[c].op \in {"stop", "reenable", "delete"} /\ call[c].arg \in Children
      /\ Typed /\ RowsOwn /\ UNCHANGED <<run, locks>>
  BY DEF Inv, Typed, SessionRequest, Placed
<1>2. PICK r \in {"ok", "notRunning", "alreadyRunning", "notFound", "err"} :
        /\ CASE call[c].op = "stop"     -> Stop(call[c].arg, r)
             [] call[c].op = "reenable" -> ReenableSession(call[c].arg, r)
             [] OTHER                   -> Delete(call[c].arg, r)
        /\ IF call[c].op = "reenable" /\ r = "ok" THEN Goto(c, "reread") ELSE Done(c, r)
  BY DEF SessionRequest
<1>3. ControlStep(r) \/ ControlStep("ok")
  <2>1. Stop(call[c].arg, r) \/ ReenableSession(call[c].arg, r) \/ Delete(call[c].arg, r)
    BY <1>1, <1>2
  <2> QED
    BY <1>1, <2>1, StopControls, ReenableControls, DeleteControls
<1>4. CASE call[c].op = "reenable" /\ r = "ok" /\ Goto(c, "reread")
  <2>1. "reread" \in Pcs
    BY DEF Pcs
  <2>2. Moved(c) /\ Kept(c) /\ call'[c].pc = "reread"
    BY <1>1, <1>4, <2>1, GotoMoves
  <2>3. Step(c)
    BY <1>1, <1>3, <1>4, <2>2, ControlGivesStep DEF Kept
  <2>4. LockPlaces(c)' /\ Rename(c)'
    BY <1>1, <2>2, NothingHeld DEF Holding
  <2> QED
    BY <1>1, <1>4, <2>2, <2>3, <2>4 DEF Own, Placed, Gone, Kept, Aside
<1>5. CASE Done(c, r)
  <2>1. Step(c) /\ Own(c)' /\ Ended(c, r)
    BY <1>1, <1>3, <1>5, ControlEnds DEF Answers, Holding
  <2> QED
    BY <1>1, <2>1 DEF Ended, Aside
<1> QED
  BY <1>2, <1>4, <1>5

-----------------------------------------------------------------------------
(* Steps that take or release row locks.                                   *)

\* A step that changes neither run nor rows, but may change locks of its own.
LEMMA LockGivesStep ==
  ASSUME Inv, NEW c \in Callers, Moved(c), UNCHANGED <<run, rows, ips, workers>>,
         locks' \in [Children \cup {0} -> Callers \cup {Free}],
         \A r \in Children \cup {0} : \/ locks'[r] = locks[r]
                                      \/ locks[r] = Free /\ locks'[r] = c
                                      \/ locks[r] = c /\ locks'[r] = Free,
         call'[c].op \in {call[c].op, "none"}, call'[c].pc # "insert"
  PROVE  Step(c)
<1>1. rows \in [Children -> RowType]
  BY DEF Inv, Typed, TypeOK, RowType
<1>2. \A s \in Children : VariantName(run'.name, s) = VariantName(run.name, s)
  BY DEF VariantName
<1> QED
  BY <1>1, <1>2
  DEF Step, Effect, NameKept, Inv, Typed, TypeOK, Exists, Generated, RowsOwn, NamesFollow, Running

\* All locks of c are free after a commit or a rollback.
LEMMA Released ==
  ASSUME Inv, NEW c \in Callers, ReleaseLocks(c)
  PROVE  /\ locks' \in [Children \cup {0} -> Callers \cup {Free}]
         /\ \A r \in Children \cup {0} : /\ locks'[r] # c
                                         /\ locks'[r] = locks[r] \/ (locks[r] = c /\ locks'[r] = Free)
BY RunsAssumption DEF Inv, Typed, TypeOK, ReleaseLocks

\* A caller outside of a transaction holds no lock.
LEMMA HoldsNone ==
  ASSUME Inv, NEW c \in Callers, call[c].pc \notin Holding, NEW r \in Children \cup {0}
  PROVE  locks[r] # c
BY DEF Inv, LockPlaces, Holding

LEMMA DropRunKeeps ==
  ASSUME Inv, NEW c \in Callers, DropRun(c)
  PROVE  Step(c) /\ Own(c)' /\ Aside(c)
<1>1. /\ Placed(c) /\ call[c].pc = "drop" /\ call[c].op \in {"createRun", "deleteRun"}
      /\ Typed /\ Gone(c) /\ run.state # "unborn" /\ UNCHANGED <<run, rows, ips, workers>>
      /\ locks \in [Children \cup {0} -> Callers \cup {Free}]
  BY DEF Inv, Typed, TypeOK, DropRun, Life
<1>2. CASE Unlocked({0}) /\ locks' = [locks EXCEPT ![0] = c] /\ Goto(c, "cascade")
  <2>1. "cascade" \in Pcs
    BY DEF Pcs
  <2>2. Moved(c) /\ Kept(c) /\ call'[c].pc = "cascade"
    BY <1>1, <1>2, <2>1, GotoMoves
  <2>3. /\ locks' \in [Children \cup {0} -> Callers \cup {Free}] /\ locks[0] = Free /\ locks'[0] = c
        /\ \A r \in Children : locks'[r] = locks[r] /\ locks'[r] # c
    <3>1. \A r \in Children : r # 0
      BY RunsAssumption
    <3> QED
      BY <1>1, <1>2, <3>1, HoldsNone DEF Unlocked, Holding
  <2>4. Step(c)
    BY <1>1, <2>2, <2>3, LockGivesStep DEF Kept
  <2>5. LockPlaces(c)' /\ Rename(c)'
    BY <2>2, <2>3 DEF LockPlaces, Rename
  <2>6. Gone(c)'
    BY <1>1, <2>2 DEF Gone, Exists
  <2> QED
    BY <1>1, <2>2, <2>4, <2>5, <2>6 DEF Own, Placed, Kept, Aside
<1>3. CASE Done(c, "err") /\ UNCHANGED locks
  <2>1. Step(c) /\ Own(c)' /\ Ended(c, "err")
    BY <1>1, <1>3, QuietEnds DEF Answers, Holding
  <2> QED
    BY <1>1, <2>1 DEF Ended, Aside
<1> QED
  BY <1>2, <1>3 DEF DropRun

\* After a transaction nothing is held, whatever its outcome.
LEMMA FreedOwns ==
  ASSUME Inv, NEW c \in Callers, NEW r, Ended(c, r), call[c].pc # "idle", ReleaseLocks(c)
  PROVE  Own(c)'
<1>1. call[c].op # "none"
  BY DEF Inv, Typed, Placed
<1>2. LockPlaces(c)' /\ Rename(c)'
  BY Released DEF LockPlaces, Rename, Ended
<1> QED
  BY <1>1, <1>2 DEF Own, Placed, Gone, Ended

LEMMA DropRunCascadeKeeps ==
  ASSUME Inv, NEW c \in Callers, DropRunCascade(c)
  PROVE  Step(c) /\ Own(c)' /\ Aside(c)
<1>1. /\ Placed(c) /\ call[c].pc = "cascade" /\ call[c].op \in {"createRun", "deleteRun"}
      /\ Typed /\ run.state # "unborn" /\ ReleaseLocks(c) /\ workers' = workers
      /\ \A s \in Children : ~Exists(s)
  BY DEF Inv, Typed, Placed, DropRunCascade, Life, Gone
<1>2. PICK r \in {"ok", "err"} : Done(c, r)
  BY DEF DropRunCascade
<1>3. Moved(c) /\ Ended(c, r)
  BY <1>1, <1>2, DoneMoves DEF Answers
<1>4. Own(c)'
  BY <1>1, <1>3, FreedOwns
<1>5. /\ locks' \in [Children \cup {0} -> Callers \cup {Free}]
      /\ \A k \in Children \cup {0} : \/ locks'[k] = locks[k]
                                      \/ locks[k] = Free /\ locks'[k] = c
                                      \/ locks[k] = c /\ locks'[k] = Free
      /\ call'[c].op \in {call[c].op, "none"} /\ call'[c].pc # "insert"
  BY <1>1, <1>3, Released DEF Ended
<1>6. ASSUME UNCHANGED <<run, rows, ips>> PROVE Step(c)
  <2>1. UNCHANGED <<run, rows, ips, workers>>
    BY <1>1, <1>6
  <2> QED
    BY <1>3, <1>5, <2>1, LockGivesStep
<1>7. ASSUME DeleteRunRow PROVE Step(c)
  <2>1. NoRow \in RowType /\ NoRow.status = "none"
    BY DEF NoRow, RowType
  <2>2. run' \in [state : {"unborn", "here", "deleted"}, name : Texts \cup {""}] /\ run'.state = "deleted"
    BY <1>1, <1>7 DEF DeleteRunRow, Typed, TypeOK
  <2>3. /\ rows' \in [Children -> RowType] /\ ips' \in [Children -> SUBSET IPs]
        /\ \A s \in Children : rows'[s].status = "none" /\ ips'[s] = {}
    BY <1>7, <2>1 DEF DeleteRunRow
  <2>4. \A s \in workers : s \in Children /\ ~Running(s)
    BY <1>1 DEF Running, Exists, Typed, TypeOK
  <2>5. ASSUME NEW s \in Children PROVE locks[s] = Free
    <3>1. ASSUME NEW d \in Callers, locks[s] = d PROVE FALSE
      <4>1. LockPlaces(d) /\ Rename(d)
        BY DEF Inv
      <4> QED
        BY <1>1, <3>1, <4>1 DEF LockPlaces, Rename, Generated
    <3>2. locks[s] \in Callers \cup {Free}
      BY DEF Inv, Typed, TypeOK
    <3> QED
      BY <3>1, <3>2
  <2> QED
    BY <1>1, <1>3, <1>5, <2>2, <2>3, <2>4, <2>5 DEF Step, Effect, NameKept
<1>8. Step(c)
  BY <1>6, <1>7 DEF DropRunCascade
<1> QED
  BY <1>1, <1>3, <1>4, <1>8 DEF Aside, Ended

LEMMA RenameRunKeeps ==
  ASSUME Inv, NEW c \in Callers, RenameRun(c)
  PROVE  Step(c) /\ Own(c)' /\ Aside(c)
<1>1. /\ Placed(c) /\ call[c].pc = "do" /\ call[c].op = "editRun" /\ call[c].pending = {}
      /\ Typed /\ UNCHANGED <<run, rows, ips, workers>>
      /\ locks \in [Children \cup {0} -> Callers \cup {Free}]
  BY DEF Inv, Typed, TypeOK, RenameRun, At, Placed
<1>2. CASE Unlocked({0}) /\ locks' = [locks EXCEPT ![0] = c] /\ Goto(c, "params")
  <2>1. "params" \in Pcs
    BY DEF Pcs
  <2>2. Moved(c) /\ Kept(c) /\ call'[c].pc = "params"
    BY <1>1, <1>2, <2>1, GotoMoves
  <2>3. /\ locks' \in [Children \cup {0} -> Callers \cup {Free}] /\ locks[0] = Free /\ locks'[0] = c
        /\ \A r \in Children : locks'[r] = locks[r] /\ locks'[r] # c
    <3>1. \A r \in Children : r # 0
      BY RunsAssumption
    <3> QED
      BY <1>1, <1>2, <3>1, HoldsNone DEF Unlocked, Holding
  <2>4. Step(c)
    BY <1>1, <2>2, <2>3, LockGivesStep DEF Kept
  <2>5. LockPlaces(c)' /\ Rename(c)'
    BY <2>2, <2>3 DEF LockPlaces, Rename
  <2> QED
    BY <1>1, <2>2, <2>4, <2>5 DEF Own, Placed, Gone, Kept, Aside
<1>3. ASSUME NEW r \in {"notFound", "err"}, Done(c, r), UNCHANGED locks
      PROVE  Step(c) /\ Own(c)' /\ Aside(c)
  <2>1. Step(c) /\ Own(c)' /\ Ended(c, r)
    BY <1>1, <1>3, QuietEnds DEF Answers, Holding
  <2> QED
    BY <1>1, <2>1 DEF Ended, Aside
<1> QED
  BY <1>2, <1>3 DEF RenameRun

LEMMA RenameRunParamsKeeps ==
  ASSUME Inv, NEW c \in Callers, RenameRunParams(c)
  PROVE  Step(c) /\ Own(c)' /\ Aside(c)
<1> DEFINE p == IF RunSessionVariantParams = {} THEN "commit" ELSE "child"
<1>1. /\ Placed(c) /\ call[c].pc = "params" /\ call[c].op = "editRun" /\ call[c].pending = {}
      /\ Typed /\ LockPlaces(c) /\ UNCHANGED <<run, rows, ips, locks, workers>>
  BY DEF Inv, Typed, RenameRunParams, At, Placed
<1>2. /\ Stored \in SUBSET Children /\ p \in Pcs /\ p = IF Stored = {} THEN "commit" ELSE "child"
      /\ RunSessionVariantParams = Stored
  BY DEF Stored, Pcs, RunSessionVariantParams
<1>3. Set(c, [call[c] EXCEPT !.left = Stored, !.pc = p])
  BY <1>2 DEF RenameRunParams
<1> HIDE DEF p
<1>4. Moved(c) /\ Kept(c) /\ call'[c].pc = p /\ call'[c].left = Stored
  BY <1>1, <1>2, <1>3, LoopMoves
<1>5. Step(c)
  BY <1>1, <1>2, <1>4, QuietGivesStep DEF Kept
<1>6. LockPlaces(c)'
  BY <1>1, <1>2, <1>4 DEF LockPlaces, Kept
<1>7. Rename(c)'
  BY <1>1, <1>2, <1>4 DEF Rename, Kept, Generated, Stored, Exists
<1> QED
  BY <1>1, <1>2, <1>4, <1>5, <1>6, <1>7 DEF Own, Placed, Gone, Kept, Aside

\* The child is visited; if its name is generated, its row is held from now on.
LEMMA RenameRunChildKeeps ==
  ASSUME Inv, NEW c \in Callers, RenameRunChild(c)
  PROVE  Step(c) /\ Own(c)' /\ Aside(c)
<1>1. /\ Placed(c) /\ call[c].pc = "child" /\ call[c].op = "editRun" /\ call[c].left # {}
      /\ Typed /\ LockPlaces(c) /\ Rename(c) /\ UNCHANGED <<run, rows, ips, workers>>
      /\ call[c] \in CallType /\ locks \in [Children \cup {0} -> Callers \cup {Free}]
  BY DEF Inv, Typed, TypeOK, RenameRunChild, At, Placed
<1>2. First(c) \in Children /\ First(c) # 0 /\ call[c].left \subseteq Children
  BY <1>1, FirstIn, RunsAssumption
<1> DEFINE s == First(c)
           L == call[c].left \ {s}
           p == IF L = {} THEN "commit" ELSE "child"
           P == IF Generated(s) THEN call[c].pending \cup {s} ELSE call[c].pending
           n == [call[c] EXCEPT !.left = L, !.pc = p, !.pending = P]
<1>3. locks[s] = Free /\ locks' = IF Generated(s) THEN [locks EXCEPT ![s] = c] ELSE locks
  BY DEF RenameRunChild, Unlocked, RenameGenerated, Generated
<1>4. Set(c, n)
  BY <1>1 DEF RenameRunChild, RenameGenerated, Generated, CallType
<1>5. L \subseteq Children /\ p \in Pcs /\ P \subseteq Children
  BY <1>1, <1>2 DEF Pcs, CallType
<1> HIDE DEF L, p, P
<1>6. n \in CallType
  BY <1>1, <1>5 DEF CallType
<1>7. n.left = L /\ n.pc = p /\ n.pending = P /\ n.op = call[c].op
  BY <1>1 DEF CallType
<1> HIDE DEF n
<1>8. Moved(c) /\ call'[c] = n
  BY <1>1, <1>4, <1>6, SetMoves
<1>9. call'[c].left = L /\ call'[c].pc = p /\ call'[c].pending = P /\ call'[c].op = "editRun"
  BY <1>1, <1>7, <1>8
<1> HIDE DEF s
<1>10. /\ locks' \in [Children \cup {0} -> Callers \cup {Free}] /\ locks'[0] = locks[0]
       /\ \A r \in Children : locks'[r] = IF r = s /\ Generated(s) THEN c ELSE locks[r]
  BY <1>1, <1>2, <1>3 DEF s
<1>11. Step(c)
  <2>1. \A r \in Children \cup {0} : \/ locks'[r] = locks[r]
                                     \/ locks[r] = Free /\ locks'[r] = c
                                     \/ locks[r] = c /\ locks'[r] = Free
    BY <1>3, <1>10
  <2>2. call'[c].op \in {call[c].op, "none"} /\ call'[c].pc # "insert"
    BY <1>1, <1>9 DEF p
  <2> QED
    BY <1>1, <1>8, <1>10, <2>1, <2>2, LockGivesStep
<1>12. p \in {"child", "commit"} /\ (p = "child" => L # {}) /\ (p = "commit" => L = {})
  BY DEF p
<1>13. \A r \in Children : r \in P <=> r \in call[c].pending \/ (r = s /\ Generated(s))
  BY <1>2 DEF P, s
<1>14. LockPlaces(c)'
  BY <1>1, <1>5, <1>9, <1>10, <1>12, <1>13 DEF LockPlaces
<1>15. Rename(c)'
  <2>1. \A r \in Children : Generated(r)' <=> Generated(r)
    BY <1>1 DEF Generated, Exists
  <2>2. \A r \in P : Generated(r)
    BY <1>1, <1>5, <1>13 DEF Rename
  <2>3. \A r \in Children : Generated(r) => r \in P \cup L
    BY <1>1, <1>13 DEF Rename, L
  <2> QED
    BY <1>5, <1>9, <1>12, <2>1, <2>2, <2>3 DEF Rename
<1>16. Placed(c)'
  BY <1>9, <1>12 DEF Placed
<1> QED
  BY <1>9, <1>11, <1>12, <1>14, <1>15, <1>16 DEF Own, Gone, Aside

\* The rename takes effect: all generated names are held, none is left out.
LEMMA RenameRunCommitKeeps ==
  ASSUME Inv, NEW c \in Callers, RenameRunCommit(c)
  PROVE  Step(c) /\ Own(c)' /\ Aside(c)
<1>1. /\ Placed(c) /\ call[c].pc = "commit" /\ call[c].op = "editRun"
      /\ Typed /\ LockPlaces(c) /\ Rename(c) /\ ReleaseLocks(c) /\ UNCHANGED <<ips, workers>>
      /\ call[c].text \in Texts \cup {""} /\ call[c].pending \subseteq Children
  BY DEF Inv, Typed, TypeOK, RenameRunCommit, At, CallType
<1>2. \/ Moved(c) /\ Kept(c) /\ call'[c].pc = "summary"
      \/ Moved(c) /\ Ended(c, "err")
  <2>1. "summary" \in Pcs /\ "err" \in Answers
    BY DEF Pcs, Answers
  <2> QED
    BY <1>1, <2>1, GotoMoves, DoneMoves DEF RenameRunCommit
<1>3. call'[c].op = "editRun" /\ call'[c].pc \in {"summary", "done"} /\ Moved(c)
  BY <1>1, <1>2 DEF Kept, Ended
<1>4. /\ locks' \in [Children \cup {0} -> Callers \cup {Free}]
      /\ \A r \in Children \cup {0} : /\ locks'[r] # c
                                      /\ locks'[r] = locks[r] \/ (locks[r] = c /\ locks'[r] = Free)
  BY <1>1, Released
<1>5. run' \in [state : {"unborn", "here", "deleted"}, name : Texts \cup {""}]
      /\ run'.state = run.state /\ run'.name = call[c].text
  BY <1>1 DEF RenameRunCommit, Typed, TypeOK
<1> DEFINE New(s) == [rows[s] EXCEPT !.name = VariantName(call[c].text, s)]
<1>6. rows \in [Children -> RowType]
  BY <1>1 DEF Typed, TypeOK, RowType
<1>7. ASSUME NEW s \in Children
      PROVE  /\ New(s) \in RowType /\ New(s).status = rows[s].status /\ New(s).custom = rows[s].custom
             /\ New(s).name = VariantName(call[c].text, s)
  <2>1. VariantName(call[c].text, s) \in (Texts \cup {""}) \X (Children \cup {0})
    BY <1>1 DEF VariantName
  <2>2. rows[s] \in RowType
    BY <1>6
  <2> QED
    BY <2>1, <2>2 DEF RowType
<1>8. rows' = [s \in Children |-> IF s \in call[c].pending THEN New(s) ELSE rows[s]]
  BY DEF RenameRunCommit
<1> HIDE DEF New
<1>9. rows' \in [Children -> RowType]
  BY <1>6, <1>7, <1>8
<1>10. ASSUME NEW s \in Children
       PROVE  /\ rows'[s].status = rows[s].status /\ (rows'[s].custom <=> rows[s].custom)
              /\ s \notin call[c].pending => rows'[s] = rows[s]
              /\ s \in call[c].pending => rows'[s].name = VariantName(call[c].text, s)
  BY <1>6, <1>7, <1>8
<1>11. Step(c)
  <2>1. ASSUME NEW s \in Children
        PROVE  /\ rows'[s].status # "none" => Exists(s)
               /\ rows'[s].status # "none" /\ ~rows'[s].custom => Generated(s)
               /\ locks[s] \notin {Free, c} => rows'[s] = rows[s]
               /\ rows'[s].status = "none" => ips'[s] = {}
               /\ rows'[s].status # "none" /\ ~rows'[s].custom => rows'[s].name = VariantName(run'.name, s)
               /\ NameKept(s)
    <3>1. ips'[s] = ips[s] /\ (~Exists(s) => ips[s] = {})
      BY <1>1 DEF Inv, RowsOwn
    <3>2. VariantName(run'.name, s) = VariantName(call[c].text, s)
      BY <1>5
    <3>3. /\ s \in call[c].pending => locks[s] = c
          /\ Generated(s) <=> s \in call[c].pending
      BY <1>1 DEF LockPlaces, Rename
    <3> QED
      BY <1>10, <3>1, <3>2, <3>3 DEF Exists, Generated, NameKept
  <2>2. ASSUME NEW s \in workers' PROVE s \in workers /\ (Running(s) => rows'[s].status = "running")
    <3>1. s \in workers /\ s \in Children
      BY <1>1, <2>2 DEF Typed, TypeOK
    <3> QED
      BY <1>10, <3>1 DEF Running
  <2>3. ips' \in [Children -> SUBSET IPs] /\ workers' \subseteq Children
    BY <1>1 DEF Typed, TypeOK
  <2> QED
    BY <1>1, <1>3, <1>4, <1>5, <1>9, <2>1, <2>2, <2>3 DEF Step, Effect, Inv, Life
<1>12. LockPlaces(c)' /\ Rename(c)'
  BY <1>3, <1>4 DEF LockPlaces, Rename
<1> QED
  BY <1>3, <1>11, <1>12 DEF Own, Placed, Gone, Aside

LEMMA RenameRunRollbackKeeps ==
  ASSUME Inv, NEW c \in Callers, RenameRunRollback(c)
  PROVE  Step(c) /\ Own(c)' /\ Aside(c)
<1>1. /\ call[c].pc \in {"params", "child", "commit"} /\ call[c].op = "editRun"
      /\ Typed /\ ReleaseLocks(c) /\ Done(c, "err") /\ UNCHANGED <<run, rows, ips, workers>>
  BY DEF Inv, RenameRunRollback
<1>2. Moved(c) /\ Ended(c, "err")
  BY <1>1, DoneMoves DEF Answers
<1>3. Own(c)'
  BY <1>1, <1>2, FreedOwns
<1>4. /\ locks' \in [Children \cup {0} -> Callers \cup {Free}]
      /\ \A k \in Children \cup {0} : \/ locks'[k] = locks[k]
                                      \/ locks[k] = Free /\ locks'[k] = c
                                      \/ locks[k] = c /\ locks'[k] = Free
      /\ call'[c].op \in {call[c].op, "none"} /\ call'[c].pc # "insert"
  BY <1>1, <1>2, Released DEF Ended
<1>5. Step(c)
  BY <1>1, <1>2, <1>4, LockGivesStep
<1> QED
  BY <1>1, <1>2, <1>3, <1>5 DEF Ended, Aside

\* EditSession writes a row that no rename holds.
LEMMA EditSessionKeeps ==
  ASSUME Inv, NEW c \in Callers, EditSession(c)
  PROVE  Step(c) /\ Own(c)' /\ Aside(c)
<1>1. /\ Placed(c) /\ call[c].pc = "do" /\ call[c].op = "edit" /\ call[c].arg \in Children
      /\ Typed /\ UNCHANGED <<run, ips, locks, workers>> /\ call[c].text \in Texts \cup {""}
  BY DEF Inv, Typed, EditSession, At, Placed, CallType
<1> DEFINE s == call[c].arg
           x == call[c].text
<1>2. CASE Exists(s) /\ Unlocked({s}) /\ RenameSession(s, x) /\ (Goto(c, "reread") \/ Done(c, "err"))
  <2>1. "reread" \in Pcs /\ "err" \in Answers
    BY DEF Pcs, Answers
  <2>2. /\ Moved(c) /\ call'[c].op = "edit" /\ call'[c].pc \in {"reread", "done"}
        /\ call'[c].pc = "reread" => Kept(c)
    BY <1>1, <1>2, <2>1, GotoMoves, DoneMoves DEF Kept, Ended
  <2> DEFINE n == [rows[s] EXCEPT !.name = <<x, 0>>, !.custom = TRUE]
  <2>3. rows \in [Children -> RowType] /\ rows[s] \in RowType
    BY <1>1 DEF Typed, TypeOK, RowType
  <2>4. <<x, 0>> \in (Texts \cup {""}) \X (Children \cup {0})
    BY <1>1
  <2>5. n \in RowType /\ n.status = rows[s].status /\ n.custom /\ n.name[2] = 0
    BY <2>3, <2>4 DEF RowType
  <2>6. rows' = [rows EXCEPT ![s] = n]
    BY <1>2, <2>3 DEF RenameSession, RowType
  <2> HIDE DEF n
  <2>7. /\ rows' \in [Children -> RowType] /\ rows'[s].status = rows[s].status /\ rows'[s].custom
        /\ rows'[s].name[2] = 0
        /\ \A u \in Children \ {s} : rows'[u] = rows[u]
    BY <1>1, <2>3, <2>5, <2>6
  <2> HIDE DEF s
  <2>8. Step(c)
    <3>1. ASSUME NEW u \in Children
          PROVE  /\ rows'[u].status = rows[u].status
                 /\ rows'[u].status # "none" /\ ~rows'[u].custom => Generated(u) /\ rows'[u] = rows[u]
                 /\ locks[u] \notin {Free, c} => rows'[u] = rows[u]
                 /\ NameKept(u)
      BY <1>2, <2>7 DEF Generated, Exists, Unlocked, NameKept
    <3>2. ASSUME NEW u \in Children, rows'[u].status # "none", ~rows'[u].custom
          PROVE  rows'[u].name = VariantName(run'.name, u)
      BY <1>1, <3>1, <3>2 DEF Inv, NamesFollow
    <3>3. ASSUME NEW u \in workers' PROVE u \in workers /\ (Running(u) => rows'[u].status = "running")
      <4>1. u \in workers /\ u \in Children
        BY <1>1, <3>3 DEF Typed, TypeOK
      <4> QED
        BY <3>1, <4>1 DEF Running
    <3>4. /\ run' \in [state : {"unborn", "here", "deleted"}, name : Texts \cup {""}]
          /\ ips' \in [Children -> SUBSET IPs] /\ workers' \subseteq Children
          /\ locks' \in [Children \cup {0} -> Callers \cup {Free}]
      BY <1>1 DEF Typed, TypeOK
    <3>5. \A u \in Children : rows'[u].status = "none" => ips'[u] = {}
      BY <1>1, <3>1 DEF Inv, RowsOwn, Exists
    <3>6. call'[c].op = call[c].op /\ call'[c].pc # "insert"
      BY <1>1, <2>2
    <3> QED
      BY <1>1, <2>2, <2>7, <3>1, <3>2, <3>3, <3>4, <3>5, <3>6 DEF Step, Effect, Exists
  <2>9. LockPlaces(c)' /\ Rename(c)'
    BY <1>1, <2>2, NothingHeld DEF Holding
  <2> QED
    BY <1>1, <2>2, <2>8, <2>9 DEF Own, Placed, Gone, Kept, Aside
<1>3. ASSUME NEW r \in {"notFound", "err"}, Done(c, r), UNCHANGED rows
      PROVE  Step(c) /\ Own(c)' /\ Aside(c)
  <2>1. Step(c) /\ Own(c)' /\ Ended(c, r)
    BY <1>1, <1>3, QuietEnds DEF Answers, Holding
  <2> QED
    BY <1>1, <2>1 DEF Ended, Aside
<1> QED
  BY <1>2, <1>3 DEF EditSession

-----------------------------------------------------------------------------
(* A request arrives, the run is created, a worker works.                  *)

LEMMA RequestKeeps ==
  ASSUME Inv, NEW c \in Callers, NEW o \in Ops, NEW s \in Children, NEW t \in Texts, Request(c, o, s, t)
  PROVE  /\ Effect(c) /\ Own(c)' /\ call[c].op = "none" /\ call'[c].op = o /\ o # "none"
         /\ call'[c].pc = "insert" => run.state = "unborn" /\ o = "createRun"
         /\ o # "createRun" => run.state # "unborn"
         /\ o = "createRun" => \A d \in Callers : call[d].op # "createRun"
         /\ call'[c].pc \notin {"each", "summary", "done"}
         /\ UNCHANGED run
<1> DEFINE n == [NoCall EXCEPT !.op = o, !.pc = FirstPc(o), !.arg = s, !.text = t]
<1>1. /\ call[c].pc = "idle" /\ Placed(c) /\ Typed /\ UNCHANGED <<run, rows, ips, locks, workers>>
      /\ (run.state = "unborn") <=> (o = "createRun")
      /\ o = "createRun" => \A d \in Callers : call[d].op # "createRun"
      /\ Set(c, n)
  BY DEF Inv, Typed, Request
<1>2. o \in OpNames /\ o # "none"
  BY RunsAssumption DEF OpNames
<1>3. /\ o = "createRun" => FirstPc(o) = "insert"
      /\ o \in {"stopRun", "reenableRun", "deleteRun", "runReport"} => FirstPc(o) = "find"
      /\ o \in {"editRun", "edit", "stop", "reenable", "delete"} => FirstPc(o) = "do"
  BY DEF FirstPc
<1>4. FirstPc(o) \in {"insert", "find", "do"} /\ FirstPc(o) \in Pcs
  BY <1>2, <1>3 DEF OpNames, Pcs
<1>5. n \in CallType
  BY <1>2, <1>4, NoCallTyped DEF CallType
<1>6. n.op = o /\ n.pc = FirstPc(o) /\ n.arg = s /\ n.left = {} /\ n.pending = {}
  BY DEF NoCall
<1> HIDE DEF n
<1>7. Moved(c) /\ call'[c] = n
  BY <1>1, <1>5, SetMoves
<1>8. Effect(c)
  <2>1. ControlStep("ok")
    BY <1>1, NothingControls
  <2> QED
    BY <1>1, <1>7, <2>1, ControlHasEffect
<1>9. LockPlaces(c)' /\ Rename(c)'
  BY <1>1, <1>4, <1>6, <1>7, NothingHeld DEF Holding
<1>10. Placed(c)'
  BY <1>2, <1>3, <1>4, <1>6, <1>7 DEF Placed, OpNames
<1>11. Own(c)'
  BY <1>4, <1>6, <1>7, <1>9, <1>10 DEF Own, Gone
<1>12. call[c].op = "none"
  BY <1>1 DEF Placed
<1>13. FirstPc(o) = "insert" => o = "createRun"
  BY <1>2, <1>3 DEF OpNames
<1> QED
  BY <1>1, <1>2, <1>4, <1>6, <1>7, <1>8, <1>11, <1>12, <1>13

\* The workers write rows that no rename holds.
LEMMA WorkerEffect ==
  ASSUME Inv, NEW s \in Children, WorkerFinishes(s) \/ \E a \in IPs : Observe(s, a)
  PROVE  Effect(Free) /\ UNCHANGED <<call, run, locks>>
<1>1. Typed /\ RowsOwn /\ rows \in [Children -> RowType] /\ workers \subseteq Children
      /\ ips \in [Children -> SUBSET IPs]
  BY DEF Inv, Typed, TypeOK, RowType
<1>2. CASE WorkerFinishes(s)
  <2>1. /\ rows' \in [Children -> RowType]
        /\ rows'[s].status = "finished" /\ rows'[s].name = rows[s].name /\ (rows'[s].custom <=> rows[s].custom)
        /\ \A u \in Children \ {s} : rows'[u] = rows[u]
    BY <1>1, <1>2, StatusChange DEF WorkerFinishes, Statuses
  <2>2. ControlStep("err")
    BY <1>1, <1>2, <2>1 DEF WorkerFinishes, Fault, ControlStep, Unlocked, Running, Exists
  <2>3. Moved(Free) /\ NoSuccess /\ UNCHANGED <<call, run, locks>>
    BY <1>1, <1>2 DEF WorkerFinishes, Moved, NoSuccess, Typed
  <2> QED
    BY <2>2, <2>3, ControlHasEffect
<1>3. CASE \E a \in IPs : Observe(s, a)
  <2>1. PICK a \in IPs : Observe(s, a)
    BY <1>3
  <2>2. /\ ips' \in [Children -> SUBSET IPs] /\ Exists(s)
        /\ \A u \in Children \ {s} : ips'[u] = ips[u]
    BY <1>1, <2>1 DEF Observe
  <2>3. Moved(Free) /\ UNCHANGED <<call, run, locks, rows, workers>>
    BY <1>1, <2>1 DEF Observe, Moved, Typed
  <2>4. \A u \in Children : VariantName(run'.name, u) = VariantName(run.name, u)
    BY <2>3
  <2> QED
    BY <1>1, <2>2, <2>3, <2>4
    DEF Effect, NameKept, Inv, Typed, TypeOK, Exists, Generated, RowsOwn, NamesFollow, Running
<1> QED
  BY <1>2, <1>3

-----------------------------------------------------------------------------
(* The other callers, and the history.                                     *)

LEMMA OthersKeep ==
  ASSUME Inv, NEW c, NEW d \in Callers, d # c, d # Free, Effect(c)
  PROVE  Own(d)'
<1>1. Placed(d) /\ Gone(d) /\ LockPlaces(d) /\ Rename(d) /\ call'[d] = call[d]
  BY DEF Inv, Typed, Effect, Moved
<1>2. call[d].left \subseteq Children /\ call[d].pending \subseteq Children
  BY DEF Inv, Typed, TypeOK
<1>3. \A s \in Children : /\ Exists(s)' => Exists(s)
                          /\ Generated(s)' => Generated(s)
                          /\ locks[s] = d => rows'[s] = rows[s]
  BY DEF Effect, Exists, Generated
<1>4. \A r \in Children \cup {0} : locks[r] = d <=> locks'[r] = d
  BY DEF Effect
<1>5. Placed(d)'
  BY <1>1 DEF Placed
<1>6. Gone(d)'
  BY <1>1, <1>3 DEF Gone
<1>7. LockPlaces(d)'
  BY <1>1, <1>2, <1>4 DEF LockPlaces
<1>8. Rename(d)'
  <2>1. \A s \in Children : locks[s] = d /\ Generated(s) => Generated(s)'
    BY <1>3 DEF Generated, Exists
  <2>2. call[d].pc \in {"child", "commit"} => \A s \in call[d].pending : Generated(s)'
    BY <1>1, <1>2, <2>1 DEF Rename, LockPlaces
  <2>3. /\ call[d].pc = "child" => \A s \in Children : Generated(s)' => s \in call[d].pending \cup call[d].left
        /\ call[d].pc = "commit" => \A s \in Children : Generated(s)' => s \in call[d].pending
    BY <1>1, <1>3 DEF Rename
  <2> QED
    BY <1>1, <2>2, <2>3 DEF Rename
<1>9. call'[d].pc \in {"start", "cleanup", "drop", "cascade"} => run'.state # "unborn"
  BY <1>1 DEF Inv, Life, Effect
<1> QED
  BY <1>5, <1>6, <1>7, <1>8, <1>9 DEF Own

\* The invariant without the history.
Core ==
  /\ run \in [state : {"unborn", "here", "deleted"}, name : Texts \cup {""}]
  /\ rows \in [Children -> RowType] /\ ips \in [Children -> SUBSET IPs] /\ workers \subseteq Children
  /\ locks \in [Children \cup {0} -> Callers \cup {Free}]
  /\ call \in [Callers -> CallType]
  /\ Life /\ RowsOwn /\ NamesFollow /\ \A c \in Callers : Own(c)

LEMMA EffectKeepsShared ==
  ASSUME Inv, RecordStrayed, NEW c, Effect(c)
  PROVE  /\ run' \in [state : {"unborn", "here", "deleted"}, name : Texts \cup {""}]
         /\ rows' \in [Children -> RowType] /\ ips' \in [Children -> SUBSET IPs] /\ workers' \subseteq Children
         /\ locks' \in [Children \cup {0} -> Callers \cup {Free}]
         /\ call' \in [Callers -> CallType]
         /\ RowsOwn' /\ NamesFollow'
         /\ run'.state \in {"unborn", "deleted"} => \A s \in Children : ~Exists(s)'
<1>1. RowsOwn'
  <2>1. \A s \in workers' : Running(s)' \/ s \in strayed'
    BY DEF Inv, Effect, RecordStrayed, RowsOwn, Running
  <2>2. Faults = {} => strayed' = {}
    BY DEF Inv, Effect, RecordStrayed, RowsOwn, Running
  <2> QED
    BY <2>1, <2>2 DEF Effect, RowsOwn, Exists
<1>2. NamesFollow'
  BY DEF Effect, NamesFollow, Generated, Exists
<1>3. run'.state \in {"unborn", "deleted"} => \A s \in Children : ~Exists(s)'
  BY DEF Effect, Inv, Life, Exists
<1> QED
  BY <1>1, <1>2, <1>3 DEF Effect, Moved

LEMMA StepKeepsCore ==
  ASSUME Inv, RecordStrayed, NEW c \in Callers, Step(c), Own(c)'
  PROVE  Core'
<1>1. Effect(c)
  BY DEF Step
<1>2. c # Free /\ \A d \in Callers : d # Free
  BY RunsAssumption
<1>3. \A d \in Callers : Own(d)'
  BY <1>1, <1>2, OthersKeep
<1>4. Life'
  <2>1. \A d \in Callers \ {c} : call'[d] = call[d]
    BY <1>1 DEF Effect, Moved
  <2>2. call'[c].op \in {call[c].op, "none"} /\ call'[c].pc # "insert"
    BY DEF Step
  <2>3. run'.state = "unborn" <=> run.state = "unborn"
    BY <1>1 DEF Effect
  <2>4. ASSUME NEW d \in Callers
        PROVE  /\ call'[d].pc = "insert" => run'.state = "unborn"
               /\ call'[d].pc \in {"start", "cleanup", "drop", "cascade"} => run'.state # "unborn"
               /\ call'[d].op \notin {"none", "createRun"} => run'.state # "unborn"
    BY <1>3, <2>1, <2>2, <2>3 DEF Inv, Life, Own
  <2>5. ASSUME NEW d \in Callers, NEW e \in Callers, call'[d].op = "createRun", call'[e].op = "createRun"
        PROVE  d = e
    BY <2>1, <2>2, <2>5 DEF Inv, Life
  <2> QED
    BY <1>1, <2>4, <2>5, EffectKeepsShared DEF Life
<1> QED
  BY <1>1, <1>3, <1>4, EffectKeepsShared DEF Core

LEMMA RequestKeepsCore ==
  ASSUME Inv, RecordStrayed, NEW c \in Callers, NEW o \in Ops, NEW s \in Children, NEW t \in Texts, Request(c, o, s, t)
  PROVE  Core'
<1>1. /\ Effect(c) /\ Own(c)' /\ call[c].op = "none" /\ call'[c].op = o /\ o # "none"
      /\ call'[c].pc = "insert" => run.state = "unborn" /\ o = "createRun"
      /\ o # "createRun" => run.state # "unborn"
      /\ o = "createRun" => \A d \in Callers : call[d].op # "createRun"
      /\ run' = run
  BY RequestKeeps
<1>2. c # Free /\ \A d \in Callers : d # Free
  BY RunsAssumption
<1>3. \A d \in Callers : Own(d)'
  BY <1>1, <1>2, OthersKeep
<1>4. Life'
  <2>1. \A d \in Callers \ {c} : call'[d] = call[d]
    BY <1>1 DEF Effect, Moved
  <2>2. ASSUME NEW d \in Callers
        PROVE  /\ call'[d].pc = "insert" => run'.state = "unborn"
               /\ call'[d].pc \in {"start", "cleanup", "drop", "cascade"} => run'.state # "unborn"
               /\ call'[d].op \notin {"none", "createRun"} => run'.state # "unborn"
    BY <1>1, <1>3, <2>1 DEF Inv, Life, Own
  <2>3. ASSUME NEW d \in Callers, NEW e \in Callers, call'[d].op = "createRun", call'[e].op = "createRun"
        PROVE  d = e
    BY <1>1, <2>1, <2>3 DEF Inv, Life
  <2> QED
    BY <1>1, <2>2, <2>3, EffectKeepsShared DEF Life
<1> QED
  BY <1>1, <1>3, <1>4, EffectKeepsShared DEF Core

LEMMA WorkerKeepsCore ==
  ASSUME Inv, RecordStrayed, NEW s \in Children, WorkerFinishes(s) \/ \E a \in IPs : Observe(s, a)
  PROVE  Core'
<1>1. Effect(Free) /\ UNCHANGED <<call, run, locks>>
  BY WorkerEffect
<1>2. \A d \in Callers : d # Free
  BY RunsAssumption
<1>3. \A d \in Callers : Own(d)'
  BY <1>1, <1>2, OthersKeep
<1>4. Life'
  BY <1>1, EffectKeepsShared DEF Inv, Life
<1> QED
  BY <1>1, <1>3, <1>4, EffectKeepsShared DEF Core

\* Before the run is there every other caller is idle, or its creation failed.
LEMMA CreateRunInsertKeepsCore ==
  ASSUME Inv, RecordStrayed, NEW c \in Callers, CreateRunInsert(c)
  PROVE  Core' /\ Aside(c) /\ call'[c].op = call[c].op /\ Moved(c)
<1>1. /\ call[c].pc = "insert" /\ call[c].op = "createRun" /\ run.state = "unborn" /\ Typed
      /\ UNCHANGED <<ips, locks, workers>> /\ call[c].text \in Texts \cup {""}
      /\ \A u \in Children : ~Exists(u)
  BY DEF Inv, Typed, CreateRunInsert, At, Life, CallType
<1>2. CASE Done(c, "err") /\ UNCHANGED <<run, rows>>
  <2>1. Step(c) /\ Own(c)' /\ Ended(c, "err")
    BY <1>1, <1>2, QuietEnds DEF Answers, Holding
  <2> QED
    BY <1>1, <2>1, StepKeepsCore DEF Ended, Aside, Step, Effect
<1>3. CASE InsertRun(call[c].text) /\ InsertRunSessions(call[c].text)
  <2> DEFINE x == call[c].text
  <2>1. run' \in [state : {"unborn", "here", "deleted"}, name : Texts \cup {""}]
        /\ run'.state = "here" /\ run'.name = x
    BY <1>1, <1>3 DEF InsertRun
  <2>2. ASSUME NEW u \in Children
        PROVE  [status |-> "running", name |-> VariantName(x, u), custom |-> FALSE] \in RowType
    <3>1. VariantName(x, u) \in (Texts \cup {""}) \X (Children \cup {0})
      BY <1>1 DEF VariantName
    <3> QED
      BY <3>1 DEF RowType
  <2>3. /\ rows' \in [Children -> RowType]
        /\ \A u \in Children : rows'[u].status = "running" /\ rows'[u].name = VariantName(x, u)
    BY <1>3, <2>2 DEF InsertRunSessions
  <2>4. \/ /\ Moved(c) /\ Kept(c) /\ call'[c].pc = "start" /\ call'[c].left = Children
        \/ Moved(c) /\ Ended(c, "err")
    <3>1. CASE Set(c, [call[c] EXCEPT !.pc = "start", !.left = Children])
      <4>1. Set(c, [call[c] EXCEPT !.left = Children, !.pc = "start"])
        BY <1>1, <3>1 DEF Typed, CallType
      <4>2. "start" \in Pcs
        BY DEF Pcs
      <4> QED
        BY <1>1, <4>1, <4>2, LoopMoves
    <3>2. CASE Done(c, "err")
      BY <1>1, <3>2, DoneMoves DEF Answers
    <3> QED
      BY <3>1, <3>2 DEF CreateRunInsert
  <2>5. /\ Moved(c) /\ call'[c].op = "createRun" /\ call'[c].pc \in {"start", "done"}
        /\ call'[c].pc = "start" => call'[c].left # {}
    BY <1>1, <2>4, RunsAssumption DEF Kept, Ended
  <2>6. ASSUME NEW d \in Callers, d # c PROVE call[d].pc = "idle" /\ call'[d] = call[d] /\ call[d].op = "none"
    BY <1>1, <2>5, <2>6 DEF Inv, Life, Typed, Placed, Moved
  <2>7. Life'
    BY <2>1, <2>5, <2>6 DEF Life
  <2>8. strayed' = {} /\ workers' \subseteq Children
    BY <1>1, <2>3 DEF RecordStrayed, Typed, TypeOK
  <2>9. RowsOwn'
    BY <1>1, <2>3, <2>8 DEF RowsOwn, Running, Exists
  <2>10. NamesFollow'
    BY <2>1, <2>3 DEF NamesFollow, Generated
  <2>11. ASSUME NEW d \in Callers PROVE LockPlaces(d)' /\ Rename(d)'
    <3>1. call[d].pc \notin Holding /\ call'[d].pc \notin Holding
      BY <1>1, <2>5, <2>6 DEF Holding
    <3> QED
      BY <1>1, <3>1, NothingHeld
  <2>12. ASSUME NEW d \in Callers PROVE Placed(d)' /\ Gone(d)'
    BY <2>5, <2>6 DEF Placed, Gone
  <2>13. ips' \in [Children -> SUBSET IPs] /\ workers' \subseteq Children
         /\ locks' \in [Children \cup {0} -> Callers \cup {Free}] /\ call' \in [Callers -> CallType]
    BY <1>1, <2>5 DEF Typed, TypeOK, Moved
  <2>14. \A d \in Callers : Own(d)'
    BY <2>1, <2>11, <2>12 DEF Own
  <2> QED
    BY <1>1, <2>1, <2>3, <2>5, <2>7, <2>9, <2>10, <2>13, <2>14 DEF Core, Aside
<1> QED
  BY <1>2, <1>3 DEF CreateRunInsert

HistoryType == [lag : SUBSET Children, started : BOOLEAN]

LEMMA RecordTyped ==
  ASSUME Inv, RecordSeen
  PROVE  seen' \in [Callers -> HistoryType]
<1>1. seen \in [Callers -> HistoryType]
  BY DEF Inv, Typed, TypeOK, HistoryType
<1>2. NoHistory \in HistoryType
  BY DEF NoHistory, HistoryType
<1>3. ASSUME NEW c \in Callers
      PROVE  [lag |-> {s \in IF call[c].op = "none" THEN Children ELSE seen[c].lag :
                         ~Wanted(call'[c].op, rows'[s].status)},
              started |-> call'[c].op = "stopRun" /\
                (seen[c].started \/ \E s \in Children : ~Running(s) /\ rows'[s].status = "running")] \in HistoryType
  BY <1>1 DEF HistoryType
<1> QED
  BY <1>2, <1>3 DEF RecordSeen

\* The children that lag behind only become fewer while a request is served,
\* and a child that runs is one of them unless some child was started.
LEMMA HistoryMoves ==
  ASSUME Inv, RecordSeen, NEW d \in Callers, call'[d].op # "none"
  PROVE  /\ call[d].op # "none" => seen'[d].lag \subseteq seen[d].lag
         /\ seen'[d].lag \subseteq Children
         /\ \A s \in seen'[d].lag : ~Wanted(call'[d].op, rows'[s].status)
         /\ call'[d].op = "stopRun" /\ call[d].op = "stopRun" /\ seen[d].started => seen'[d].started
         /\ call'[d].op = "stopRun" /\ call[d].op \in {"none", "stopRun"} /\ ~seen'[d].started =>
              \A s \in Children : rows'[s].status = "running" => s \in seen'[d].lag
<1> DEFINE L == {s \in IF call[d].op = "none" THEN Children ELSE seen[d].lag : ~Wanted(call'[d].op, rows'[s].status)}
           b == call'[d].op = "stopRun" /\
                  (seen[d].started \/ \E s \in Children : ~Running(s) /\ rows'[s].status = "running")
<1>1. seen'[d] = [lag |-> L, started |-> b]
  BY DEF RecordSeen
<1>2. seen'[d].lag = L /\ (seen'[d].started <=> b)
  <2>1. [lag |-> L, started |-> b].lag = L /\ [lag |-> L, started |-> b].started = b
    OBVIOUS
  <2> HIDE DEF L, b
  <2> QED
    BY <1>1, <2>1
<1>3. seen[d].lag \subseteq Children /\ Lag(d)
  BY DEF Inv, Typed, TypeOK
<1>4. L \subseteq Children /\ (call[d].op # "none" => L \subseteq seen[d].lag)
  BY <1>3
<1>5. \A s \in L : ~Wanted(call'[d].op, rows'[s].status)
  OBVIOUS
<1>6. ASSUME call'[d].op = "stopRun", call[d].op \in {"none", "stopRun"}, ~b,
             NEW s \in Children, rows'[s].status = "running"
      PROVE  s \in L
  <2>1. ~seen[d].started /\ Running(s)
    BY <1>6
  <2>2. call[d].op = "stopRun" => s \in seen[d].lag
    BY <1>3, <2>1 DEF Lag
  <2>3. ~Wanted(call'[d].op, rows'[s].status)
    BY <1>6 DEF Wanted
  <2> QED
    BY <1>6, <2>2, <2>3
<1>7. call'[d].op = "stopRun" /\ seen[d].started => b
  OBVIOUS
<1> HIDE DEF L, b
<1> QED
  BY <1>2, <1>4, <1>5, <1>6, <1>7

\* What the history has to say of one caller.
Told(c) ==
  /\ Lag(c)
  /\ call[c].pc = "done" /\ call[c].res = "ok" =>
       /\ call[c].op \in {"stopRun", "reenableRun"} => seen[c].lag = {}
       /\ call[c].op = "stopRun" /\ call[c].status = "running" => seen[c].started
  /\ call[c].op = "runReport" /\ call[c].pc = "done" /\ call[c].res = "ok" =>
       \A p \in call[c].pool : p[1] \in call[c].listed

LEMMA ToldNow == ASSUME Inv, NEW c \in Callers PROVE Told(c)
BY DEF Inv, Told, FanOutReaches, PoolMatchesCells, At

LEMMA SameTold ==
  ASSUME Inv, RecordSeen, NEW d \in Callers, call'[d] = call[d]
  PROVE  Told(d)'
<1>1. Told(d) /\ Placed(d)
  BY ToldNow DEF Inv, Typed
<1>2. CASE call[d].op = "none"
  BY <1>1, <1>2 DEF Told, Lag, Placed
<1>3. CASE call[d].op # "none"
  BY <1>1, <1>3, HistoryMoves DEF Told, Lag, Running
<1> QED
  BY <1>2, <1>3

LEMMA AsideTold ==
  ASSUME Inv, RecordSeen, NEW c \in Callers, Aside(c), call'[c].op \in {call[c].op, "none"},
         call'[c].op = "none" => call'[c].pc = "idle",
         call'[c].pc = "each" => call'[c].op \in {"stopRun", "reenableRun"}
  PROVE  Told(c)'
<1>1. CASE call'[c].op = "none"
  BY <1>1 DEF Told, Lag
<1>2. CASE call'[c].op # "none"
  BY <1>2, HistoryMoves DEF Told, Lag, Running, Aside
<1> QED
  BY <1>1, <1>2

LEMMA ListChildrenTold ==
  ASSUME Inv, RecordSeen, NEW c \in Callers, ListChildren(c)
  PROVE  Told(c)'
<1>1. /\ Step(c) /\ Own(c)' /\ UNCHANGED rows
      /\ Aside(c) \/ /\ call'[c].op = call[c].op /\ call[c].op \in {"stopRun", "reenableRun"}
                     /\ call'[c].pc = IF Stored = {} THEN "summary" ELSE "each"
                     /\ call'[c].left = Stored
  BY ListChildrenKeeps DEF ListChildren
<1>2. CASE Aside(c)
  BY <1>1, <1>2, AsideTold DEF Step, Own, Placed
<1>3. CASE /\ call'[c].op = call[c].op /\ call[c].op \in {"stopRun", "reenableRun"}
           /\ call'[c].pc = IF Stored = {} THEN "summary" ELSE "each"
           /\ call'[c].left = Stored
  <2>1. /\ seen'[c].lag \subseteq Children
        /\ \A s \in seen'[c].lag : ~Wanted(call'[c].op, rows'[s].status)
        /\ call'[c].op = "stopRun" /\ ~seen'[c].started =>
             \A s \in Children : rows'[s].status = "running" => s \in seen'[c].lag
    BY <1>3, HistoryMoves
  <2>2. ASSUME NEW s \in seen'[c].lag PROVE s \in Stored
    <3>1. s \in Children /\ ~Wanted(call'[c].op, rows[s].status)
      BY <1>1, <2>1
    <3>2. rows[s].status # "none"
      BY <1>3, <3>1 DEF Wanted
    <3> QED
      BY <3>1, <3>2 DEF Stored, Exists
  <2> QED
    BY <1>3, <2>1, <2>2 DEF Told, Lag, Running
<1> QED
  BY <1>1, <1>2, <1>3

LEMMA FanOutTold ==
  ASSUME Inv, RecordSeen, NEW c \in Callers, FanOut(c)
  PROVE  Told(c)'
<1>1. /\ call'[c].op = call[c].op /\ call[c].op \in {"stopRun", "reenableRun"} /\ call[c].pc = "each"
      /\ \/ call'[c].pc = "done" /\ call'[c].res = "err"
         \/ /\ call'[c].left = call[c].left \ {First(c)} /\ First(c) \in Children
            /\ call'[c].pc = IF call[c].left \ {First(c)} = {} THEN "summary" ELSE "each"
            /\ Wanted(call[c].op, rows'[First(c)].status)
  BY FanOutKeeps DEF FanOut, Inv, Typed, Placed
<1>2. /\ seen'[c].lag \subseteq seen[c].lag
      /\ \A s \in seen'[c].lag : ~Wanted(call'[c].op, rows'[s].status)
      /\ call'[c].op = "stopRun" /\ ~seen'[c].started =>
           \A s \in Children : rows'[s].status = "running" => s \in seen'[c].lag
  BY <1>1, HistoryMoves
<1>3. seen[c].lag \subseteq call[c].left
  BY <1>1 DEF Inv, Lag
<1>4. CASE call'[c].pc = "done" /\ call'[c].res = "err"
  BY <1>1, <1>2, <1>4 DEF Told, Lag, Running
<1>5. CASE /\ call'[c].left = call[c].left \ {First(c)}
           /\ call'[c].pc = IF call[c].left \ {First(c)} = {} THEN "summary" ELSE "each"
           /\ Wanted(call[c].op, rows'[First(c)].status)
  <2>1. First(c) \notin seen'[c].lag
    BY <1>1, <1>2, <1>5
  <2>2. seen'[c].lag \subseteq call'[c].left /\ (call'[c].pc = "summary" => call'[c].left = {})
    BY <1>2, <1>3, <1>5, <2>1
  <2> QED
    BY <1>1, <1>2, <1>5, <2>2 DEF Told, Lag, Running
<1> QED
  BY <1>1, <1>4, <1>5

\* The derived status is running only if some child is.
LEMMA RunningMeansOne ==
  ASSUME RunByID.status = "running"
  PROVE  \E s \in Children : Running(s)
<1>1. RunCounts.running > 0
  BY DEF RunByID, DeriveRunStatus
<1>2. Cardinality({s \in Stored : Running(s)}) > 0
  BY <1>1 DEF RunCounts
<1>3. {s \in Stored : Running(s)} # {}
  BY <1>2, FS_EmptySet
<1> QED
  BY <1>3 DEF Stored

LEMMA SummarizeTold ==
  ASSUME Inv, RecordSeen, NEW c \in Callers, Summarize(c)
  PROVE  Told(c)'
<1>1. /\ call'[c].op = call[c].op /\ call'[c].pc = "done" /\ UNCHANGED rows
      /\ call'[c].res = "ok" => call'[c].status = RunByID.status
      /\ call[c].pc = "summary" /\ call[c].op \in {"stopRun", "reenableRun", "editRun"}
  BY SummarizeKeeps DEF Summarize, Inv, Typed, Placed
<1>2. /\ seen'[c].lag \subseteq seen[c].lag
      /\ call'[c].op = "stopRun" /\ ~seen'[c].started =>
           \A s \in Children : rows'[s].status = "running" => s \in seen'[c].lag
  BY <1>1, HistoryMoves
<1>3. call[c].op \in {"stopRun", "reenableRun"} => seen[c].lag = {}
  BY <1>1 DEF Inv, Lag
<1>4. ASSUME call[c].op = "stopRun", RunByID.status = "running" PROVE seen'[c].started
  <2>1. PICK s \in Children : Running(s)
    BY <1>4, RunningMeansOne
  <2> QED
    BY <1>1, <1>2, <1>3, <1>4, <2>1 DEF Running
<1> QED
  BY <1>1, <1>2, <1>3, <1>4 DEF Told, Lag, Running

LEMMA ReadObservationsTold ==
  ASSUME Inv, RecordSeen, NEW c \in Callers, ReadObservations(c)
  PROVE  Told(c)'
BY ReadObservationsKeeps DEF Told, Lag

LEMMA RequestTold ==
  ASSUME Inv, RecordSeen, NEW c \in Callers, NEW o \in Ops, NEW s \in Children, NEW t \in Texts, Request(c, o, s, t)
  PROVE  Told(c)'
<1>1. call[c].op = "none" /\ call'[c].op # "none" /\ call'[c].pc \notin {"each", "summary", "done"}
  BY RequestKeeps
<1> QED
  BY <1>1, HistoryMoves DEF Told, Lag, Running

-----------------------------------------------------------------------------
(* Every step.                                                             *)

LEMMA CoreAndTold ==
  ASSUME Core', RecordStrayed, seen' \in [Callers -> HistoryType], \A c \in Callers : Told(c)'
  PROVE  Inv'
<1>1. TypeOK'
  <2>1. \A c \in Callers : call'[c].left \subseteq Children /\ call'[c].pending \subseteq Children
    BY DEF Core, CallType
  <2>2. strayed' \subseteq workers'
    BY DEF RecordStrayed
  <2> QED
    BY <2>1, <2>2 DEF Core, TypeOK, RowType, HistoryType
<1>2. Typed'
  BY <1>1 DEF Core, Typed, Own
<1>3. FanOutReaches' /\ PoolMatchesCells'
  BY DEF Told, FanOutReaches, PoolMatchesCells, At
<1>4. \A c \in Callers : Gone(c)' /\ LockPlaces(c)' /\ Rename(c)' /\ Lag(c)'
  BY DEF Core, Own, Told
<1> QED
  BY <1>2, <1>3, <1>4 DEF Core, Inv

LEMMA HandlerKeeps ==
  ASSUME Inv, RecordSeen, RecordStrayed, NEW c \in Callers, Handler(c)
  PROVE  Inv'
<1>1. Core' /\ Moved(c) /\ Told(c)'
  <2>1. ASSUME Step(c), Own(c)', Aside(c) PROVE Core' /\ Moved(c) /\ Told(c)'
    <3>1. /\ call'[c].op \in {call[c].op, "none"}
          /\ call'[c].op = "none" => call'[c].pc = "idle"
          /\ call'[c].pc = "each" => call'[c].op \in {"stopRun", "reenableRun"}
      BY <2>1 DEF Step, Own, Placed
    <3> QED
      BY <2>1, <3>1, StepKeepsCore, AsideTold DEF Step, Effect
  <2>2. ASSUME Step(c), Own(c)', Told(c)' PROVE Core' /\ Moved(c) /\ Told(c)'
    BY <2>2, StepKeepsCore DEF Step, Effect
  <2>3. CASE CreateRunInsert(c)
    <3>1. Core' /\ Aside(c) /\ call'[c].op = call[c].op /\ Moved(c)
      BY <2>3, CreateRunInsertKeepsCore
    <3>2. /\ call'[c].op = "none" => call'[c].pc = "idle"
          /\ call'[c].pc = "each" => call'[c].op \in {"stopRun", "reenableRun"}
      BY <3>1 DEF Core, Own, Placed
    <3> QED
      BY <3>1, <3>2, AsideTold
  <2>4. CASE Return(c)            BY <2>1, <2>4, ReturnKeeps
  <2>5. CASE CreateRunStart(c)    BY <2>1, <2>5, CreateRunStartKeeps
  <2>6. CASE CreateRunCleanup(c)  BY <2>1, <2>6, CreateRunCleanupKeeps
  <2>7. CASE DropRun(c)           BY <2>1, <2>7, DropRunKeeps
  <2>8. CASE DropRunCascade(c)    BY <2>1, <2>8, DropRunCascadeKeeps
  <2>9. CASE FindRun(c)           BY <2>1, <2>9, FindRunKeeps
  <2>10. CASE ListChildren(c)     BY <2>2, <2>10, ListChildrenKeeps, ListChildrenTold
  <2>11. CASE FanOut(c)           BY <2>2, <2>11, FanOutKeeps, FanOutTold
  <2>12. CASE Summarize(c)        BY <2>2, <2>12, SummarizeKeeps, SummarizeTold
  <2>13. CASE DeleteRunBatch(c)   BY <2>1, <2>13, DeleteRunBatchKeeps
  <2>14. CASE ReadObservations(c) BY <2>2, <2>14, ReadObservationsKeeps, ReadObservationsTold
  <2>15. CASE RenameRun(c)        BY <2>1, <2>15, RenameRunKeeps
  <2>16. CASE RenameRunParams(c)  BY <2>1, <2>16, RenameRunParamsKeeps
  <2>17. CASE RenameRunChild(c)   BY <2>1, <2>17, RenameRunChildKeeps
  <2>18. CASE RenameRunCommit(c)  BY <2>1, <2>18, RenameRunCommitKeeps
  <2>19. CASE RenameRunRollback(c) BY <2>1, <2>19, RenameRunRollbackKeeps
  <2>20. CASE EditSession(c)      BY <2>1, <2>20, EditSessionKeeps
  <2>21. CASE RereadSession(c)    BY <2>1, <2>21, RereadSessionKeeps
  <2>22. CASE SessionRequest(c)   BY <2>1, <2>22, SessionRequestKeeps
  <2> QED
    BY <2>3, <2>4, <2>5, <2>6, <2>7, <2>8, <2>9, <2>10, <2>11, <2>12, <2>13, <2>14, <2>15, <2>16,
       <2>17, <2>18, <2>19, <2>20, <2>21, <2>22 DEF Handler
<1>2. \A d \in Callers : Told(d)'
  BY <1>1, SameTold DEF Moved
<1> QED
  BY <1>1, <1>2, RecordTyped, CoreAndTold

LEMMA NextKeeps == Inv /\ [Next]_vars => Inv'
<1> SUFFICES ASSUME Inv, [Next]_vars PROVE Inv'
  OBVIOUS
<1>1. CASE UNCHANGED vars
  <2> USE <1>1 DEF vars, Inv
  <2>1. Typed'
    <3>1. TypeOK'
      BY DEF Typed, TypeOK
    <3>2. \A c \in Callers : Placed(c)'
      BY DEF Typed, Placed
    <3> QED
      BY <3>1, <3>2 DEF Typed
  <2>2. Life' /\ RowsOwn' /\ NamesFollow'
    BY DEF Life, RowsOwn, NamesFollow, Generated, Exists, Running
  <2>3. \A c \in Callers : Gone(c)' /\ LockPlaces(c)' /\ Rename(c)'
    BY DEF Gone, LockPlaces, Rename, Generated, Exists
  <2>4. \A c \in Callers : Lag(c)'
    BY DEF Lag, Running
  <2>5. FanOutReaches' /\ PoolMatchesCells'
    BY DEF FanOutReaches, PoolMatchesCells, At
  <2> QED
    BY <2>1, <2>2, <2>3, <2>4, <2>5
<1>2. CASE Next
  <2>1. RecordSeen /\ RecordStrayed
    BY <1>2 DEF Next
  <2>2. ASSUME NEW c \in Callers, Handler(c) PROVE Inv'
    BY <2>1, <2>2, HandlerKeeps
  <2>3. ASSUME NEW c \in Callers, NEW o \in Ops, NEW s \in Children, NEW t \in Texts, Request(c, o, s, t)
        PROVE  Inv'
    <3>1. Core' /\ Told(c)' /\ Moved(c)
      BY <2>1, <2>3, RequestKeepsCore, RequestTold, RequestKeeps DEF Effect
    <3>2. \A d \in Callers : Told(d)'
      BY <2>1, <3>1, SameTold DEF Moved
    <3> QED
      BY <2>1, <3>1, <3>2, RecordTyped, CoreAndTold
  <2>4. ASSUME NEW s \in Children, WorkerFinishes(s) \/ \E a \in IPs : Observe(s, a) PROVE Inv'
    <3>1. Core' /\ call' = call
      BY <2>1, <2>4, WorkerKeepsCore, WorkerEffect
    <3>2. \A d \in Callers : Told(d)'
      BY <2>1, <3>1, SameTold
    <3> QED
      BY <2>1, <3>1, <3>2, RecordTyped, CoreAndTold
  <2> QED
    BY <1>2, <2>2, <2>3, <2>4 DEF Next
<1> QED
  BY <1>1, <1>2

LEMMA InitEstablishes == Init => Inv
<1> SUFFICES ASSUME Init PROVE Inv
  OBVIOUS
<1>1. NoCall.op = "none" /\ NoCall.pc = "idle" /\ NoCall.left = {} /\ NoCall.pending = {}
  BY DEF NoCall
<1>2. /\ NoRow.status = "none"
      /\ NoRow \in [status : {"none", "running", "stopped", "finished"},
                    name : (Texts \cup {""}) \X (Children \cup {0}), custom : BOOLEAN]
  BY DEF NoRow
<1>3. NoHistory \in [lag : SUBSET Children, started : BOOLEAN]
  BY DEF NoHistory
<1>4. \A c \in Callers : call[c] = NoCall
  BY DEF Init
<1>5. \A s \in Children : rows[s] = NoRow
  BY DEF Init
<1>6. TypeOK
  <2>1. /\ run \in [state : {"unborn", "here", "deleted"}, name : Texts \cup {""}]
        /\ ips \in [Children -> SUBSET IPs] /\ locks \in [Children \cup {0} -> Callers \cup {Free}]
        /\ workers \subseteq Children /\ strayed \subseteq workers
    BY DEF Init
  <2>2. rows \in [Children -> [status : {"none", "running", "stopped", "finished"},
                    name : (Texts \cup {""}) \X (Children \cup {0}), custom : BOOLEAN]]
    BY <1>2 DEF Init
  <2>3. seen \in [Callers -> [lag : SUBSET Children, started : BOOLEAN]]
    BY <1>3 DEF Init
  <2>4. \A c \in Callers : call[c].left \subseteq Children /\ call[c].pending \subseteq Children
    BY <1>1, <1>4
  <2> QED
    BY <2>1, <2>2, <2>3, <2>4 DEF TypeOK
<1>7. Typed
  <2>1. call \in [Callers -> CallType]
    BY NoCallTyped DEF Init
  <2>2. \A c \in Callers : Placed(c)
    BY <1>1, <1>4 DEF Placed
  <2> QED
    BY <1>6, <2>1, <2>2 DEF Typed
<1>8. \A s \in Children : ~Exists(s)
  BY <1>2, <1>5 DEF Exists
<1>9. Life /\ RowsOwn /\ NamesFollow
  <2>1. run.state = "unborn" /\ workers = {} /\ strayed = {} /\ \A s \in Children : ips[s] = {}
    BY DEF Init
  <2> QED
    BY <1>1, <1>4, <1>8, <2>1 DEF Life, RowsOwn, NamesFollow, Generated
<1>10. ASSUME NEW c \in Callers PROVE Gone(c) /\ LockPlaces(c) /\ Rename(c) /\ Lag(c)
  <2>1. \A r \in Children \cup {0} : locks[r] # c
    BY RunsAssumption DEF Init
  <2> QED
    BY <1>1, <1>4, <2>1 DEF Gone, LockPlaces, Rename, Lag
<1>11. FanOutReaches /\ PoolMatchesCells
  BY <1>1, <1>4 DEF FanOutReaches, PoolMatchesCells, At
<1> QED
  BY <1>7, <1>9, <1>10, <1>11 DEF Inv

LEMMA InvHolds == Spec => []Inv
BY InitEstablishes, NextKeeps, PTL DEF Spec

-----------------------------------------------------------------------------
(* The properties of the runs.                                             *)

\* The types; that a worker has a running row unless it has strayed, which
\* takes a failed stop or a finish without a reply and never the rollback of
\* CreateRun, DeleteRun with its cascade or a delete of one child alone; that
\* without failures no worker does; and that no child outlives its run
\* (api/runs.go, sampler/supervisor.go).
THEOREM RunsConsistentHolds == Spec => []RunsConsistent
<1>1. Inv => RunsConsistent
  <2> SUFFICES ASSUME Inv PROVE RunsConsistent
    OBVIOUS
  <2>1. ASSUME run.state = "deleted" PROVE Stored = {}
    BY <2>1 DEF Inv, Life, Stored
  <2> QED
    BY <2>1 DEF Inv, Typed, RowsOwn, RunsConsistent, NoOrphanWorker
<1> QED
  BY <1>1, InvHolds, PTL

\* A rename of the run reaches every child that carries a generated name, and
\* does so in one commit: the lock of the run row serializes renames, the lock
\* of each child's row keeps EditSession out until then (db/runs.go).
THEOREM NamesFollowRunHolds == Spec => []NamesFollowRun
<1>1. Inv => NamesFollowRun
  BY DEF Inv, NamesFollow, NamesFollowRun, Generated, Stored
<1> QED
  BY <1>1, InvHolds, PTL

\* RenameGeneratedRunSession never overwrites a name a person chose, although
\* it is evaluated before the transaction commits (db/runs.sql.go).
THEOREM ChosenNamesKeptHolds == Spec => ChosenNamesKept
<1> DEFINE A == \A s \in Children : Exists(s) /\ rows[s].custom /\ Exists(s)' =>
                  /\ rows'[s].custom
                  /\ rows'[s].name # rows[s].name => rows'[s].name[2] = 0
<1>1. Inv /\ [Next]_vars => [A]_vars
  <2> SUFFICES ASSUME Inv, Next PROVE A
    OBVIOUS
  <2>1. ASSUME NEW c, Effect(c) PROVE A
    BY <2>1 DEF Effect, NameKept, Exists
  <2>2. ASSUME NEW c \in Callers, CreateRunInsert(c) PROVE A
    <3>1. call[c].pc = "insert"
      BY <2>2 DEF CreateRunInsert, At
    <3> QED
      BY <3>1 DEF Inv, Life
  <2>3. ASSUME NEW c \in Callers, Handler(c), ~CreateRunInsert(c) PROVE A
    <3>1. Step(c)
      BY <2>3, ReturnKeeps, CreateRunStartKeeps, CreateRunCleanupKeeps, DropRunKeeps, DropRunCascadeKeeps,
         FindRunKeeps, ListChildrenKeeps, FanOutKeeps, SummarizeKeeps, DeleteRunBatchKeeps,
         ReadObservationsKeeps, RenameRunKeeps, RenameRunParamsKeeps, RenameRunChildKeeps,
         RenameRunCommitKeeps, RenameRunRollbackKeeps, EditSessionKeeps, RereadSessionKeeps,
         SessionRequestKeeps DEF Handler
    <3> QED
      BY <2>1, <3>1 DEF Step
  <2>4. ASSUME NEW c \in Callers, NEW o \in Ops, NEW s \in Children, NEW t \in Texts, Request(c, o, s, t)
        PROVE  A
    BY <2>1, <2>4, RequestKeeps
  <2>5. ASSUME NEW s \in Children, WorkerFinishes(s) \/ \E a \in IPs : Observe(s, a) PROVE A
    BY <2>1, <2>5, WorkerEffect
  <2> HIDE DEF A
  <2> QED
    BY <2>2, <2>3, <2>4, <2>5 DEF Next
<1> QED
  BY <1>1, InvHolds, PTL DEF Spec, ChosenNamesKept

\* A StopRun or ReenableRun that answers 200 met each child in the state it
\* asks for, or gone, since it was asked, and StopRun's summary says running
\* only if a child was started meanwhile (fanOut in api/runs.go).
THEOREM FanOutReachesHolds == Spec => []FanOutReaches
<1>1. Inv => FanOutReaches
  BY DEF Inv
<1> QED
  BY <1>1, InvHolds, PTL

\* Every address that a RunReport puts into its pool belongs to a child it
\* listed, although the tables are read one after the other (api/run_report.go).
THEOREM PoolMatchesCellsHolds == Spec => []PoolMatchesCells
<1>1. Inv => PoolMatchesCells
  BY DEF Inv
<1> QED
  BY <1>1, InvHolds, PTL

=============================================================================
