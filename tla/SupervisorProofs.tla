-------------------------- MODULE SupervisorProofs --------------------------
(***************************************************************************)
(* Proofs about Supervisor, for every set of sessions, handlers and worker *)
(* identities, every capacity of the sink and any number of restarts.      *)
(***************************************************************************)
EXTENDS Supervisor, FiniteSetTheorems, WellFoundedInduction, TLAPS

ThreadType == [pc : ThreadPc,
               op : {"none", "resume", "recover", "create", "reenable", "stop",
                     "delete", "deleteSessions"},
               want : SUBSET Sessions, cur : Sessions \cup {0},
               ptr : Workers \cup {None}, capped : BOOLEAN,
               res : {"none", "ok", "stale", "notRunning", "err"}]
WorkerType == [pc : {"run", "enqueue", "finish", "exit", "gone"},
               id : Sessions \cup {0}, cancelled : BOOLEAN, capped : BOOLEAN]

\* What a thread holds the locks of, or is on its way to.
Targets(t) == IF th[t].op = "deleteSessions" THEN th[t].want ELSE {th[t].cur}

Outside == {"idle", "cleanup", "cleanupDelete", "recoverWait", "failed"}
Inside  == {"start", "publish", "stop", "stopWait", "stopRead", "stopRow", "restore",
            "schedule", "read", "flush", "flushWait", "chDelete", "pgDelete"}

\* Where an operation o can stand, and where it remembers a worker x.
Fits(o, p, x) ==
  /\ o \in {"recover", "resume"} => p \in {"recoverWait", "lock", "start", "publish", "release", "failed"}
  /\ p = "recoverWait" => o = "recover"
  /\ p = "failed" => o = "resume"
  /\ p \in {"cleanup", "cleanupDelete"} => o = "create"
  /\ p \in {"stop", "stopWait", "stopRead", "stopRow", "restore", "schedule"} =>
       o \in {"stop", "delete", "deleteSessions"}
  /\ p \in {"read", "flush", "flushWait", "chDelete", "pgDelete"} => o \in {"delete", "deleteSessions"}
  /\ p \in {"stopWait", "schedule", "restore"} => x # None
  /\ x # None => /\ p \in {"stopWait", "schedule", "restore", "stopRow", "release"}
                 /\ o \in {"stop", "delete", "deleteSessions"}

Single == {"recover", "create", "reenable", "stop", "delete"}

\* Which threads can be where, and that a thread under way has a target.
Placed ==
  \A t \in Threads :
    /\ th[t].pc = "idle" => th[t] = IdleThread
    /\ th[t].pc # "idle" => th[t].cur \in th[t].want /\ th[t].op # "none"
    /\ t = Main => th[t].op \in {"none", "resume"}
    /\ t \in Workers => th[t].op \in {"none", "recover"}
    /\ t \in Callers => th[t].op \in Ops \cup {"none"}
    /\ th[t].op \in Single => th[t].want = {th[t].cur}
    /\ Fits(th[t].op, th[t].pc, th[t].ptr)

\* Which locks a thread holds, by where it stands.
LockPlaces ==
  \A t \in Threads :
    /\ th[t].pc \in Outside => Held(t) = {}
    /\ th[t].pc = "lock"    => Held(t) = {s \in Targets(t) : s < th[t].cur}
    /\ th[t].pc \in Inside  => Held(t) = Targets(t)
    /\ th[t].pc = "release" => Held(t) \subseteq Targets(t)

\* The sink answers only a flush that waits, and once.
Barriers ==
  \A i \in DOMAIN queue : queue[i] \in Threads =>
    /\ th[queue[i]].pc = "flushWait"
    /\ \A j \in DOMAIN queue : queue[j] = queue[i] => j = i

\* The map and the running goroutines agree.
MapInv ==
  /\ \A w \in Workers : Live(w) => wk[w].id \in Sessions /\ workers[wk[w].id] = w
  /\ \A s \in Sessions : workers[s] # None => Live(workers[s]) /\ wk[workers[s]].id = s

\* What the phases of the process imply.
Life ==
  /\ phase \in {"boot", "serving"} => ~closing /\ ~rootDone
  /\ phase \in {"draining", "stopped"} => rootDone
  /\ phase = "stopped" => closing
  /\ phase # "boot" => th[Main].pc = "idle"
  /\ phase = "boot" => \A t \in Threads \ {Main} : th[t].pc = "idle"
  /\ phase = "boot" => \A w \in Workers : ~wk[w].cancelled

\* The worker a stop remembers is the one it cancelled: while the lock is held
\* no other takes its place, and its identity is not reused.
Pointers ==
  /\ \A t \in Threads : th[t].pc \in {"stopWait", "schedule"} => workers[th[t].cur] \in {th[t].ptr, None}
  /\ \A t \in Threads : th[t].pc \in {"stopRead", "stopRow", "restore"} => workers[th[t].cur] = None
  /\ \A t \in Threads, w \in Workers :
       /\ th[t].ptr = w /\ Live(w) => wk[w].id = th[t].cur
       /\ th[t].ptr = w /\ th[w].pc # "idle" => th[w].cur = th[t].cur
  /\ \A w \in Workers : th[w].pc # "idle" /\ Live(w) => th[w].pc = "recoverWait" /\ th[w].cur = wk[w].id
  /\ \A t, u \in Threads : th[t].ptr = th[u].ptr /\ th[t].ptr # None => th[t].cur = th[u].cur

Base == TypeOK /\ Placed /\ LockPlaces /\ Barriers /\ MapInv /\ Life /\ WaitDrains /\ Pointers

-----------------------------------------------------------------------------
(* Sets of sessions.                                                       *)

\* The least element of a set of naturals.
LEMMA MinIn ==
  ASSUME NEW S \in SUBSET Nat, S # {}
  PROVE  Min(S) \in S /\ \A y \in S : Min(S) <= y
<1>1. PICK x \in S : \A y \in S : ~(<<y, x>> \in OpToRel(<, Nat))
  BY NatLessThanWellFounded, WFMin
<1>2. ASSUME NEW y \in S PROVE x <= y
  <2>1. x \in Nat /\ y \in Nat
    OBVIOUS
  <2>2. y < x => <<y, x>> \in OpToRel(<, Nat)
    BY <2>1 DEF OpToRel
  <2>3. ~(y < x)
    BY <1>1, <2>2
  <2> QED
    BY <2>1, <2>3
<1> QED
  BY <1>2 DEF Min

\* The greatest element of a finite set of naturals is the one with the fewest
\* above it.
LEMMA MaxIn ==
  ASSUME NEW S \in SUBSET Nat, S # {}, IsFiniteSet(S)
  PROVE  Max(S) \in S /\ \A y \in S : Max(S) >= y
<1> DEFINE Above(x) == {y \in S : y > x}
           Sizes == {n \in Nat : \E x \in S : n = Cardinality(Above(x))}
<1>1. \A x \in S : IsFiniteSet(Above(x)) /\ Cardinality(Above(x)) \in Nat
  <2> TAKE x \in S
  <2>1. Above(x) \in SUBSET S
    OBVIOUS
  <2>2. IsFiniteSet(Above(x))
    BY <2>1, FS_Subset
  <2> QED
    BY <2>2, FS_CardinalityType
<1>2. Sizes # {} /\ Sizes \in SUBSET Nat
  BY <1>1
<1>3. PICK n \in Sizes : \A m \in Sizes : n <= m
  BY <1>2, MinIn
<1>4. PICK x \in S : n = Cardinality(Above(x))
  OBVIOUS
<1>5. ASSUME NEW y \in S PROVE x >= y
  <2>0. x \in Nat /\ y \in Nat
    OBVIOUS
  <2>1. ASSUME y > x PROVE FALSE
    <3>1. Above(y) \in SUBSET Above(x) /\ y \in Above(x) /\ y \notin Above(y)
      <4>1. ASSUME NEW z \in S, z > y PROVE z > x
        <5>1. z \in Nat
          OBVIOUS
        <5> QED
          BY <2>0, <2>1, <4>1, <5>1
      <4>2. y > x /\ ~(y > y)
        BY <2>0, <2>1
      <4> QED
        BY <4>1, <4>2, Zenon
    <3>2. Cardinality(Above(y)) <= Cardinality(Above(x)) /\ Cardinality(Above(y)) # Cardinality(Above(x))
      BY <1>1, <3>1, FS_Subset
    <3>3. Cardinality(Above(y)) \in Sizes
      BY <1>1
    <3> QED
      BY <1>1, <1>3, <1>4, <3>2, <3>3
  <2> QED
    BY <2>0, <2>1
<1> QED
  BY <1>5 DEF Max

LEMMA SessionsNat == /\ Sessions \in SUBSET Nat /\ 0 \notin Sessions /\ IsFiniteSet(Sessions)
                     /\ \A s \in Sessions : s \notin Threads /\ s # None
BY SupervisorAssumption

\* The parts of a set of sessions have a least element.
LEMMA MinSession ==
  ASSUME NEW S \in SUBSET Sessions, S # {}
  PROVE  Min(S) \in S /\ Min(S) \in Sessions /\ \A y \in S : Min(S) <= y
BY SessionsNat, MinIn

-----------------------------------------------------------------------------
(* What a step does to the record of a thread.                             *)

Becomes(t, p, c, x, k, r) ==
  /\ th' \in [Threads -> ThreadType]
  /\ th'[t].pc = p /\ th'[t].op = th[t].op /\ th'[t].want = th[t].want
  /\ th'[t].cur = c /\ th'[t].ptr = x /\ th'[t].capped = k /\ th'[t].res = r
  /\ \A u \in Threads : u # t => th'[u] = th[u]

Moves(t, p) == Becomes(t, p, th[t].cur, th[t].ptr, th[t].capped, th[t].res)
Ends(t, r)  == Becomes(t, "release", th[t].cur, th[t].ptr, th[t].capped, r)

\* The thread starts from nothing: a request, Resume.
Begins(t, o, S) ==
  /\ th' \in [Threads -> ThreadType]
  /\ th'[t].pc = "lock" /\ th'[t].op = o /\ th'[t].want = S /\ th'[t].cur = Min(S)
  /\ th'[t].ptr = None /\ th'[t].capped = FALSE /\ th'[t].res = "none"
  /\ \A u \in Threads : u # t => th'[u] = th[u]

Forgets(t) ==
  /\ th' \in [Threads -> ThreadType]
  /\ th'[t] = IdleThread
  /\ \A u \in Threads : u # t => th'[u] = th[u]

Later(t) == {s \in th[t].want : s > th[t].cur}
Advances(t, done, r) ==
  IF th[t].op = "deleteSessions" /\ Later(t) # {}
  THEN Becomes(t, "read", Min(Later(t)), None, FALSE, r)
  ELSE Becomes(t, done, Min(th[t].want), None, FALSE, r)

LEMMA ThreadTypes == TypeOK => th \in [Threads -> ThreadType]
BY DEF TypeOK, ThreadType

LEMMA IdleTyped == IdleThread \in ThreadType
BY DEF IdleThread, ThreadType, ThreadPc

\* A record written as a whole.
LEMMA SetsRecord ==
  ASSUME TypeOK, NEW t \in Threads, NEW r \in ThreadType, th' = [th EXCEPT ![t] = r]
  PROVE  /\ th' \in [Threads -> ThreadType] /\ th'[t] = r
         /\ \A u \in Threads : u # t => th'[u] = th[u]
BY ThreadTypes

LEMMA ForgetForgets ==
  ASSUME TypeOK, NEW t \in Threads, th' = [th EXCEPT ![t] = IdleThread]
  PROVE  Forgets(t)
BY IdleTyped, SetsRecord DEF Forgets

LEMMA GotoMoves ==
  ASSUME TypeOK, NEW t \in Threads, NEW p \in ThreadPc, Goto(t, p)
  PROVE  Moves(t, p)
BY ThreadTypes DEF Goto, Moves, Becomes, ThreadType

LEMMA FinishEnds ==
  ASSUME TypeOK, NEW t \in Threads, NEW r \in {"none", "ok", "stale", "notRunning", "err"}, Finish(t, r)
  PROVE  Ends(t, r)
<1>1. th' = [th EXCEPT ![t].pc = "release", ![t].res = r]
  BY DEF Finish
<1>2. "release" \in ThreadPc
  BY DEF ThreadPc
<1> QED
  BY <1>1, <1>2, ThreadTypes DEF Ends, Becomes, ThreadType

LEMMA TwoFields ==
  ASSUME TypeOK, NEW t \in Threads, NEW p \in ThreadPc
  PROVE  /\ \A c \in Sessions : th' = [th EXCEPT ![t].pc = p, ![t].cur = c] =>
              Becomes(t, p, c, th[t].ptr, th[t].capped, th[t].res)
         /\ \A c \in Sessions : th' = [th EXCEPT ![t].cur = c] =>
              Becomes(t, th[t].pc, c, th[t].ptr, th[t].capped, th[t].res)
         /\ \A w \in Workers : th' = [th EXCEPT ![t].pc = p, ![t].ptr = w] =>
              Becomes(t, p, th[t].cur, w, th[t].capped, th[t].res)
         /\ \A k \in BOOLEAN : th' = [th EXCEPT ![t].pc = p, ![t].capped = k] =>
              Becomes(t, p, th[t].cur, th[t].ptr, k, th[t].res)
<1>0. th \in [Threads -> ThreadType]
  BY ThreadTypes
<1>1. ASSUME NEW c \in Sessions, th' = [th EXCEPT ![t].pc = p, ![t].cur = c]
      PROVE  Becomes(t, p, c, th[t].ptr, th[t].capped, th[t].res)
  BY <1>0, <1>1 DEF Becomes, ThreadType
<1>2. ASSUME NEW c \in Sessions, th' = [th EXCEPT ![t].cur = c]
      PROVE  Becomes(t, th[t].pc, c, th[t].ptr, th[t].capped, th[t].res)
  BY <1>0, <1>2 DEF Becomes, ThreadType
<1>3. ASSUME NEW w \in Workers, th' = [th EXCEPT ![t].pc = p, ![t].ptr = w]
      PROVE  Becomes(t, p, th[t].cur, w, th[t].capped, th[t].res)
  BY <1>0, <1>3 DEF Becomes, ThreadType
<1>4. ASSUME NEW k \in BOOLEAN, th' = [th EXCEPT ![t].pc = p, ![t].capped = k]
      PROVE  Becomes(t, p, th[t].cur, th[t].ptr, k, th[t].res)
  BY <1>0, <1>4 DEF Becomes, ThreadType
<1> QED
  BY <1>1, <1>2, <1>3, <1>4

Results == {"none", "ok", "stale", "notRunning", "err"}

\* A target has been stopped: the operation ends or turns to the next one.
StopDone(t, r) ==
  IF th[t].op = "stop" THEN Ends(t, r) ELSE Advances(t, "flush", th[t].res)

LEMMA TargetTyped ==
  ASSUME TypeOK, Placed, NEW t \in Threads, th[t].pc # "idle"
  PROVE  /\ th[t].want \in SUBSET Sessions /\ th[t].cur \in Sessions /\ th[t].cur \in th[t].want
         /\ Min(th[t].want) \in th[t].want /\ Min(th[t].want) \in Sessions
         /\ \A y \in th[t].want : Min(th[t].want) <= y
         /\ Later(t) \in SUBSET Sessions
         /\ Later(t) # {} => /\ Min(Later(t)) \in Later(t) /\ Min(Later(t)) \in Sessions
                             /\ \A y \in Later(t) : Min(Later(t)) <= y
<1>1. th[t].want \in SUBSET Sessions /\ th[t].cur \in th[t].want
  BY ThreadTypes DEF Placed, ThreadType
<1>2. Later(t) \in SUBSET Sessions
  BY <1>1 DEF Later
<1> QED
  BY <1>1, <1>2, MinSession

LEMMA NextTargetAdvances ==
  ASSUME TypeOK, Placed, NEW t \in Threads, th[t].pc # "idle", NEW p \in ThreadPc,
         th' = [th EXCEPT ![t] = NextTarget(t, p)]
  PROVE  Advances(t, p, th[t].res)
<1>1. th \in [Threads -> ThreadType]
  BY ThreadTypes
<1>2. CASE th[t].op = "deleteSessions" /\ Later(t) # {}
  <2> DEFINE r == [th[t] EXCEPT !.pc = "read", !.cur = Min(Later(t)), !.ptr = None, !.capped = FALSE]
  <2>1. NextTarget(t, p) = r
    BY <1>2 DEF NextTarget, Later
  <2>2. Min(Later(t)) \in Sessions /\ "read" \in ThreadPc
    BY <1>2, TargetTyped DEF ThreadPc
  <2>3. /\ r \in ThreadType /\ r.pc = "read" /\ r.op = th[t].op /\ r.want = th[t].want
        /\ r.cur = Min(Later(t)) /\ r.ptr = None /\ r.capped = FALSE /\ r.res = th[t].res
    BY <1>1, <2>2 DEF ThreadType
  <2> HIDE DEF r
  <2> QED
    BY <1>2, <2>1, <2>3, SetsRecord DEF Advances, Becomes
<1>3. CASE ~(th[t].op = "deleteSessions" /\ Later(t) # {})
  <2> DEFINE r == [th[t] EXCEPT !.pc = p, !.cur = Min(th[t].want), !.ptr = None, !.capped = FALSE]
  <2>1. NextTarget(t, p) = r
    BY <1>3 DEF NextTarget, Later
  <2>2. Min(th[t].want) \in Sessions
    BY TargetTyped
  <2>3. /\ r \in ThreadType /\ r.pc = p /\ r.op = th[t].op /\ r.want = th[t].want
        /\ r.cur = Min(th[t].want) /\ r.ptr = None /\ r.capped = FALSE /\ r.res = th[t].res
    BY <1>1, <2>2 DEF ThreadType
  <2> HIDE DEF r
  <2> QED
    BY <1>3, <2>1, <2>3, SetsRecord DEF Advances, Becomes
<1> QED
  BY <1>2, <1>3

LEMMA AfterStopDone ==
  ASSUME TypeOK, Placed, NEW t \in Threads, th[t].pc # "idle", NEW r \in Results, AfterStop(t, r)
  PROVE  StopDone(t, r)
<1>1. "flush" \in ThreadPc
  BY DEF ThreadPc
<1>2. CASE th[t].op = "stop"
  <2>1. Finish(t, r)
    BY <1>2 DEF AfterStop
  <2> QED
    BY <1>2, <2>1, FinishEnds DEF StopDone, Results
<1>3. CASE th[t].op # "stop"
  <2>1. th' = [th EXCEPT ![t] = NextTarget(t, "flush")]
    BY <1>3 DEF AfterStop
  <2>2. Advances(t, "flush", th[t].res)
    BY <1>1, <2>1, NextTargetAdvances
  <2> QED
    BY <1>3, <2>2 DEF StopDone
<1> QED
  BY <1>2, <1>3

LEMMA BeginBegins ==
  ASSUME TypeOK, NEW t \in Threads, NEW S \in SUBSET Sessions, S # {},
         NEW o \in {"none", "resume", "recover", "create", "reenable", "stop", "delete", "deleteSessions"},
         Begin(t, o, S)
  PROVE  Begins(t, o, S)
<1> DEFINE r == [IdleThread EXCEPT !.pc = "lock", !.op = o, !.want = S, !.cur = Min(S)]
<1>1. Min(S) \in Sessions
  BY MinSession
<1>2. IdleThread \in ThreadType /\ IdleThread.ptr = None /\ IdleThread.capped = FALSE /\ IdleThread.res = "none"
  BY IdleTyped DEF IdleThread
<1>3. /\ r \in ThreadType /\ r.pc = "lock" /\ r.op = o /\ r.want = S /\ r.cur = Min(S)
      /\ r.ptr = None /\ r.capped = FALSE /\ r.res = "none"
  BY <1>1, <1>2 DEF ThreadType, ThreadPc
<1>4. th' = [th EXCEPT ![t] = r]
  BY DEF Begin
<1> HIDE DEF r
<1> QED
  BY <1>3, <1>4, SetsRecord DEF Begins

-----------------------------------------------------------------------------
(* Placed.                                                                 *)

LEMMA RolesDisjoint ==
  /\ Callers \cap Workers = {} /\ Main \notin Callers /\ Main \notin Workers
  /\ Threads = Callers \cup Workers \cup {Main} /\ None \notin Threads /\ None \notin Workers
BY SupervisorAssumption DEF Threads

LEMMA PlacedBecomes ==
  ASSUME Placed, NEW t \in Threads, th[t].pc # "idle",
         NEW p \in ThreadPc, p # "idle", NEW c \in th[t].want, NEW x, NEW k, NEW r,
         Becomes(t, p, c, x, k, r), Fits(th[t].op, p, x)
  PROVE  Placed'
<1> SUFFICES ASSUME NEW u \in Threads
             PROVE  /\ th'[u].pc = "idle" => th'[u] = IdleThread
                    /\ th'[u].pc # "idle" => th'[u].cur \in th'[u].want /\ th'[u].op # "none"
                    /\ u = Main => th'[u].op \in {"none", "resume"}
                    /\ u \in Workers => th'[u].op \in {"none", "recover"}
                    /\ u \in Callers => th'[u].op \in Ops \cup {"none"}
                    /\ th'[u].op \in Single => th'[u].want = {th'[u].cur}
                    /\ Fits(th'[u].op, th'[u].pc, th'[u].ptr)
  BY DEF Placed, IdleThread
<1>1. CASE u # t
  BY <1>1 DEF Placed, Becomes
<1>2. CASE u = t
  BY <1>2 DEF Placed, Becomes
<1> QED
  BY <1>1, <1>2

LEMMA IdleFits == /\ IdleThread.pc = "idle" /\ IdleThread.op = "none" /\ IdleThread.ptr = None
                  /\ IdleThread.want = {} /\ Fits(IdleThread.op, IdleThread.pc, IdleThread.ptr)
BY DEF IdleThread, Fits

LEMMA PlacedForgets ==
  ASSUME Placed, NEW t \in Threads, Forgets(t)
  PROVE  Placed'
BY IdleFits DEF Placed, Forgets, Single

LEMMA PlacedBegins ==
  ASSUME Placed, NEW t \in Threads, NEW o, NEW S \in SUBSET Sessions, S # {}, Begins(t, o, S),
         \/ t = Main /\ o = "resume"
         \/ t \in Callers /\ o \in Ops /\ (o \in Single => \E s \in Sessions : S = {s})
  PROVE  Placed'
<1> SUFFICES ASSUME NEW u \in Threads
             PROVE  /\ th'[u].pc = "idle" => th'[u] = IdleThread
                    /\ th'[u].pc # "idle" => th'[u].cur \in th'[u].want /\ th'[u].op # "none"
                    /\ u = Main => th'[u].op \in {"none", "resume"}
                    /\ u \in Workers => th'[u].op \in {"none", "recover"}
                    /\ u \in Callers => th'[u].op \in Ops \cup {"none"}
                    /\ th'[u].op \in Single => th'[u].want = {th'[u].cur}
                    /\ Fits(th'[u].op, th'[u].pc, th'[u].ptr)
  BY DEF Placed, IdleThread
<1>1. CASE u # t
  BY <1>1 DEF Placed, Begins
<1>2. CASE u = t
  <2>1. Min(S) \in S
    BY MinSession
  <2>2. o # "none" /\ o # "recover"
    BY SupervisorAssumption
  <2>3. Fits(o, "lock", None)
    BY DEF Fits
  <2>4. o \in Single => S = {Min(S)}
    BY <2>1 DEF Single
  <2> QED
    BY <1>2, <2>1, <2>2, <2>3, <2>4, RolesDisjoint DEF Begins
<1> QED
  BY <1>1, <1>2

-----------------------------------------------------------------------------
(* A step of an operation that has its locks.                              *)

Keeps(t, p, c, x) ==
  /\ c \in Targets(t)
  /\ x # None => c = th[t].cur /\ (x = th[t].ptr \/ x = workers[c])
  /\ p \in {"stopWait", "schedule"} => workers[c] \in {x, None}
  /\ p \in {"stopRead", "stopRow", "restore"} => workers[c] = None

Works(t, p, c, x, k, r) ==
  /\ th[t].pc \in Inside /\ p \in Inside \cup {"release"}
  /\ Becomes(t, p, c, x, k, r) /\ Fits(th[t].op, p, x) /\ Keeps(t, p, c, x)

Working(t) == \E p, c, x, k, r : Works(t, p, c, x, k, r)

Stops == {"stop", "stopWait", "stopRead", "stopRow", "restore", "schedule"}

LEMMA WorksMoves ==
  ASSUME Base, NEW t \in Threads, th[t].pc \in Inside, NEW p \in Inside, Moves(t, p), th[t].ptr = None,
         Fits(th[t].op, p, None), p \in {"stopRead", "stopRow", "restore"} => workers[th[t].cur] = None
  PROVE  Works(t, p, th[t].cur, th[t].ptr, th[t].capped, th[t].res)
<1>1. th[t].cur \in Targets(t)
  BY DEF Base, Placed, Targets, Inside
<1>2. p \notin {"stopWait", "schedule"}
  BY DEF Fits
<1> QED
  BY <1>1, <1>2 DEF Works, Moves, Keeps

LEMMA WorksEnds ==
  ASSUME Base, NEW t \in Threads, th[t].pc \in Inside, NEW r, Ends(t, r)
  PROVE  Works(t, "release", th[t].cur, th[t].ptr, th[t].capped, r)
<1>1. th[t].cur \in Targets(t)
  BY DEF Base, Placed, Targets, Inside
<1>2. Fits(th[t].op, "release", th[t].ptr)
  BY DEF Base, Placed, Fits
<1> QED
  BY <1>1, <1>2 DEF Works, Ends, Keeps

LEMMA BatchTargets ==
  ASSUME Base, NEW t \in Threads, th[t].pc # "idle", th[t].op \in {"delete", "deleteSessions"}
  PROVE  /\ Targets(t) = th[t].want /\ Min(th[t].want) \in Targets(t)
         /\ Later(t) # {} => Min(Later(t)) \in Targets(t)
<1>1. Targets(t) = th[t].want
  BY DEF Base, Placed, Targets, Single
<1> QED
  BY <1>1, TargetTyped DEF Base, Later

LEMMA WorksAdvances ==
  ASSUME Base, NEW t \in Threads, th[t].pc \in Inside, th[t].op \in {"delete", "deleteSessions"},
         NEW p \in {"flush", "release"}, NEW r, Advances(t, p, r)
  PROVE  \E q \in {"read", p}, c \in Sessions : Works(t, q, c, None, FALSE, r)
<1>1. th[t].pc # "idle"
  BY DEF Inside
<1>2. CASE th[t].op = "deleteSessions" /\ Later(t) # {}
  <2>1. Becomes(t, "read", Min(Later(t)), None, FALSE, r)
    BY <1>2 DEF Advances
  <2>2. Min(Later(t)) \in Targets(t) /\ Min(Later(t)) \in Sessions
    BY <1>1, <1>2, BatchTargets, TargetTyped DEF Base
  <2>3. Fits(th[t].op, "read", None) /\ Keeps(t, "read", Min(Later(t)), None)
    BY <2>2 DEF Fits, Keeps
  <2> QED
    BY <2>1, <2>2, <2>3 DEF Works, Inside
<1>3. CASE ~(th[t].op = "deleteSessions" /\ Later(t) # {})
  <2>1. Becomes(t, p, Min(th[t].want), None, FALSE, r)
    BY <1>3 DEF Advances
  <2>2. Min(th[t].want) \in Targets(t) /\ Min(th[t].want) \in Sessions
    BY <1>1, BatchTargets, TargetTyped DEF Base
  <2>3. Fits(th[t].op, p, None) /\ Keeps(t, p, Min(th[t].want), None)
    BY <2>2 DEF Fits, Keeps
  <2> QED
    BY <2>1, <2>2, <2>3 DEF Works, Inside
<1> QED
  BY <1>2, <1>3

LEMMA WorksStopDone ==
  ASSUME Base, NEW t \in Threads, th[t].pc \in Stops, NEW r, StopDone(t, r)
  PROVE  Working(t)
<1>1. th[t].pc \in Inside /\ th[t].op \in {"stop", "delete", "deleteSessions"}
  BY DEF Base, Placed, Fits, Stops, Inside
<1>2. CASE th[t].op = "stop"
  BY <1>1, <1>2, WorksEnds DEF StopDone, Working
<1>3. CASE th[t].op # "stop"
  BY <1>1, <1>3, WorksAdvances DEF StopDone, Working
<1> QED
  BY <1>2, <1>3

\* FinishStart, as the end of an operation.
LEMMA FinishStartEnds ==
  ASSUME TypeOK, NEW t \in Threads, NEW r \in Results, FinishStart(t, r)
  PROVE  Ends(t, IF Starting(t) THEN r ELSE "err")
BY FinishEnds DEF FinishStart, Results

LEMMA InsidePcs == Inside \subseteq ThreadPc /\ "release" \in ThreadPc /\ "lock" \in ThreadPc /\ "idle" \notin Inside
BY DEF Inside, ThreadPc

LEMMA StartCurrentWorks ==
  ASSUME Base, NEW t \in Threads, StartCurrent(t)
  PROVE  Working(t)
<1>1. th[t].pc = "start" /\ th[t].pc \in Inside /\ TypeOK
  BY DEF StartCurrent, Inside, Base
<1>2. ASSUME NEW r \in {"ok", "stale", "err"}, FinishStart(t, r) PROVE Working(t)
  BY <1>1, <1>2, FinishStartEnds, WorksEnds DEF Results, Working
<1>3. ASSUME Goto(t, "publish") PROVE Working(t)
  <2>1. th[t].ptr = None /\ Fits(th[t].op, "publish", None)
    BY <1>1 DEF Base, Placed, Fits
  <2>2. "publish" \in Inside
    BY DEF Inside
  <2> QED
    BY <1>1, <1>3, <2>1, <2>2, InsidePcs, GotoMoves, WorksMoves DEF Working
<1> QED
  BY <1>2, <1>3 DEF StartCurrent

LEMMA PublishWorks ==
  ASSUME Base, NEW t \in Threads, Publish(t)
  PROVE  Working(t) /\ th'[t].pc = "release"
<1>1. th[t].pc = "publish" /\ th[t].pc \in Inside /\ TypeOK
  BY DEF Publish, Inside, Base
<1>2. \E r \in Results : FinishStart(t, r)
  BY DEF Publish, Results
<1> QED
  BY <1>1, <1>2, FinishStartEnds, WorksEnds DEF Working, Ends, Becomes

LEMMA StopLookWorks ==
  ASSUME Base, NEW t \in Threads, StopLook(t)
  PROVE  \/ workers[th[t].cur] = None /\ Works(t, "stopRead", th[t].cur, th[t].ptr, th[t].capped, th[t].res)
         \/ /\ workers[th[t].cur] \in Workers
            /\ Works(t, "stopWait", th[t].cur, workers[th[t].cur], th[t].capped, th[t].res)
<1>1. th[t].pc = "stop" /\ th[t].pc \in Inside /\ TypeOK /\ th[t].ptr = None
  BY DEF StopLook, Inside, Base, Placed, Fits
<1>2. th[t].op \in {"stop", "delete", "deleteSessions"} /\ th[t].cur \in Sessions /\ th[t].cur \in Targets(t)
  BY <1>1, TargetTyped DEF Base, Placed, Fits, Targets
<1>3. CASE workers[th[t].cur] = None
  <2>1. Goto(t, "stopRead")
    BY <1>3 DEF StopLook
  <2>2. "stopRead" \in Inside /\ Fits(th[t].op, "stopRead", None)
    BY <1>2 DEF Inside, Fits
  <2> QED
    BY <1>1, <1>3, <2>1, <2>2, InsidePcs, GotoMoves, WorksMoves
<1>4. CASE workers[th[t].cur] # None
  <2> DEFINE w == workers[th[t].cur]
  <2>1. th' = [th EXCEPT ![t].pc = "stopWait", ![t].ptr = w] /\ w \in Workers
    BY <1>1, <1>2, <1>4 DEF StopLook, TypeOK
  <2>2. "stopWait" \in ThreadPc /\ "stopWait" \in Inside
    BY DEF ThreadPc, Inside
  <2>3. Becomes(t, "stopWait", th[t].cur, w, th[t].capped, th[t].res)
    BY <1>1, <2>1, <2>2, TwoFields
  <2>4. Fits(th[t].op, "stopWait", w) /\ Keeps(t, "stopWait", th[t].cur, w)
    BY <1>2, <1>4 DEF Fits, Keeps
  <2> QED
    BY <1>1, <2>1, <2>2, <2>3, <2>4 DEF Works
<1> QED
  BY <1>3, <1>4

LEMMA WorkerTyped ==
  ASSUME TypeOK, NEW w \in Workers
  PROVE  /\ wk \in [Workers -> WorkerType] /\ wk[w] \in WorkerType /\ wk[w].capped \in BOOLEAN
         /\ wk[w].cancelled \in BOOLEAN /\ wk[w].id \in Sessions \cup {0}
         /\ wk[w].pc \in {"run", "enqueue", "finish", "exit", "gone"}
<1>1. wk \in [Workers -> WorkerType]
  BY DEF TypeOK, WorkerType
<1> QED
  BY <1>1 DEF WorkerType

LEMMA StopWaitWorks ==
  ASSUME Base, NEW t \in Threads, StopWait(t)
  PROVE  /\ th[t].ptr \in Workers
         /\ \/ /\ ~Live(th[t].ptr) /\ workers[th[t].cur] = None
               /\ Works(t, "stopRow", th[t].cur, th[t].ptr, wk[th[t].ptr].capped, th[t].res)
               /\ wk' = [wk EXCEPT ![th[t].ptr] = NoWorker]
            \/ /\ Live(th[t].ptr) /\ UNCHANGED wk
               /\ Works(t, "schedule", th[t].cur, th[t].ptr, th[t].capped, th[t].res)
<1> DEFINE w == th[t].ptr
<1>1. th[t].pc = "stopWait" /\ th[t].pc \in Inside /\ TypeOK /\ th[t].ptr # None
  BY DEF StopWait, Inside, Base, Placed, Fits
<1>2. /\ th[t].op \in {"stop", "delete", "deleteSessions"} /\ th[t].cur \in Sessions /\ th[t].cur \in Targets(t)
      /\ w \in Workers /\ workers[th[t].cur] \in {w, None}
  BY <1>1, TargetTyped, ThreadTypes DEF Base, Placed, Fits, Targets, ThreadType, Pointers
<1>3. CASE /\ ~Live(w) /\ th' = [th EXCEPT ![t].pc = "stopRow", ![t].capped = wk[w].capped]
           /\ wk' = [wk EXCEPT ![w] = NoWorker]
  <2>1. "stopRow" \in ThreadPc /\ "stopRow" \in Inside /\ wk[w].capped \in BOOLEAN
    BY <1>1, <1>2, WorkerTyped DEF ThreadPc, Inside
  <2>2. Becomes(t, "stopRow", th[t].cur, w, wk[w].capped, th[t].res)
    BY <1>1, <1>3, <2>1, TwoFields
  <2>3. workers[th[t].cur] = None
    BY <1>2, <1>3 DEF Base, MapInv
  <2>4. Fits(th[t].op, "stopRow", w) /\ Keeps(t, "stopRow", th[t].cur, w)
    BY <1>2, <2>3 DEF Fits, Keeps
  <2> QED
    BY <1>1, <1>2, <1>3, <2>1, <2>2, <2>3, <2>4 DEF Works
<1>4. CASE Live(w) /\ Goto(t, "schedule") /\ UNCHANGED wk
  <2>1. "schedule" \in ThreadPc /\ "schedule" \in Inside
    BY DEF ThreadPc, Inside
  <2>2. Moves(t, "schedule")
    BY <1>1, <1>4, <2>1, GotoMoves
  <2>3. Fits(th[t].op, "schedule", w) /\ Keeps(t, "schedule", th[t].cur, w)
    BY <1>1, <1>2 DEF Fits, Keeps
  <2> QED
    BY <1>1, <1>2, <1>4, <2>1, <2>2, <2>3 DEF Works, Moves
<1> QED
  BY <1>3, <1>4 DEF StopWait

LEMMA StopReadWorks ==
  ASSUME Base, NEW t \in Threads, StopRead(t)
  PROVE  Working(t)
<1>1. /\ th[t].pc = "stopRead" /\ th[t].pc \in Inside /\ th[t].pc \in Stops /\ TypeOK /\ Placed
      /\ th[t].ptr = None /\ th[t].pc # "idle"
  BY DEF StopRead, Inside, Stops, Base, Placed, Fits
<1>2. th[t].op \in {"stop", "delete", "deleteSessions"} /\ workers[th[t].cur] = None
  BY <1>1 DEF Base, Placed, Fits, Pointers
<1>3. ASSUME Goto(t, "stopRow") PROVE Working(t)
  <2>1. "stopRow" \in Inside /\ Fits(th[t].op, "stopRow", None)
    BY <1>2 DEF Inside, Fits
  <2> QED
    BY <1>1, <1>2, <1>3, <2>1, InsidePcs, GotoMoves, WorksMoves DEF Working
<1>4. ASSUME Goto(t, "start") PROVE Working(t)
  <2>1. "start" \in Inside /\ Fits(th[t].op, "start", None)
    BY <1>2 DEF Inside, Fits
  <2> QED
    BY <1>1, <1>2, <1>4, <2>1, InsidePcs, GotoMoves, WorksMoves DEF Working
<1>5. ASSUME AfterStop(t, "notRunning") PROVE Working(t)
  BY <1>1, <1>5, AfterStopDone, WorksStopDone DEF Results
<1>6. ASSUME Finish(t, "err") PROVE Working(t)
  BY <1>1, <1>6, FinishEnds, WorksEnds DEF Working
<1> QED
  BY <1>3, <1>4, <1>5, <1>6 DEF StopRead

LEMMA RestoreWorks ==
  ASSUME Base, NEW t \in Threads, th[t].pc = "stopRow", Goto(t, Restore(t))
  PROVE  Works(t, Restore(t), th[t].cur, th[t].ptr, th[t].capped, th[t].res)
<1>1. th[t].pc \in Inside /\ TypeOK /\ th[t].pc # "idle"
  BY DEF Inside, Base
<1>2. th[t].op \in {"stop", "delete", "deleteSessions"} /\ workers[th[t].cur] = None /\ th[t].cur \in Targets(t)
  BY <1>1 DEF Base, Placed, Fits, Pointers, Targets
<1>3. Restore(t) \in Inside /\ Fits(th[t].op, Restore(t), th[t].ptr) /\ Restore(t) \in {"start", "restore"}
  BY <1>2 DEF Inside, Fits, Restore
<1>4. Moves(t, Restore(t))
  BY <1>1, <1>3, InsidePcs, GotoMoves
<1> QED
  BY <1>1, <1>2, <1>3, <1>4 DEF Works, Moves, Keeps

LEMMA StopRowWorks ==
  ASSUME Base, NEW t \in Threads, StopRow(t)
  PROVE  Working(t) \/ UNCHANGED th
<1>1. /\ th[t].pc = "stopRow" /\ th[t].pc \in Stops /\ TypeOK /\ Placed /\ th[t].pc # "idle"
  BY DEF StopRow, Stops, Base
<1>2. ASSUME NEW r \in Results, AfterStop(t, r) PROVE Working(t)
  BY <1>1, <1>2, AfterStopDone, WorksStopDone
<1>3. ASSUME Goto(t, Restore(t)) PROVE Working(t)
  BY <1>1, <1>3, RestoreWorks DEF Working
<1> QED
  BY <1>2, <1>3 DEF StopRow, Results

LEMMA RestorePreparedWorks ==
  ASSUME Base, NEW t \in Threads, RestorePrepared(t)
  PROVE  Working(t) /\ th'[t].pc = "release"
<1>1. th[t].pc = "restore" /\ th[t].pc \in Inside /\ TypeOK /\ Finish(t, "err")
  BY DEF RestorePrepared, Inside, Base
<1> QED
  BY <1>1, FinishEnds, WorksEnds DEF Working, Ends, Becomes

LEMMA DeleteReadWorks ==
  ASSUME Base, NEW t \in Threads, DeleteRead(t)
  PROVE  Working(t)
<1>1. /\ th[t].pc = "read" /\ th[t].pc \in Inside /\ TypeOK /\ Placed
      /\ th[t].ptr = None /\ th[t].pc # "idle" /\ th[t].op \in {"delete", "deleteSessions"}
  BY DEF DeleteRead, Inside, Base, Placed, Fits
<1>2. ASSUME Goto(t, "stop") PROVE Working(t)
  <2>1. "stop" \in Inside /\ Fits(th[t].op, "stop", None)
    BY <1>1 DEF Inside, Fits
  <2> QED
    BY <1>1, <1>2, <2>1, InsidePcs, GotoMoves, WorksMoves DEF Working
<1>3. ASSUME th' = [th EXCEPT ![t] = NextTarget(t, "flush")] PROVE Working(t)
  <2>1. "flush" \in ThreadPc
    BY DEF ThreadPc
  <2>2. Advances(t, "flush", th[t].res)
    BY <1>1, <1>3, <2>1, NextTargetAdvances
  <2> QED
    BY <1>1, <2>2, WorksAdvances DEF Working
<1>4. ASSUME Finish(t, "err") PROVE Working(t)
  BY <1>1, <1>4, FinishEnds, WorksEnds DEF Working
<1> QED
  BY <1>2, <1>3, <1>4 DEF DeleteRead

\* The steps of a deletion after its targets are stopped.
LEMMA DeletionMoves ==
  ASSUME Base, NEW t \in Threads, th[t].pc \in {"flush", "flushWait", "chDelete", "pgDelete"}
  PROVE  /\ \A p \in {"flushWait", "chDelete", "pgDelete"} : Goto(t, p) =>
              Works(t, p, th[t].cur, th[t].ptr, th[t].capped, th[t].res)
         /\ Finish(t, "err") => Works(t, "release", th[t].cur, th[t].ptr, th[t].capped, "err")
<1>1. /\ th[t].pc \in Inside /\ TypeOK /\ th[t].ptr = None /\ th[t].op \in {"delete", "deleteSessions"}
  BY DEF Inside, Base, Placed, Fits
<1>2. ASSUME NEW p \in {"flushWait", "chDelete", "pgDelete"}, Goto(t, p)
      PROVE Works(t, p, th[t].cur, th[t].ptr, th[t].capped, th[t].res)
  <2>1. p \in Inside /\ Fits(th[t].op, p, None)
    BY <1>1 DEF Inside, Fits
  <2> QED
    BY <1>1, <1>2, <2>1, InsidePcs, GotoMoves, WorksMoves
<1>3. ASSUME Finish(t, "err") PROVE Works(t, "release", th[t].cur, th[t].ptr, th[t].capped, "err")
  BY <1>1, <1>3, FinishEnds, WorksEnds
<1> QED
  BY <1>2, <1>3

LEMMA DeleteRowWorks ==
  ASSUME Base, NEW t \in Threads, DeleteRow(t)
  PROVE  Working(t) /\ (th'[t].pc = "release" \/ (th'[t].pc = "pgDelete" /\ th[t].op = "deleteSessions"))
<1>1. /\ th[t].pc = "pgDelete" /\ th[t].pc \in Inside /\ TypeOK /\ Placed
      /\ th[t].pc # "idle" /\ th[t].op \in {"delete", "deleteSessions"}
  BY DEF DeleteRow, Inside, Base, Placed, Fits
<1>2. ASSUME Finish(t, "err") PROVE Working(t) /\ th'[t].pc = "release"
  BY <1>1, <1>2, DeletionMoves DEF Working, Works, Becomes
<1>3. ASSUME th' = [th EXCEPT ![t] = IF NextTarget(t, "release").pc = "read"
                                     THEN [NextTarget(t, "release") EXCEPT !.pc = "pgDelete"]
                                     ELSE [NextTarget(t, "release") EXCEPT !.res = "ok"]]
      PROVE  Working(t) /\ (th'[t].pc = "release" \/ (th'[t].pc = "pgDelete" /\ th[t].op = "deleteSessions"))
  <2>0. th[t] \in ThreadType
    BY <1>1, ThreadTypes
  <2>1. CASE th[t].op = "deleteSessions" /\ Later(t) # {}
    <3> DEFINE c == Min(Later(t))
               r == [th[t] EXCEPT !.pc = "pgDelete", !.cur = c, !.ptr = None, !.capped = FALSE]
    <3>1. c \in Sessions /\ c \in Targets(t)
      BY <1>1, <2>1, BatchTargets, TargetTyped
    <3>2. NextTarget(t, "release") = [th[t] EXCEPT !.pc = "read", !.cur = c, !.ptr = None, !.capped = FALSE]
      BY <2>1 DEF NextTarget, Later
    <3> HIDE DEF c
    <3>3. th' = [th EXCEPT ![t] = r]
      BY <1>3, <2>0, <3>2 DEF ThreadType
    <3>4. /\ r \in ThreadType /\ r.pc = "pgDelete" /\ r.op = th[t].op /\ r.want = th[t].want
          /\ r.cur = c /\ r.ptr = None /\ r.capped = FALSE /\ r.res = th[t].res
      BY <2>0, <3>1 DEF ThreadType, ThreadPc
    <3> HIDE DEF r
    <3>5. Becomes(t, "pgDelete", c, None, FALSE, th[t].res)
      BY <1>1, <3>3, <3>4, SetsRecord DEF Becomes
    <3>6. Fits(th[t].op, "pgDelete", None) /\ Keeps(t, "pgDelete", c, None) /\ "pgDelete" \in Inside
      BY <1>1, <3>1 DEF Fits, Keeps, Inside
    <3> QED
      BY <1>1, <2>1, <3>5, <3>6 DEF Works, Working, Becomes
  <2>2. CASE ~(th[t].op = "deleteSessions" /\ Later(t) # {})
    <3> DEFINE c == Min(th[t].want)
               r == [th[t] EXCEPT !.pc = "release", !.cur = c, !.ptr = None, !.capped = FALSE, !.res = "ok"]
    <3>1. c \in Sessions /\ c \in Targets(t)
      BY <1>1, BatchTargets, TargetTyped
    <3>2. NextTarget(t, "release") = [th[t] EXCEPT !.pc = "release", !.cur = c, !.ptr = None, !.capped = FALSE]
      BY <2>2 DEF NextTarget, Later
    <3> HIDE DEF c
    <3>3. th' = [th EXCEPT ![t] = r]
      BY <1>3, <2>0, <3>2 DEF ThreadType
    <3>4. /\ r \in ThreadType /\ r.pc = "release" /\ r.op = th[t].op /\ r.want = th[t].want
          /\ r.cur = c /\ r.ptr = None /\ r.capped = FALSE /\ r.res = "ok"
      BY <2>0, <3>1 DEF ThreadType, ThreadPc
    <3> HIDE DEF r
    <3>5. Becomes(t, "release", c, None, FALSE, "ok")
      BY <1>1, <3>3, <3>4, SetsRecord DEF Becomes
    <3>6. Fits(th[t].op, "release", None) /\ Keeps(t, "release", c, None)
      BY <1>1, <3>1 DEF Fits, Keeps
    <3> QED
      BY <1>1, <3>5, <3>6 DEF Works, Working, Becomes
  <2> QED
    BY <2>1, <2>2
<1> QED
  BY <1>2, <1>3 DEF DeleteRow

-----------------------------------------------------------------------------
(* The map and the goroutines.                                             *)

\* No worker is added, and the map keeps its agreement with the goroutines.
Shrinks ==
  /\ workers' \in [Sessions -> Workers \cup {None}] /\ wk' \in [Workers -> WorkerType] /\ MapInv'
  /\ \A s \in Sessions : workers'[s] \in {workers[s], None}
  /\ \A w \in Workers : wk'[w].pc # "gone" => wk[w].pc # "gone" /\ wk'[w].id = wk[w].id
                                             /\ (wk[w].capped => wk'[w].capped)
  /\ \A w \in Workers : wk'[w].cancelled => wk[w].cancelled \/ phase # "boot"

\* Session s gets the worker w.
Grows(s, w, k) ==
  /\ w \in FreeWorkers /\ workers[s] = None /\ ~closing /\ ~rootDone
  /\ workers' = [workers EXCEPT ![s] = w]
  /\ wk' \in [Workers -> WorkerType]
  /\ wk'[w].pc = "run" /\ wk'[w].id = s /\ wk'[w].cancelled = FALSE /\ wk'[w].capped = k
  /\ \A v \in Workers : v # w => wk'[v] = wk[v]

LEMMA NoWorkerTyped ==
  /\ NoWorker \in WorkerType /\ NoWorker.pc = "gone" /\ NoWorker.id = 0
  /\ NoWorker.cancelled = FALSE /\ NoWorker.capped = FALSE
BY DEF NoWorker, WorkerType

LEMMA WorkerRecord ==
  ASSUME TypeOK, NEW w \in Workers, NEW r \in WorkerType, wk' = [wk EXCEPT ![w] = r]
  PROVE  /\ wk' \in [Workers -> WorkerType] /\ wk'[w] = r
         /\ \A v \in Workers : v # w => wk'[v] = wk[v]
BY WorkerTyped

LEMMA UnchangedShrinks ==
  ASSUME Base, UNCHANGED <<workers, wk>>
  PROVE  Shrinks
<1>1. workers \in [Sessions -> Workers \cup {None}] /\ wk \in [Workers -> WorkerType]
  BY DEF Base, TypeOK, WorkerType
<1>2. MapInv'
  BY DEF Base, MapInv, Live
<1> QED
  BY <1>1, <1>2 DEF Shrinks

\* A goroutine that goes on changes neither its session nor the map.
LEMMA RecordShrinks ==
  ASSUME Base, UNCHANGED workers, NEW w \in Workers, wk' \in [Workers -> WorkerType],
         wk'[w].pc = "gone" <=> wk[w].pc = "gone",
         wk[w].pc # "gone" => wk'[w].id = wk[w].id /\ (wk[w].capped => wk'[w].capped),
         wk'[w].cancelled => wk[w].cancelled \/ phase # "boot",
         \A v \in Workers : v # w => wk'[v] = wk[v]
  PROVE  Shrinks
<1>1. workers \in [Sessions -> Workers \cup {None}] /\ wk \in [Workers -> WorkerType]
  BY DEF Base, TypeOK, WorkerType
<1>2. MapInv'
  BY <1>1 DEF Base, MapInv, Live
<1> QED
  BY <1>1, <1>2 DEF Shrinks

LEMMA StopLookShrinks ==
  ASSUME Base, NEW t \in Threads, StopLook(t)
  PROVE  Shrinks
<1>1. /\ th[t].pc = "stop" /\ TypeOK /\ th[t].op \in {"stop", "delete", "deleteSessions"}
      /\ th[t].cur \in Sessions /\ UNCHANGED workers
  BY TargetTyped DEF StopLook, Base, Placed, Fits
<1>2. phase # "boot"
  BY <1>1 DEF Base, Life, Placed
<1>3. CASE workers[th[t].cur] = None
  BY <1>1, <1>3, UnchangedShrinks DEF StopLook
<1>4. CASE workers[th[t].cur] # None
  <2> DEFINE w == workers[th[t].cur]
  <2>1. w \in Workers /\ wk' = [wk EXCEPT ![w].cancelled = TRUE]
    BY <1>1, <1>4 DEF StopLook, TypeOK
  <2> HIDE DEF w
  <2>2. wk \in [Workers -> WorkerType]
    BY <1>1, <2>1, WorkerTyped
  <2>3. /\ wk' \in [Workers -> WorkerType] /\ wk'[w].pc = wk[w].pc /\ wk'[w].id = wk[w].id
        /\ wk'[w].capped = wk[w].capped
        /\ \A v \in Workers : v # w => wk'[v] = wk[v]
    BY <2>1, <2>2 DEF WorkerType
  <2> QED
    BY <1>1, <1>2, <2>1, <2>3, RecordShrinks
<1> QED
  BY <1>3, <1>4

LEMMA StopWaitShrinks ==
  ASSUME Base, NEW t \in Threads, StopWait(t)
  PROVE  Shrinks
<1>1. th[t].ptr \in Workers /\ TypeOK /\ UNCHANGED workers
  BY StopWaitWorks DEF StopWait, Base
<1>2. CASE ~Live(th[t].ptr) /\ wk' = [wk EXCEPT ![th[t].ptr] = NoWorker]
  <2>1. /\ wk' \in [Workers -> WorkerType] /\ wk'[th[t].ptr] = NoWorker
        /\ \A v \in Workers : v # th[t].ptr => wk'[v] = wk[v]
    BY <1>1, <1>2, NoWorkerTyped, WorkerRecord
  <2> QED
    BY <1>1, <1>2, <2>1, NoWorkerTyped, RecordShrinks DEF Live
<1>3. CASE UNCHANGED wk
  BY <1>1, <1>3, UnchangedShrinks
<1> QED
  BY <1>2, <1>3, StopWaitWorks

\* The steps of a goroutine that goes on.
LEMMA WorkerGoesOn ==
  ASSUME Base, NEW w \in Workers, WorkerTick(w) \/ WorkerEnqueue(w) \/ WorkerCap(w) \/ WorkerFinish(w)
  PROVE  /\ Shrinks /\ UNCHANGED workers
         /\ \A v \in Workers : v # w => wk'[v] = wk[v]
         /\ wk'[w].id = wk[w].id /\ wk'[w].cancelled = wk[w].cancelled /\ wk[w].pc # "gone"
         /\ \/ /\ WorkerTick(w) /\ wk'[w].pc = "enqueue" /\ wk'[w].capped = wk[w].capped
            \/ /\ WorkerEnqueue(w) /\ wk'[w].pc = "run" /\ wk'[w].capped = wk[w].capped
            \/ /\ WorkerCap(w) /\ wk'[w].pc = "finish" /\ wk'[w].capped = TRUE
            \/ /\ WorkerFinish(w) /\ wk'[w].pc \in {"exit", wk[w].pc} /\ wk'[w].capped = wk[w].capped
<1>0. wk \in [Workers -> WorkerType] /\ TypeOK
  BY WorkerTyped DEF Base
<1>1. ASSUME NEW p \in {"enqueue", "run", "exit"}, wk' = [wk EXCEPT ![w].pc = p], wk[w].pc # "gone", UNCHANGED workers
      PROVE  /\ Shrinks /\ UNCHANGED workers
             /\ \A v \in Workers : v # w => wk'[v] = wk[v]
             /\ wk'[w].id = wk[w].id /\ wk'[w].cancelled = wk[w].cancelled /\ wk[w].pc # "gone"
             /\ wk'[w].pc = p /\ wk'[w].capped = wk[w].capped
  <2>1. /\ wk' \in [Workers -> WorkerType] /\ wk'[w].id = wk[w].id /\ wk'[w].cancelled = wk[w].cancelled
        /\ wk'[w].pc = p /\ wk'[w].capped = wk[w].capped
        /\ \A v \in Workers : v # w => wk'[v] = wk[v]
    BY <1>0, <1>1 DEF WorkerType
  <2> QED
    BY <1>1, <2>1, RecordShrinks
<1>2. CASE WorkerTick(w)
  BY <1>1, <1>2 DEF WorkerTick
<1>3. CASE WorkerEnqueue(w)
  BY <1>1, <1>3 DEF WorkerEnqueue
<1>4. CASE WorkerCap(w)
  <2>1. wk' = [wk EXCEPT ![w].pc = "finish", ![w].capped = TRUE] /\ wk[w].pc # "gone" /\ UNCHANGED workers
    BY <1>4 DEF WorkerCap
  <2>2. /\ wk' \in [Workers -> WorkerType] /\ wk'[w].id = wk[w].id /\ wk'[w].cancelled = wk[w].cancelled
        /\ wk'[w].pc = "finish" /\ wk'[w].capped = TRUE
        /\ \A v \in Workers : v # w => wk'[v] = wk[v]
    BY <1>0, <2>1 DEF WorkerType
  <2> QED
    BY <1>4, <2>1, <2>2, RecordShrinks
<1>5. CASE WorkerFinish(w)
  <2>1. CASE wk' = [wk EXCEPT ![w].pc = "exit"]
    BY <1>1, <1>5, <2>1 DEF WorkerFinish
  <2>2. CASE UNCHANGED wk
    BY <1>5, <2>2, UnchangedShrinks DEF WorkerFinish
  <2> QED
    BY <1>5, <2>1, <2>2 DEF WorkerFinish
<1> QED
  BY <1>2, <1>3, <1>4, <1>5

LEMMA WorkerExitShrinks ==
  ASSUME Base, NEW w \in Workers, WorkerExit(w)
  PROVE  /\ Shrinks /\ wk[w].pc # "gone" /\ wk[w].id \in Sessions /\ workers[wk[w].id] = w
         /\ workers' = [workers EXCEPT ![wk[w].id] = None]
         /\ wk'[w].pc = "gone" /\ wk'[w].id = 0 /\ wk'[w].cancelled = FALSE
         /\ wk'[w].capped = (wk[w].capped /\ StopWaits(w))
         /\ \A v \in Workers : v # w => wk'[v] = wk[v]
<1>0. wk \in [Workers -> WorkerType] /\ TypeOK /\ workers \in [Sessions -> Workers \cup {None}]
  BY WorkerTyped DEF Base, TypeOK
<1>1. wk[w].pc # "gone"
  BY DEF WorkerExit
<1>2. wk[w].id \in Sessions /\ workers[wk[w].id] = w
  BY <1>1 DEF Base, MapInv, Live
<1>3. workers' = [workers EXCEPT ![wk[w].id] = None]
  BY <1>2 DEF WorkerExit
<1> DEFINE r == [NoWorker EXCEPT !.capped = wk[w].capped /\ StopWaits(w)]
<1>4. /\ r \in WorkerType /\ r.pc = "gone" /\ r.id = 0 /\ r.cancelled = FALSE
      /\ r.capped = (wk[w].capped /\ StopWaits(w))
  <2>1. (wk[w].capped /\ StopWaits(w)) \in BOOLEAN
    OBVIOUS
  <2> QED
    BY <2>1, NoWorkerTyped DEF WorkerType
<1>5. wk' = [wk EXCEPT ![w] = r]
  BY DEF WorkerExit
<1> HIDE DEF r
<1>6. wk' \in [Workers -> WorkerType] /\ wk'[w] = r /\ \A v \in Workers : v # w => wk'[v] = wk[v]
  BY <1>0, <1>4, <1>5, WorkerRecord
<1>7. MapInv'
  <2>1. ASSUME NEW v \in Workers, wk'[v].pc # "gone" PROVE wk'[v].id \in Sessions /\ workers'[wk'[v].id] = v
    <3>1. v # w /\ wk'[v] = wk[v]
      BY <1>4, <1>6, <2>1
    <3>2. wk[v].id \in Sessions /\ workers[wk[v].id] = v
      BY <2>1, <3>1 DEF Base, MapInv, Live
    <3> QED
      BY <1>0, <1>2, <1>3, <3>1, <3>2
  <2>2. ASSUME NEW s \in Sessions, workers'[s] # None
        PROVE  wk'[workers'[s]].pc # "gone" /\ wk'[workers'[s]].id = s
    <3>1. s # wk[w].id /\ workers'[s] = workers[s]
      BY <1>0, <1>2, <1>3, <2>2
    <3>2. wk[workers[s]].pc # "gone" /\ wk[workers[s]].id = s /\ workers[s] \in Workers
      BY <1>0, <2>2, <3>1 DEF Base, MapInv, Live
    <3> QED
      BY <1>6, <3>1, <3>2
  <2> QED
    BY <2>1, <2>2 DEF MapInv, Live
<1>8. Shrinks
  <2>1. workers' \in [Sessions -> Workers \cup {None}] /\ \A s \in Sessions : workers'[s] \in {workers[s], None}
    BY <1>0, <1>3
  <2> QED
    BY <1>4, <1>6, <1>7, <2>1 DEF Shrinks
<1> QED
  BY <1>1, <1>2, <1>3, <1>4, <1>6, <1>8

LEMMA PublishGrows ==
  ASSUME Base, NEW s \in Sessions, NEW k \in BOOLEAN, PublishPrepared(s, k)
  PROVE  \/ UNCHANGED <<workers, wk>> /\ (closing \/ rootDone \/ workers[s] # None)
         \/ \E w \in Workers : Grows(s, w, k)
<1>1. CASE closing \/ rootDone \/ workers[s] # None
  BY <1>1 DEF PublishPrepared
<1>2. CASE ~(closing \/ rootDone \/ workers[s] # None)
  <2>1. PICK w \in FreeWorkers :
          /\ workers' = [workers EXCEPT ![s] = w]
          /\ wk' = [wk EXCEPT ![w] = [NoWorker EXCEPT !.pc = "run", !.id = s, !.capped = k]]
    BY <1>2 DEF PublishPrepared
  <2> DEFINE r == [NoWorker EXCEPT !.pc = "run", !.id = s, !.capped = k]
  <2>2. r \in WorkerType /\ r.pc = "run" /\ r.id = s /\ r.cancelled = FALSE /\ r.capped = k
    BY NoWorkerTyped DEF WorkerType
  <2>3. w \in Workers /\ wk' = [wk EXCEPT ![w] = r] /\ TypeOK
    BY <2>1 DEF FreeWorkers, Base
  <2> HIDE DEF r
  <2> QED
    BY <1>2, <2>1, <2>2, <2>3, WorkerRecord DEF Grows
<1> QED
  BY <1>1, <1>2

LEMMA GrowsMap ==
  ASSUME Base, NEW s \in Sessions, NEW w \in Workers, NEW k, Grows(s, w, k)
  PROVE  MapInv' /\ workers' \in [Sessions -> Workers \cup {None}] /\ wk' \in [Workers -> WorkerType]
<1>0. workers \in [Sessions -> Workers \cup {None}] /\ workers' = [workers EXCEPT ![s] = w]
  BY DEF Base, TypeOK, Grows
<1>1. ASSUME NEW v \in Workers, wk'[v].pc # "gone" PROVE wk'[v].id \in Sessions /\ workers'[wk'[v].id] = v
  <2>1. CASE v = w
    BY <1>0, <2>1 DEF Grows
  <2>2. CASE v # w
    <3>1. wk'[v] = wk[v] /\ wk[v].id \in Sessions /\ workers[wk[v].id] = v
      BY <1>1, <2>2 DEF Grows, Base, MapInv, Live
    <3>2. wk[v].id # s
      BY <3>1, RolesDisjoint DEF Grows
    <3> QED
      BY <1>0, <3>1, <3>2
  <2> QED
    BY <2>1, <2>2
<1>2. ASSUME NEW x \in Sessions, workers'[x] # None
      PROVE  wk'[workers'[x]].pc # "gone" /\ wk'[workers'[x]].id = x
  <2>1. CASE x = s
    BY <1>0, <2>1 DEF Grows
  <2>2. CASE x # s
    <3>1. workers'[x] = workers[x] /\ workers[x] \in Workers
      BY <1>0, <1>2, <2>2
    <3>2. wk[workers[x]].pc # "gone" /\ wk[workers[x]].id = x
      BY <1>2, <3>1 DEF Base, MapInv, Live
    <3>3. workers[x] # w
      BY <3>2 DEF Grows, FreeWorkers, Live
    <3> QED
      BY <3>1, <3>2, <3>3 DEF Grows
  <2> QED
    BY <2>1, <2>2
<1>3. MapInv'
  BY <1>1, <1>2 DEF MapInv, Live
<1> QED
  BY <1>0, <1>3 DEF Grows

-----------------------------------------------------------------------------
(* The steps of a thread that has no lock yet, or gives its locks back.    *)

LEMMA AcquireEffect ==
  ASSUME Base, NEW t \in Threads, Acquire(t)
  PROVE  /\ th[t].pc = "lock" /\ th[t].cur \in Sessions /\ operations[th[t].cur] = None
         /\ operations' = [operations EXCEPT ![th[t].cur] = t] /\ th[t].ptr = None
         /\ \/ /\ th[t].op = "deleteSessions" /\ Later(t) # {}
               /\ Becomes(t, "lock", Min(Later(t)), None, th[t].capped, th[t].res)
            \/ /\ th[t].op = "deleteSessions" => Later(t) = {}
               /\ \E c \in Targets(t) : c \in Sessions /\ Becomes(t, Body(t), c, None, th[t].capped, th[t].res)
<1>1. /\ th[t].pc = "lock" /\ th[t].pc # "idle" /\ TypeOK /\ Placed /\ th[t].ptr = None
      /\ operations[th[t].cur] = None /\ operations' = [operations EXCEPT ![th[t].cur] = t]
  BY DEF Acquire, Base, Placed, Fits
<1>2. th[t].cur \in Sessions /\ th[t].cur \in Targets(t)
  BY <1>1, TargetTyped DEF Targets
<1>3. CASE th[t].op = "deleteSessions" /\ Later(t) # {}
  <2>1. {s \in th[t].want : s > th[t].cur /\ th[t].op = "deleteSessions"} = Later(t)
    BY <1>3 DEF Later
  <2>2. th' = [th EXCEPT ![t].cur = Min(Later(t))]
    BY <1>3, <2>1 DEF Acquire
  <2>3. Min(Later(t)) \in Sessions /\ "lock" \in ThreadPc
    BY <1>1, <1>3, TargetTyped, InsidePcs
  <2> QED
    BY <1>1, <1>2, <1>3, <2>2, <2>3, TwoFields
<1>4. CASE ~(th[t].op = "deleteSessions" /\ Later(t) # {})
  <2> DEFINE c == IF th[t].op = "deleteSessions" THEN Min(th[t].want) ELSE th[t].cur
  <2>1. {s \in th[t].want : s > th[t].cur /\ th[t].op = "deleteSessions"} = {}
    BY <1>4 DEF Later
  <2>2. th' = [th EXCEPT ![t].pc = Body(t), ![t].cur = c]
    BY <2>1 DEF Acquire
  <2>3. c \in Sessions /\ c \in Targets(t)
    BY <1>1, <1>2, BatchTargets, TargetTyped
  <2> HIDE DEF c
  <2>4. Body(t) \in ThreadPc
    BY DEF Body, ThreadPc
  <2>5. Becomes(t, Body(t), c, None, th[t].capped, th[t].res)
    BY <1>1, <2>2, <2>3, <2>4, TwoFields
  <2> QED
    BY <1>1, <1>2, <1>4, <2>3, <2>5
<1> QED
  BY <1>3, <1>4

\* Where the body of an operation starts.
LEMMA BodyFits ==
  ASSUME Base, NEW t \in Threads, th[t].pc = "lock"
  PROVE  /\ Body(t) \in {"start", "stop", "read"} /\ Body(t) \in Inside /\ Fits(th[t].op, Body(t), None)
         /\ Body(t) = "start" <=> Starting(t)
         /\ Body(t) = "stop" <=> th[t].op = "stop"
<1>1. /\ th[t].op \in {"resume", "recover", "create", "reenable", "stop", "delete", "deleteSessions"}
  BY ThreadTypes DEF Base, Placed, ThreadType
<1> QED
  BY <1>1 DEF Body, Starting, Inside, Fits

LEMMA GiveUpEffect ==
  ASSUME Base, NEW t \in Threads, GiveUpLock(t)
  PROVE  th[t].pc = "lock" /\ th[t].ptr = None /\ Ends(t, "err") /\ UNCHANGED operations
<1>1. th[t].pc = "lock" /\ TypeOK /\ th[t].ptr = None /\ Finish(t, "err") /\ UNCHANGED operations
  BY DEF GiveUpLock, Base, Placed, Fits
<1> QED
  BY <1>1, FinishEnds

\* The main goroutine turns to the next session it resumes.
NextResumed(t) ==
  /\ th' \in [Threads -> ThreadType]
  /\ th'[t].pc = "lock" /\ th'[t].op = "resume" /\ th'[t].want = th[t].want \ {th[t].cur}
  /\ th'[t].cur \in th'[t].want /\ th'[t].cur \in Sessions
  /\ th'[t].ptr = None /\ th'[t].capped = th[t].capped /\ th'[t].res = th[t].res
  /\ \A u \in Threads : u # t => th'[u] = th[u]

LEMMA AfterOperationEffect ==
  ASSUME Base, NEW t \in Threads, th[t].pc = "release", th' = [th EXCEPT ![t] = AfterOperation(t)]
  PROVE  \/ /\ th[t].op = "create" /\ th[t].res # "ok" /\ Moves(t, "cleanup")
            /\ th[t].ptr = None /\ AfterOperation(t) # IdleThread
         \/ /\ th[t].op = "recover" /\ th[t].res = "err" /\ ~closing /\ ~rootDone /\ th[t].ptr = None
            /\ Becomes(t, "lock", th[t].cur, None, th[t].capped, "none") /\ AfterOperation(t) # IdleThread
         \/ /\ th[t].op = "resume" /\ th[t].res = "err" /\ Moves(t, "failed")
            /\ th[t].ptr = None /\ AfterOperation(t) # IdleThread
         \/ /\ th[t].op = "resume" /\ th[t].res # "err" /\ NextResumed(t)
            /\ th[t].ptr = None /\ AfterOperation(t) # IdleThread
         \/ /\ Forgets(t) /\ AfterOperation(t) = IdleThread
            /\ th[t].op = "create" => th[t].res = "ok"
            /\ th[t].op = "recover" => th[t].res # "err" \/ closing \/ rootDone
            /\ th[t].op = "resume" => th[t].res # "err" /\ th[t].want = {th[t].cur}
<1>0. th \in [Threads -> ThreadType] /\ th[t] \in ThreadType /\ TypeOK /\ th[t].pc # "idle"
  BY ThreadTypes DEF Base
<1>1. th[t].op \in {"create", "recover", "resume"} => th[t].ptr = None
  BY DEF Base, Placed, Fits
<1>2. {"cleanup", "lock", "failed"} \subseteq ThreadPc /\ IdleThread.pc = "idle"
  BY DEF ThreadPc, IdleThread
<1>3. CASE th[t].op = "create" /\ th[t].res # "ok"
  <2> DEFINE r == [th[t] EXCEPT !.pc = "cleanup"]
  <2>1. AfterOperation(t) = r
    BY <1>3 DEF AfterOperation
  <2>2. /\ r \in ThreadType /\ r.pc = "cleanup" /\ r.op = th[t].op /\ r.want = th[t].want
        /\ r.cur = th[t].cur /\ r.ptr = th[t].ptr /\ r.capped = th[t].capped /\ r.res = th[t].res
    BY <1>0, <1>2 DEF ThreadType
  <2> HIDE DEF r
  <2> QED
    BY <1>0, <1>1, <1>2, <1>3, <2>1, <2>2, SetsRecord DEF Moves, Becomes
<1>4. CASE th[t].op = "recover" /\ th[t].res = "err" /\ ~closing /\ ~rootDone
  <2> DEFINE r == [th[t] EXCEPT !.pc = "lock", !.res = "none"]
  <2>1. AfterOperation(t) = r
    BY <1>4 DEF AfterOperation
  <2>2. /\ r \in ThreadType /\ r.pc = "lock" /\ r.op = th[t].op /\ r.want = th[t].want
        /\ r.cur = th[t].cur /\ r.ptr = th[t].ptr /\ r.capped = th[t].capped /\ r.res = "none"
    BY <1>0, <1>2 DEF ThreadType
  <2> HIDE DEF r
  <2> QED
    BY <1>0, <1>1, <1>2, <1>4, <2>1, <2>2, SetsRecord DEF Becomes
<1>5. CASE th[t].op = "resume" /\ th[t].res = "err"
  <2> DEFINE r == [th[t] EXCEPT !.pc = "failed"]
  <2>1. AfterOperation(t) = r
    BY <1>5 DEF AfterOperation
  <2>2. /\ r \in ThreadType /\ r.pc = "failed" /\ r.op = th[t].op /\ r.want = th[t].want
        /\ r.cur = th[t].cur /\ r.ptr = th[t].ptr /\ r.capped = th[t].capped /\ r.res = th[t].res
    BY <1>0, <1>2 DEF ThreadType
  <2> HIDE DEF r
  <2> QED
    BY <1>0, <1>1, <1>2, <1>5, <2>1, <2>2, SetsRecord DEF Moves, Becomes
<1>6. CASE th[t].op = "resume" /\ th[t].res # "err" /\ th[t].want # {th[t].cur}
  <2> DEFINE S == th[t].want \ {th[t].cur}
             r == [th[t] EXCEPT !.pc = "lock", !.want = @ \ {th[t].cur}, !.cur = Min(S)]
  <2>1. AfterOperation(t) = r
    BY <1>6 DEF AfterOperation
  <2>2. S \in SUBSET Sessions /\ S # {}
    BY <1>0, <1>6, TargetTyped DEF Base
  <2>3. Min(S) \in Sessions /\ Min(S) \in S
    BY <2>2, MinSession
  <2>4. /\ r \in ThreadType /\ r.pc = "lock" /\ r.op = th[t].op /\ r.want = S
        /\ r.cur = Min(S) /\ r.ptr = th[t].ptr /\ r.capped = th[t].capped /\ r.res = th[t].res
    BY <1>0, <1>2, <2>2, <2>3 DEF ThreadType
  <2> HIDE DEF r
  <2> QED
    BY <1>0, <1>1, <1>2, <1>6, <2>1, <2>3, <2>4, SetsRecord DEF NextResumed
<1>7. CASE /\ ~(th[t].op = "create" /\ th[t].res # "ok")
           /\ ~(th[t].op = "recover" /\ th[t].res = "err" /\ ~closing /\ ~rootDone)
           /\ ~(th[t].op = "resume" /\ th[t].res = "err")
           /\ ~(th[t].op = "resume" /\ th[t].want # {th[t].cur})
  <2>1. AfterOperation(t) = IdleThread
    BY <1>7 DEF AfterOperation
  <2>2. Forgets(t)
    BY <1>0, <2>1, ForgetForgets
  <2> QED
    BY <1>7, <2>1, <2>2
<1> QED
  BY <1>3, <1>4, <1>5, <1>6, <1>7

LEMMA HeldFinite ==
  ASSUME NEW t
  PROVE  Held(t) \in SUBSET Sessions /\ Held(t) \in SUBSET Nat /\ IsFiniteSet(Held(t))
<1>1. Held(t) \in SUBSET Sessions
  BY DEF Held
<1>2. IsFiniteSet(Held(t))
  BY <1>1, SessionsNat, FS_Subset
<1> QED
  BY <1>1, <1>2, SessionsNat

\* A release gives back one lock; the operation is over with the last one.
LEMMA ReleaseEffect ==
  ASSUME Base, NEW t \in Threads, Release(t)
  PROVE  /\ th[t].pc = "release" /\ operations' \in [Sessions -> Threads \cup {None}]
         /\ \A s \in Sessions : operations'[s] \in {operations[s], None}
         /\ \A s \in Sessions : operations[s] # t => operations'[s] = operations[s]
         /\ \/ /\ th[t].op = "deleteSessions" /\ UNCHANGED <<th, phase>>
            \/ /\ \A s \in Sessions : operations'[s] # t
               /\ th' = [th EXCEPT ![t] = AfterOperation(t)]
               /\ phase' = IF t = Main /\ AfterOperation(t) = IdleThread THEN "serving" ELSE phase
<1>0. /\ th[t].pc = "release" /\ operations \in [Sessions -> Threads \cup {None}] /\ t # None
      /\ Held(t) \subseteq Targets(t)
  BY RolesDisjoint DEF Release, Base, TypeOK, LockPlaces
<1>1. IsFiniteSet(Held(t)) /\ Cardinality(Held(t)) \in Nat
  BY HeldFinite, FS_CardinalityType
<1>2. CASE Held(t) = {}
  <2>1. Cardinality(Held(t)) = 0 /\ operations' = operations
    BY <1>2, FS_EmptySet DEF Release
  <2>2. th' = [th EXCEPT ![t] = AfterOperation(t)]
    BY <2>1 DEF Release
  <2> QED
    BY <1>0, <1>2, <2>1, <2>2 DEF Release, Held
<1>3. CASE Held(t) # {}
  <2> DEFINE m == Max(Held(t))
  <2>1. m \in Held(t) /\ m \in Sessions
    BY <1>3, HeldFinite, MaxIn DEF Held
  <2>2. operations' = [operations EXCEPT ![m] = None]
    BY <1>3 DEF Release
  <2> HIDE DEF m
  <2>3. CASE Cardinality(Held(t)) > 1
    <3>1. th' = th
      BY <2>3 DEF Release
    <3>2. th[t].op = "deleteSessions"
      <4> SUFFICES ASSUME th[t].op # "deleteSessions" PROVE FALSE
        OBVIOUS
      <4>1. Held(t) = {m}
        BY <1>0, <2>1 DEF Targets
      <4>2. Cardinality(Held(t)) = 1
        BY <4>1, FS_Singleton
      <4> QED
        BY <2>3, <4>2
    <3>3. t # Main
      BY <1>0, <3>2 DEF Base, Placed
    <3> QED
      BY <1>0, <2>1, <2>2, <3>1, <3>2, <3>3 DEF Release, Held
  <2>4. CASE ~(Cardinality(Held(t)) > 1)
    <3>1. Held(t) \ {m} = {}
      <4>1. Cardinality(Held(t) \ {m}) = Cardinality(Held(t)) - 1 /\ IsFiniteSet(Held(t) \ {m})
        BY <1>1, <2>1, FS_RemoveElement
      <4>2. Cardinality(Held(t) \ {m}) \in Nat
        BY <4>1, FS_CardinalityType
      <4>3. Cardinality(Held(t) \ {m}) = 0
        BY <1>1, <2>4, <4>1, <4>2
      <4> QED
        BY <4>1, <4>3, FS_EmptySet
    <3>2. th' = [th EXCEPT ![t] = AfterOperation(t)]
      BY <2>4 DEF Release
    <3>3. \A s \in Sessions : operations'[s] # t
      BY <1>0, <2>1, <2>2, <3>1 DEF Held
    <3> QED
      BY <1>0, <2>1, <2>2, <3>2, <3>3 DEF Release, Held
  <2> QED
    BY <2>3, <2>4
<1> QED
  BY <1>2, <1>3

LEMMA CleanupEffect ==
  ASSUME Base, NEW t \in Threads, CleanupStop(t) \/ CleanupDelete(t)
  PROVE  /\ th[t].pc \in {"cleanup", "cleanupDelete"} /\ th[t].op = "create" /\ th[t].ptr = None
         /\ Moves(t, "cleanupDelete") \/ Forgets(t)
<1>1. /\ th[t].pc \in {"cleanup", "cleanupDelete"} /\ th[t].op = "create" /\ th[t].ptr = None /\ TypeOK
  BY DEF CleanupStop, CleanupDelete, Base, Placed, Fits
<1>2. "cleanupDelete" \in ThreadPc
  BY DEF ThreadPc
<1>3. Goto(t, "cleanupDelete") \/ th' = [th EXCEPT ![t] = IdleThread]
  BY DEF CleanupStop, CleanupDelete
<1> QED
  BY <1>1, <1>2, <1>3, GotoMoves, ForgetForgets

LEMMA RecoverWaitEffect ==
  ASSUME Base, NEW t \in Threads, RecoverWait(t)
  PROVE  /\ th[t].pc = "recoverWait" /\ th[t].op = "recover" /\ th[t].ptr = None /\ t \in Workers
         /\ \/ ~Live(t) /\ Moves(t, "lock")
            \/ (closing \/ rootDone) /\ Forgets(t)
<1>1. /\ th[t].pc = "recoverWait" /\ th[t].op = "recover" /\ th[t].ptr = None /\ TypeOK
  BY DEF RecoverWait, Base, Placed, Fits
<1>2. t \in Workers
  BY <1>1, SupervisorAssumption DEF Base, Placed, Threads
<1> QED
  BY <1>1, <1>2, InsidePcs, GotoMoves, ForgetForgets DEF RecoverWait

\* scheduleRecovery: the operation ends, and the worker's own thread waits.
Schedules(t, w) ==
  /\ th' \in [Threads -> ThreadType]
  /\ th'[t].pc = "release" /\ th'[t].op = th[t].op /\ th'[t].want = th[t].want
  /\ th'[t].cur = th[t].cur /\ th'[t].ptr = w /\ th'[t].capped = th[t].capped /\ th'[t].res = "err"
  /\ th'[w].pc = "recoverWait" /\ th'[w].op = "recover" /\ th'[w].want = {th[t].cur}
  /\ th'[w].cur = th[t].cur /\ th'[w].ptr = None
  /\ \A u \in Threads : u # t /\ u # w => th'[u] = th[u]

LEMMA ScheduleEffect ==
  ASSUME Base, NEW t \in Threads, Schedule(t)
  PROVE  /\ th[t].pc = "schedule" /\ th[t].ptr \in Workers /\ t \in Callers /\ th[t].cur \in Sessions
         /\ th[t].op \in {"stop", "delete", "deleteSessions"}
         /\ \/ th[th[t].ptr].pc = "idle" /\ ~closing /\ ~rootDone /\ Schedules(t, th[t].ptr)
            \/ ~(th[th[t].ptr].pc = "idle" /\ ~closing /\ ~rootDone) /\ Ends(t, "err")
<1> DEFINE w == th[t].ptr
           s == th[t].cur
           r == [IdleThread EXCEPT !.pc = "recoverWait", !.op = "recover", !.want = {s}, !.cur = s]
<1>1. /\ th[t].pc = "schedule" /\ w # None /\ TypeOK /\ th[t].op \in {"stop", "delete", "deleteSessions"}
      /\ th \in [Threads -> ThreadType]
  BY ThreadTypes DEF Schedule, Base, Placed, Fits
<1>2. w \in Workers /\ s \in Sessions /\ t \in Callers
  BY <1>1, TargetTyped, SupervisorAssumption DEF Base, Placed, ThreadType, Threads
<1>3. w \in Threads /\ w # t
  BY <1>2, RolesDisjoint
<1>4. th' = [th EXCEPT ![t].pc = "release", ![t].res = "err",
                       ![w] = IF th[w].pc = "idle" /\ ~closing /\ ~rootDone THEN r ELSE th[w]]
  BY DEF Schedule
<1>5. IdleThread \in ThreadType /\ IdleThread.ptr = None
  BY IdleTyped DEF IdleThread
<1>6. /\ r \in ThreadType /\ r.pc = "recoverWait" /\ r.op = "recover" /\ r.want = {s} /\ r.cur = s /\ r.ptr = None
  BY <1>2, <1>5 DEF ThreadType, ThreadPc
<1> HIDE DEF r, s, w
<1>7. CASE th[w].pc = "idle" /\ ~closing /\ ~rootDone
  <2>1. th' = [th EXCEPT ![t].pc = "release", ![t].res = "err", ![w] = r]
    BY <1>4, <1>7
  <2>2. "release" \in ThreadPc
    BY DEF ThreadPc
  <2>3. /\ th' \in [Threads -> ThreadType] /\ th'[w] = r
        /\ th'[t].pc = "release" /\ th'[t].op = th[t].op /\ th'[t].want = th[t].want
        /\ th'[t].cur = th[t].cur /\ th'[t].ptr = th[t].ptr /\ th'[t].capped = th[t].capped /\ th'[t].res = "err"
        /\ \A u \in Threads : u # t /\ u # w => th'[u] = th[u]
    BY <1>1, <1>3, <1>6, <2>1, <2>2 DEF ThreadType
  <2> QED
    BY <1>1, <1>2, <1>6, <1>7, <2>3 DEF Schedules, w, s
<1>8. CASE ~(th[w].pc = "idle" /\ ~closing /\ ~rootDone)
  <2>1. th' = [th EXCEPT ![t].pc = "release", ![t].res = "err", ![w] = th[w]]
    BY <1>4, <1>8
  <2>2. th' = [th EXCEPT ![t].pc = "release", ![t].res = "err"]
    BY <1>1, <1>3, <2>1
  <2>3. Ends(t, "err")
    BY <1>1, <2>2, FinishEnds DEF Finish
  <2> QED
    BY <1>1, <1>2, <1>8, <2>3 DEF w, s
<1> QED
  BY <1>7, <1>8

-----------------------------------------------------------------------------
(* Every step is of one of these kinds.                                    *)

WorkStep(t) ==
  /\ Working(t) /\ UNCHANGED <<operations, lifeVars>>
  /\ Shrinks \/ (th'[t].pc = "release" /\ \E w \in Workers, k \in BOOLEAN : Grows(th[t].cur, w, k))

EdgeStep(t) ==
  \/ Acquire(t) \/ GiveUpLock(t) \/ Release(t) \/ CleanupStop(t) \/ CleanupDelete(t)
  \/ Schedule(t) \/ RecoverWait(t)

BeginStep(t, o, S) ==
  /\ th[t].pc = "idle" /\ Begins(t, o, S) /\ UNCHANGED <<operations, lifeVars, workers, wk>>
  /\ \/ t = Main /\ o = "resume" /\ phase = "boot" /\ S = RunningSessions
     \/ /\ t \in Callers /\ o \in Ops /\ phase \in {"serving", "draining"}
        /\ o \in Single => \E s \in Sessions : S = {s}

QuietStep == UNCHANGED <<th, operations, lifeVars>> /\ Shrinks

LifeStep == CancelWorkers \/ Wait \/ WaitReturns \/ Restart \/ (Resume /\ UNCHANGED th)

Kinds ==
  \/ \E t \in Threads : WorkStep(t) \/ EdgeStep(t)
  \/ \E t \in Threads, o \in Ops \cup {"resume"}, S \in SUBSET Sessions : S # {} /\ BeginStep(t, o, S)
  \/ QuietStep
  \/ LifeStep

LEMMA ThreadKinds ==
  ASSUME Base, NEW t \in Threads, ThreadStep(t) \/ FlushFails(t)
  PROVE  WorkStep(t) \/ EdgeStep(t) \/ QuietStep
<1>0. TypeOK
  BY DEF Base
<1>1. CASE StartCurrent(t)
  BY <1>1, StartCurrentWorks, UnchangedShrinks DEF StartCurrent, WorkStep
<1>2. CASE Publish(t)
  <2>1. th[t].cur \in Sessions /\ FALSE \in BOOLEAN
    BY <1>2, TargetTyped DEF Publish, Base
  <2>2. UNCHANGED <<workers, wk>> \/ \E w \in Workers : Grows(th[t].cur, w, FALSE)
    BY <1>2, <2>1, PublishGrows DEF Publish
  <2> QED
    BY <1>2, <2>1, <2>2, PublishWorks, UnchangedShrinks DEF Publish, WorkStep
<1>3. CASE StopLook(t)
  BY <1>3, StopLookWorks, StopLookShrinks DEF StopLook, WorkStep, Working
<1>4. CASE StopWait(t)
  BY <1>4, StopWaitWorks, StopWaitShrinks DEF StopWait, WorkStep, Working
<1>5. CASE StopRead(t)
  BY <1>5, StopReadWorks, UnchangedShrinks DEF StopRead, WorkStep
<1>6. CASE StopRow(t)
  BY <1>6, StopRowWorks, UnchangedShrinks DEF StopRow, WorkStep, QuietStep
<1>7. CASE RestorePrepared(t)
  <2>1. th[t].cur \in Sessions /\ th[t].capped \in BOOLEAN
    BY <1>0, <1>7, TargetTyped, ThreadTypes DEF RestorePrepared, Base, ThreadType
  <2>2. UNCHANGED <<workers, wk>> \/ \E w \in Workers : Grows(th[t].cur, w, th[t].capped)
    BY <1>7, <2>1, PublishGrows DEF RestorePrepared
  <2> QED
    BY <1>7, <2>1, <2>2, RestorePreparedWorks, UnchangedShrinks DEF RestorePrepared, WorkStep
<1>8. CASE DeleteRead(t)
  BY <1>8, DeleteReadWorks, UnchangedShrinks DEF DeleteRead, WorkStep
<1>9. CASE Flush(t)
  BY <1>9, DeletionMoves, UnchangedShrinks DEF Flush, WorkStep, Working
<1>10. CASE FlushFails(t)
  BY <1>10, DeletionMoves, UnchangedShrinks DEF FlushFails, WorkStep, Working
<1>11. CASE DeleteSamples(t)
  BY <1>11, DeletionMoves, UnchangedShrinks DEF DeleteSamples, WorkStep, Working
<1>12. CASE DeleteRow(t)
  BY <1>12, DeleteRowWorks, UnchangedShrinks DEF DeleteRow, WorkStep
<1> QED
  BY <1>1, <1>2, <1>3, <1>4, <1>5, <1>6, <1>7, <1>8, <1>9, <1>10, <1>11, <1>12 DEF ThreadStep, EdgeStep

LEMMA SinkHead ==
  ASSUME Base, queue # <<>>
  PROVE  /\ 1 \in DOMAIN queue /\ Head(queue) = queue[1] /\ Head(queue) \in Sessions \cup Threads \cup {None}
         /\ Head(queue) \in Threads => th[Head(queue)].pc = "flushWait"
<1>1. queue \in Seq(Sessions \cup Threads \cup {None})
  BY DEF Base, TypeOK
<1>2. 1 \in DOMAIN queue /\ Head(queue) = queue[1] /\ Head(queue) \in Sessions \cup Threads \cup {None}
  BY <1>1
<1> QED
  BY <1>2 DEF Base, Barriers

LEMMA SinkKinds ==
  ASSUME Base, SinkStep
  PROVE  QuietStep \/ \E t \in Threads : WorkStep(t)
<1>1. UNCHANGED <<operations, lifeVars, workers, wk>> /\ Shrinks
  BY UnchangedShrinks DEF SinkStep
<1>2. CASE UNCHANGED th
  BY <1>1, <1>2 DEF QuietStep
<1>3. CASE Head(queue) \in Threads /\ (Goto(Head(queue), "chDelete") \/ Finish(Head(queue), "err"))
  <2> DEFINE t == Head(queue)
  <2>1. t \in Threads /\ th[t].pc = "flushWait"
    BY <1>3, SinkHead DEF SinkStep
  <2> HIDE DEF t
  <2>2. Working(t)
    BY <1>3, <2>1, DeletionMoves DEF Working, t
  <2> QED
    BY <1>1, <2>1, <2>2 DEF WorkStep
<1> QED
  BY <1>2, <1>3 DEF SinkStep

LEMMA RequestKinds ==
  ASSUME Base, NEW t \in Callers,
         \/ \E s \in Sessions : Create(t, s) \/ Reenable(t, s) \/ Stop(t, s) \/ Delete(t, s)
         \/ \E S \in (SUBSET Sessions) \ {{}} : DeleteSessions(t, S)
  PROVE  \/ QuietStep
         \/ \E o \in Ops, S \in SUBSET Sessions : S # {} /\ BeginStep(t, o, S)
<1>0. t \in Threads /\ TypeOK
  BY DEF Threads, Base
<1>1. ASSUME NEW o \in Ops, NEW S \in SUBSET Sessions, S # {}, Serves(t, o), Begin(t, o, S),
             UNCHANGED <<operations, lifeVars, workers, wk>>, o \in Single => \E s \in Sessions : S = {s}
      PROVE  BeginStep(t, o, S)
  <2>1. Begins(t, o, S)
    BY <1>0, <1>1, BeginBegins, SupervisorAssumption
  <2> QED
    BY <1>1, <2>1 DEF BeginStep, Serves
<1>2. ASSUME NEW s \in Sessions, Create(t, s) \/ Reenable(t, s) \/ Stop(t, s) \/ Delete(t, s)
      PROVE  QuietStep \/ \E o \in Ops, S \in SUBSET Sessions : S # {} /\ BeginStep(t, o, S)
  <2>1. CASE UNCHANGED th
    BY <1>2, <2>1, UnchangedShrinks DEF QuietStep, Create, Reenable, Stop, Delete
  <2>2. CASE \E o \in Ops : Serves(t, o) /\ Begin(t, o, {s})
    <3>1. {s} \in SUBSET Sessions /\ {s} # {}
      OBVIOUS
    <3>2. UNCHANGED <<operations, lifeVars, workers, wk>>
      BY <1>2 DEF Create, Reenable, Stop, Delete
    <3> QED
      BY <1>1, <2>2, <3>1, <3>2
  <2> QED
    BY <1>2, <2>1, <2>2 DEF Create, Reenable, Stop, Delete, Serves
<1>3. ASSUME NEW S \in (SUBSET Sessions) \ {{}}, DeleteSessions(t, S)
      PROVE  \E o \in Ops, T \in SUBSET Sessions : T # {} /\ BeginStep(t, o, T)
  <2>1. "deleteSessions" \notin Single
    BY DEF Single
  <2>2. BeginStep(t, "deleteSessions", S)
    BY <1>1, <1>3, <2>1 DEF DeleteSessions, Serves
  <2> QED
    BY <1>3, <2>2 DEF DeleteSessions, Serves
<1> QED
  BY <1>2, <1>3

LEMMA NextKinds ==
  ASSUME Base, Next
  PROVE  Kinds
<1>1. CASE \E t \in Callers :
             \/ \E s \in Sessions : Create(t, s) \/ Reenable(t, s) \/ Stop(t, s) \/ Delete(t, s)
             \/ \E S \in (SUBSET Sessions) \ {{}} : DeleteSessions(t, S)
  BY <1>1, RequestKinds DEF Kinds, Threads
<1>2. CASE \E t \in Threads : ThreadStep(t) \/ FlushFails(t)
  BY <1>2, ThreadKinds DEF Kinds
<1>3. CASE \E w \in Workers : WorkerStep(w)
  <2>1. PICK w \in Workers : WorkerStep(w)
    BY <1>3
  <2>2. Shrinks
    BY <2>1, WorkerGoesOn, WorkerExitShrinks DEF WorkerStep
  <2>3. UNCHANGED <<th, operations, lifeVars>>
    BY <2>1 DEF WorkerStep, WorkerTick, WorkerEnqueue, WorkerCap, WorkerFinish, WorkerExit
  <2> QED
    BY <2>2, <2>3 DEF Kinds, QuietStep
<1>4. CASE SinkStep
  BY <1>4, SinkKinds DEF Kinds
<1>5. CASE Resume
  <2>1. CASE UNCHANGED th
    BY <1>5, <2>1 DEF Kinds, LifeStep
  <2>2. CASE RunningSessions # {}
    <3>1. RunningSessions \in SUBSET Sessions /\ Main \in Threads /\ TypeOK
      BY DEF RunningSessions, Threads, Base
    <3>2. Begins(Main, "resume", RunningSessions)
      BY <1>5, <2>2, <3>1, BeginBegins DEF Resume
    <3>3. BeginStep(Main, "resume", RunningSessions)
      BY <1>5, <2>2, <3>2 DEF BeginStep, Resume, lifeVars
    <3> QED
      BY <2>2, <3>1, <3>3 DEF Kinds
  <2> QED
    BY <1>5, <2>1, <2>2 DEF Resume
<1>6. CASE CancelWorkers \/ Wait \/ WaitReturns \/ Restart
  BY <1>6 DEF Kinds, LifeStep
<1> QED
  BY <1>1, <1>2, <1>3, <1>4, <1>5, <1>6 DEF Next

-----------------------------------------------------------------------------
(* Placed is kept.                                                         *)

LEMMA PlacedWorks ==
  ASSUME Base, NEW t \in Threads, Working(t)
  PROVE  Placed'
<1>1. PICK p, c, x, k, r : Works(t, p, c, x, k, r)
  BY DEF Working
<1>2. p \in ThreadPc /\ p # "idle" /\ th[t].pc # "idle"
  BY <1>1, InsidePcs DEF Works
<1>3. c \in th[t].want
  BY <1>1, <1>2 DEF Works, Keeps, Targets, Base, Placed
<1> QED
  BY <1>1, <1>2, <1>3, PlacedBecomes DEF Works, Base

LEMMA PlacedSame ==
  ASSUME Placed, UNCHANGED th
  PROVE  Placed'
BY DEF Placed, IdleThread

LEMMA PlacedEdge ==
  ASSUME Base, NEW t \in Threads, EdgeStep(t)
  PROVE  Placed'
<1>0. Placed /\ TypeOK
  BY DEF Base
<1>1. CASE Acquire(t)
  <2>1. th[t].pc = "lock" /\ th[t].pc # "idle" /\ th[t].ptr = None
    BY <1>1, AcquireEffect
  <2>2. CASE th[t].op = "deleteSessions" /\ Later(t) # {} /\ Becomes(t, "lock", Min(Later(t)), None, th[t].capped, th[t].res)
    <3>1. Min(Later(t)) \in th[t].want
      BY <1>0, <2>1, <2>2, TargetTyped DEF Later
    <3>2. "lock" \in ThreadPc /\ Fits(th[t].op, "lock", None)
      BY <2>2, InsidePcs DEF Fits
    <3> QED
      BY <1>0, <2>1, <2>2, <3>1, <3>2, PlacedBecomes
  <2>3. CASE \E c \in Targets(t) : c \in Sessions /\ Becomes(t, Body(t), c, None, th[t].capped, th[t].res)
    <3>1. PICK c \in Targets(t) : Becomes(t, Body(t), c, None, th[t].capped, th[t].res)
      BY <2>3
    <3>2. c \in th[t].want
      BY <1>0, <2>1 DEF Targets, Placed
    <3>3. Body(t) \in ThreadPc /\ Body(t) # "idle" /\ Fits(th[t].op, Body(t), None)
      BY <2>1, BodyFits, InsidePcs
    <3> QED
      BY <1>0, <2>1, <3>1, <3>2, <3>3, PlacedBecomes
  <2> QED
    BY <1>1, <2>2, <2>3, AcquireEffect
<1>2. CASE GiveUpLock(t)
  <2>1. th[t].pc = "lock" /\ th[t].ptr = None /\ Ends(t, "err")
    BY <1>2, GiveUpEffect
  <2>2. Fits(th[t].op, "release", th[t].ptr) /\ th[t].cur \in th[t].want
    BY <1>0, <2>1 DEF Placed, Fits
  <2> QED
    BY <1>0, <2>1, <2>2, InsidePcs, PlacedBecomes DEF Ends
<1>3. CASE Release(t)
  <2>1. th[t].pc = "release" /\ th[t].cur \in th[t].want
    BY <1>0, <1>3, ReleaseEffect DEF Placed
  <2>2. CASE UNCHANGED th
    BY <1>0, <2>2, PlacedSame
  <2>3. CASE th' = [th EXCEPT ![t] = AfterOperation(t)]
    <3>1. ASSUME th[t].op = "create", Moves(t, "cleanup"), th[t].ptr = None PROVE Placed'
      <4>1. Fits(th[t].op, "cleanup", th[t].ptr) /\ "cleanup" \in ThreadPc
        BY <3>1 DEF Fits, ThreadPc
      <4> QED
        BY <1>0, <2>1, <3>1, <4>1, PlacedBecomes DEF Moves
    <3>2. ASSUME th[t].op = "recover", Becomes(t, "lock", th[t].cur, None, th[t].capped, "none") PROVE Placed'
      <4>1. Fits(th[t].op, "lock", None) /\ "lock" \in ThreadPc
        BY <3>2 DEF Fits, ThreadPc
      <4> QED
        BY <1>0, <2>1, <3>2, <4>1, PlacedBecomes
    <3>3. ASSUME th[t].op = "resume", Moves(t, "failed"), th[t].ptr = None PROVE Placed'
      <4>1. Fits(th[t].op, "failed", th[t].ptr) /\ "failed" \in ThreadPc
        BY <3>3 DEF Fits, ThreadPc
      <4> QED
        BY <1>0, <2>1, <3>3, <4>1, PlacedBecomes DEF Moves
    <3>4. ASSUME th[t].op = "resume", NextResumed(t) PROVE Placed'
      <4>1. Fits("resume", "lock", None) /\ "resume" \notin Single
        BY DEF Fits, Single
      <4> SUFFICES ASSUME NEW u \in Threads
                   PROVE  /\ th'[u].pc = "idle" => th'[u] = IdleThread
                          /\ th'[u].pc # "idle" => th'[u].cur \in th'[u].want /\ th'[u].op # "none"
                          /\ u = Main => th'[u].op \in {"none", "resume"}
                          /\ u \in Workers => th'[u].op \in {"none", "recover"}
                          /\ u \in Callers => th'[u].op \in Ops \cup {"none"}
                          /\ th'[u].op \in Single => th'[u].want = {th'[u].cur}
                          /\ Fits(th'[u].op, th'[u].pc, th'[u].ptr)
        BY DEF Placed, IdleThread
      <4>2. CASE u # t
        BY <1>0, <3>4, <4>2 DEF Placed, NextResumed
      <4>3. CASE u = t
        BY <1>0, <3>4, <4>1, <4>3 DEF Placed, NextResumed
      <4> QED
        BY <4>2, <4>3
    <3>5. ASSUME Forgets(t) PROVE Placed'
      BY <1>0, <3>5, PlacedForgets
    <3> QED
      BY <2>1, <2>3, <3>1, <3>2, <3>3, <3>4, <3>5, AfterOperationEffect
  <2> QED
    BY <1>3, <2>2, <2>3, ReleaseEffect
<1>4. CASE CleanupStop(t) \/ CleanupDelete(t)
  <2>1. CASE Forgets(t)
    BY <1>0, <2>1, PlacedForgets
  <2>2. CASE Moves(t, "cleanupDelete")
    <3>1. th[t].pc # "idle" /\ th[t].ptr = None /\ th[t].op = "create" /\ th[t].cur \in th[t].want
      BY <1>0, <1>4, CleanupEffect DEF Placed
    <3>2. Fits(th[t].op, "cleanupDelete", th[t].ptr) /\ "cleanupDelete" \in ThreadPc
      BY <3>1 DEF Fits, ThreadPc
    <3> QED
      BY <1>0, <2>2, <3>1, <3>2, PlacedBecomes DEF Moves
  <2> QED
    BY <1>4, <2>1, <2>2, CleanupEffect
<1>5. CASE Schedule(t)
  <2>1. /\ th[t].pc = "schedule" /\ th[t].ptr \in Workers /\ t \in Callers /\ th[t].cur \in Sessions
        /\ th[t].op \in {"stop", "delete", "deleteSessions"} /\ th[t].cur \in th[t].want
    BY <1>0, <1>5, ScheduleEffect DEF Placed
  <2>2. Fits(th[t].op, "release", th[t].ptr)
    BY <2>1 DEF Fits
  <2>3. CASE Ends(t, "err")
    BY <1>0, <2>1, <2>2, <2>3, InsidePcs, PlacedBecomes DEF Ends
  <2>4. CASE Schedules(t, th[t].ptr)
    <3> DEFINE w == th[t].ptr
    <3>1. Fits("recover", "recoverWait", None) /\ w # t /\ w \notin Callers /\ w # Main /\ t # Main /\ t \notin Workers
      BY <2>1, RolesDisjoint DEF Fits
    <3> SUFFICES ASSUME NEW u \in Threads
                 PROVE  /\ th'[u].pc = "idle" => th'[u] = IdleThread
                        /\ th'[u].pc # "idle" => th'[u].cur \in th'[u].want /\ th'[u].op # "none"
                        /\ u = Main => th'[u].op \in {"none", "resume"}
                        /\ u \in Workers => th'[u].op \in {"none", "recover"}
                        /\ u \in Callers => th'[u].op \in Ops \cup {"none"}
                        /\ th'[u].op \in Single => th'[u].want = {th'[u].cur}
                        /\ Fits(th'[u].op, th'[u].pc, th'[u].ptr)
      BY DEF Placed, IdleThread
    <3>2. CASE u # t /\ u # w
      BY <1>0, <2>4, <3>2 DEF Placed, Schedules
    <3>3. CASE u = t
      BY <1>0, <2>1, <2>2, <2>4, <3>1, <3>3 DEF Placed, Schedules
    <3>4. CASE u = w
      BY <2>1, <2>4, <3>1, <3>4 DEF Schedules
    <3> QED
      BY <3>2, <3>3, <3>4
  <2> QED
    BY <1>5, <2>3, <2>4, ScheduleEffect
<1>6. CASE RecoverWait(t)
  <2>1. CASE Forgets(t)
    BY <1>0, <2>1, PlacedForgets
  <2>2. CASE Moves(t, "lock")
    <3>1. th[t].pc # "idle" /\ th[t].ptr = None /\ th[t].cur \in th[t].want
      BY <1>0, <1>6, RecoverWaitEffect DEF Placed
    <3>2. Fits(th[t].op, "lock", th[t].ptr)
      BY <3>1 DEF Fits
    <3> QED
      BY <1>0, <2>2, <3>1, <3>2, InsidePcs, PlacedBecomes DEF Moves
  <2> QED
    BY <1>6, <2>1, <2>2, RecoverWaitEffect
<1> QED
  BY <1>1, <1>2, <1>3, <1>4, <1>5, <1>6 DEF EdgeStep

\* A restart, or a step that leaves the threads and locks alone.
LEMMA RestartPlaced ==
  ASSUME Restart
  PROVE  Placed'
BY IdleFits DEF Restart, Placed, Single

LEMMA PlacedStep ==
  ASSUME Base, Kinds
  PROVE  Placed'
<1>0. Placed
  BY DEF Base
<1>1. ASSUME NEW t \in Threads, WorkStep(t) PROVE Placed'
  BY <1>1, PlacedWorks DEF WorkStep
<1>2. ASSUME NEW t \in Threads, EdgeStep(t) PROVE Placed'
  BY <1>2, PlacedEdge
<1>3. ASSUME NEW t \in Threads, NEW o \in Ops \cup {"resume"}, NEW S \in SUBSET Sessions, S # {}, BeginStep(t, o, S)
      PROVE  Placed'
  BY <1>0, <1>3, PlacedBegins DEF BeginStep
<1>4. ASSUME UNCHANGED th PROVE Placed'
  BY <1>0, <1>4, PlacedSame
<1>5. CASE LifeStep
  BY <1>4, <1>5, RestartPlaced DEF LifeStep, CancelWorkers, Wait, WaitReturns
<1> QED
  BY <1>1, <1>2, <1>3, <1>4, <1>5 DEF Kinds, QuietStep

-----------------------------------------------------------------------------
(* LockPlaces is kept.                                                     *)

LocksAt(t, T, c, p) ==
  /\ p \in Outside => Held(t) = {}
  /\ p = "lock"    => Held(t) = {s \in T : s < c}
  /\ p \in Inside  => Held(t) = T
  /\ p = "release" => Held(t) \subseteq T

\* Only t moves, and its locks fit its new place.
LEMMA LocksFrame ==
  ASSUME Base, NEW t \in Threads, LocksAt(t, Targets(t), th[t].cur, th[t].pc)',
         \A u \in Threads : u # t => Held(u)' = Held(u) /\ th'[u] = th[u]
  PROVE  LockPlaces'
<1>1. ASSUME NEW u \in Threads PROVE LocksAt(u, Targets(u), th[u].cur, th[u].pc)'
  <2>1. CASE u = t
    BY <2>1
  <2>2. CASE u # t
    <3>1. Held(u)' = Held(u) /\ th'[u] = th[u] /\ Targets(u)' = Targets(u)
      BY <2>2 DEF Targets
    <3>2. LocksAt(u, Targets(u), th[u].cur, th[u].pc)
      BY DEF Base, LockPlaces, LocksAt
    <3> QED
      BY <3>1, <3>2 DEF LocksAt
  <2> QED
    BY <2>1, <2>2
<1> QED
  BY <1>1 DEF LockPlaces, LocksAt

LEMMA PlacesApart ==
  /\ "lock" \notin Outside /\ "lock" \notin Inside /\ "release" \notin Outside /\ "release" \notin Inside
  /\ Inside \cap Outside = {} /\ "idle" \in Outside
BY DEF Outside, Inside

LEMMA HeldSame ==
  ASSUME UNCHANGED operations
  PROVE  \A u \in Threads : Held(u)' = Held(u)
BY DEF Held

LEMMA LocksWork ==
  ASSUME Base, NEW t \in Threads, Working(t), UNCHANGED operations
  PROVE  LockPlaces'
<1>1. PICK p, c, x, k, r : Works(t, p, c, x, k, r)
  BY DEF Working
<1>2. Held(t) = Targets(t)
  BY <1>1 DEF Works, Base, LockPlaces
<1>3. Targets(t)' = Targets(t)
  BY <1>1 DEF Works, Keeps, Becomes, Targets
<1>4. th'[t].pc \in Inside \cup {"release"} /\ \A u \in Threads : u # t => th'[u] = th[u]
  BY <1>1 DEF Works, Becomes
<1>5. LocksAt(t, Targets(t), th[t].cur, th[t].pc)'
  BY <1>2, <1>3, <1>4, HeldSame, PlacesApart DEF LocksAt
<1> QED
  BY <1>4, <1>5, HeldSame, LocksFrame

LEMMA LocksForget ==
  ASSUME Base, NEW t \in Threads, Forgets(t), UNCHANGED operations, th[t].pc \in Outside
  PROVE  LockPlaces'
<1>1. Held(t) = {}
  BY DEF Base, LockPlaces
<1>2. th'[t].pc = "idle" /\ \A u \in Threads : u # t => th'[u] = th[u]
  BY IdleFits DEF Forgets
<1>3. LocksAt(t, Targets(t), th[t].cur, th[t].pc)'
  BY <1>1, <1>2, HeldSame, PlacesApart DEF LocksAt
<1> QED
  BY <1>2, <1>3, HeldSame, LocksFrame

LEMMA LocksAcquire ==
  ASSUME Base, NEW t \in Threads, Acquire(t)
  PROVE  LockPlaces'
<1> DEFINE s0 == th[t].cur
<1>1. /\ th[t].pc = "lock" /\ s0 \in Sessions /\ operations[s0] = None
      /\ operations' = [operations EXCEPT ![s0] = t] /\ operations \in [Sessions -> Threads \cup {None}]
      /\ th[t].pc # "idle" /\ TypeOK /\ Placed
  BY AcquireEffect DEF Base, TypeOK
<1>2. Held(t)' = Held(t) \cup {s0} /\ \A u \in Threads : u # t => Held(u)' = Held(u)
  BY <1>1, RolesDisjoint DEF Held
<1>3. Held(t) = {s \in Targets(t) : s < s0}
  BY <1>1 DEF Base, LockPlaces
<1>4. CASE th[t].op = "deleteSessions" /\ Later(t) # {} /\ Becomes(t, "lock", Min(Later(t)), None, th[t].capped, th[t].res)
  <2> DEFINE m == Min(Later(t))
  <2>1. m \in Later(t) /\ \A y \in Later(t) : m <= y
    BY <1>1, <1>4, TargetTyped
  <2>2. Targets(t) = th[t].want /\ Targets(t)' = th[t].want /\ s0 \in th[t].want /\ th[t].want \in SUBSET Nat
    BY <1>1, <1>4, TargetTyped, SessionsNat DEF Targets, Becomes
  <2>3. th'[t].pc = "lock" /\ th'[t].cur = m /\ \A u \in Threads : u # t => th'[u] = th[u]
    BY <1>4 DEF Becomes
  <2> HIDE DEF m
  <2>4. s0 \in Nat /\ m \in Nat /\ m > s0
    BY <2>1, <2>2 DEF Later
  <2>5. \A s \in th[t].want : s < m <=> s < s0 \/ s = s0
    <3> TAKE s \in th[t].want
    <3>1. s \in Nat
      BY <2>2
    <3>2. s > s0 => m <= s
      BY <2>1 DEF Later
    <3> QED
      BY <2>4, <3>1, <3>2
  <2>6. {s \in th[t].want : s < m} = {s \in th[t].want : s < s0} \cup {s0}
    BY <2>2, <2>5
  <2>7. LocksAt(t, Targets(t), th[t].cur, th[t].pc)'
    BY <1>2, <1>3, <2>2, <2>3, <2>6, PlacesApart DEF LocksAt
  <2> QED
    BY <1>2, <2>3, <2>7, LocksFrame
<1>5. CASE /\ th[t].op = "deleteSessions" => Later(t) = {}
           /\ \E c \in Targets(t) : c \in Sessions /\ Becomes(t, Body(t), c, None, th[t].capped, th[t].res)
  <2>1. PICK c \in Targets(t) : Becomes(t, Body(t), c, None, th[t].capped, th[t].res)
    BY <1>5
  <2>2. Body(t) \in Inside
    BY <1>1, BodyFits
  <2>3. th'[t].pc \in Inside /\ Targets(t)' = Targets(t) /\ \A u \in Threads : u # t => th'[u] = th[u]
    BY <2>1, <2>2 DEF Becomes, Targets
  <2>4. Held(t)' = Targets(t)
    <3>1. s0 \in Targets(t) /\ Targets(t) \in SUBSET Nat
      BY <1>1, TargetTyped, SessionsNat DEF Targets
    <3>2. \A s \in Targets(t) : s < s0 \/ s = s0
      <4> TAKE s \in Targets(t)
      <4>1. s \in Nat /\ s0 \in Nat
        BY <3>1
      <4>2. ~(s > s0)
        BY <1>5, <4>1 DEF Targets, Later
      <4> QED
        BY <4>1, <4>2
    <3> QED
      BY <1>2, <1>3, <3>1, <3>2
  <2>5. LocksAt(t, Targets(t), th[t].cur, th[t].pc)'
    BY <2>3, <2>4, PlacesApart DEF LocksAt
  <2> QED
    BY <1>2, <2>3, <2>5, LocksFrame
<1> QED
  BY <1>4, <1>5, AcquireEffect

LEMMA LocksRelease ==
  ASSUME Base, NEW t \in Threads, Release(t)
  PROVE  LockPlaces'
<1>1. /\ th[t].pc = "release" /\ Held(t) \subseteq Targets(t) /\ th[t].cur \in Sessions
      /\ operations \in [Sessions -> Threads \cup {None}]
  BY ReleaseEffect, TargetTyped DEF Base, LockPlaces, TypeOK
<1>2. Held(t)' \subseteq Held(t) /\ \A u \in Threads : u # t => Held(u)' = Held(u)
  BY <1>1, ReleaseEffect, RolesDisjoint DEF Held
<1>3. CASE UNCHANGED th
  <2>1. LocksAt(t, Targets(t), th[t].cur, th[t].pc)'
    BY <1>1, <1>2, <1>3, PlacesApart DEF LocksAt, Targets
  <2> QED
    BY <1>2, <1>3, <2>1, LocksFrame
<1>4. CASE th' = [th EXCEPT ![t] = AfterOperation(t)] /\ \A s \in Sessions : operations'[s] # t
  <2>1. Held(t)' = {}
    BY <1>4 DEF Held
  <2>2. /\ \A u \in Threads : u # t => th'[u] = th[u]
        /\ \/ th'[t].pc \in Outside
           \/ th'[t].pc = "lock" /\ th'[t].op # "deleteSessions" /\ th'[t].cur \in Sessions
    BY <1>1, <1>4, AfterOperationEffect, IdleFits DEF Moves, Becomes, Forgets, NextResumed, Outside
  <2>3. CASE th'[t].pc \in Outside
    <3>1. LocksAt(t, Targets(t), th[t].cur, th[t].pc)'
      BY <2>1, <2>3, PlacesApart DEF LocksAt
    <3> QED
      BY <1>2, <2>2, <3>1, LocksFrame
  <2>4. CASE th'[t].pc = "lock" /\ th'[t].op # "deleteSessions" /\ th'[t].cur \in Sessions
    <3>1. Targets(t)' = {th'[t].cur} /\ th'[t].cur \in Nat
      BY <2>4, SessionsNat DEF Targets
    <3>2. {s \in Targets(t)' : s < th'[t].cur} = {}
      BY <3>1
    <3>3. LocksAt(t, Targets(t), th[t].cur, th[t].pc)'
      BY <2>1, <2>4, <3>2, PlacesApart DEF LocksAt
    <3> QED
      BY <1>2, <2>2, <3>3, LocksFrame
  <2> QED
    BY <2>2, <2>3, <2>4
<1> QED
  BY <1>3, <1>4, ReleaseEffect

LEMMA LocksEdge ==
  ASSUME Base, NEW t \in Threads, EdgeStep(t)
  PROVE  LockPlaces'
<1>1. CASE Acquire(t)
  BY <1>1, LocksAcquire
<1>2. CASE GiveUpLock(t)
  <2>1. th[t].pc = "lock" /\ Ends(t, "err") /\ UNCHANGED operations
    BY <1>2, GiveUpEffect
  <2>2. Held(t) \subseteq Targets(t)
    BY <2>1 DEF Base, LockPlaces
  <2>3. Targets(t)' = Targets(t) /\ th'[t].pc = "release" /\ \A u \in Threads : u # t => th'[u] = th[u]
    BY <2>1 DEF Ends, Becomes, Targets
  <2>4. LocksAt(t, Targets(t), th[t].cur, th[t].pc)'
    BY <2>1, <2>2, <2>3, HeldSame, PlacesApart DEF LocksAt
  <2> QED
    BY <2>1, <2>3, <2>4, HeldSame, LocksFrame
<1>3. CASE Release(t)
  BY <1>3, LocksRelease
<1>4. CASE CleanupStop(t) \/ CleanupDelete(t)
  <2>1. UNCHANGED operations /\ th[t].pc \in Outside
    BY <1>4, CleanupEffect DEF CleanupStop, CleanupDelete, Outside
  <2>2. CASE Forgets(t)
    BY <2>1, <2>2, LocksForget
  <2>3. CASE Moves(t, "cleanupDelete")
    <3>1. Held(t) = {}
      BY <2>1 DEF Base, LockPlaces
    <3>2. th'[t].pc \in Outside /\ \A u \in Threads : u # t => th'[u] = th[u]
      BY <2>3 DEF Moves, Becomes, Outside
    <3>3. LocksAt(t, Targets(t), th[t].cur, th[t].pc)'
      BY <2>1, <3>1, <3>2, HeldSame, PlacesApart DEF LocksAt
    <3> QED
      BY <2>1, <3>2, <3>3, HeldSame, LocksFrame
  <2> QED
    BY <1>4, <2>2, <2>3, CleanupEffect
<1>5. CASE Schedule(t)
  <2>1. /\ th[t].pc = "schedule" /\ th[t].pc \in Inside /\ th[t].ptr \in Workers /\ th[t].ptr \in Threads /\ t # th[t].ptr
        /\ UNCHANGED operations
    BY <1>5, ScheduleEffect, RolesDisjoint DEF Schedule, Inside
  <2>2. CASE Ends(t, "err")
    BY <2>1, <2>2, WorksEnds, LocksWork DEF Working
  <2>3. CASE th[th[t].ptr].pc = "idle" /\ Schedules(t, th[t].ptr)
    <3> DEFINE w == th[t].ptr
    <3>1. Held(t) = Targets(t) /\ Held(w) = {}
      BY <2>1, <2>3, PlacesApart DEF Base, LockPlaces
    <3>2. Targets(t)' = Targets(t) /\ th'[t].pc = "release" /\ th'[w].pc \in Outside
      BY <2>1, <2>3 DEF Schedules, Targets, Outside
    <3>3. ASSUME NEW u \in Threads PROVE LocksAt(u, Targets(u), th[u].cur, th[u].pc)'
      <4>1. CASE u = t
        BY <2>1, <3>1, <3>2, <4>1, HeldSame, PlacesApart DEF LocksAt
      <4>2. CASE u = w
        BY <2>1, <3>1, <3>2, <4>2, HeldSame, PlacesApart DEF LocksAt
      <4>3. CASE u # t /\ u # w
        <5>1. Held(u)' = Held(u) /\ th'[u] = th[u] /\ Targets(u)' = Targets(u)
          BY <2>1, <2>3, <4>3, HeldSame DEF Targets, Schedules
        <5>2. LocksAt(u, Targets(u), th[u].cur, th[u].pc)
          BY DEF Base, LockPlaces, LocksAt
        <5> QED
          BY <5>1, <5>2 DEF LocksAt
      <4> QED
        BY <4>1, <4>2, <4>3
    <3> QED
      BY <3>3 DEF LockPlaces, LocksAt
  <2> QED
    BY <1>5, <2>2, <2>3, ScheduleEffect
<1>6. CASE RecoverWait(t)
  <2>1. UNCHANGED operations /\ th[t].pc \in Outside /\ th[t].op = "recover" /\ th[t].cur \in Sessions
    BY <1>6, RecoverWaitEffect, TargetTyped DEF RecoverWait, Outside, Base
  <2>2. CASE Forgets(t)
    BY <2>1, <2>2, LocksForget
  <2>3. CASE Moves(t, "lock")
    <3>1. Held(t) = {}
      BY <2>1 DEF Base, LockPlaces
    <3>2. /\ th'[t].pc = "lock" /\ th'[t].cur = th[t].cur /\ Targets(t)' = {th[t].cur}
          /\ \A u \in Threads : u # t => th'[u] = th[u]
      BY <2>1, <2>3 DEF Moves, Becomes, Targets
    <3>3. {s \in {th[t].cur} : s < th[t].cur} = {}
      BY <2>1, SessionsNat
    <3>4. LocksAt(t, Targets(t), th[t].cur, th[t].pc)'
      BY <2>1, <3>1, <3>2, <3>3, HeldSame, PlacesApart DEF LocksAt
    <3> QED
      BY <2>1, <3>2, <3>4, HeldSame, LocksFrame
  <2> QED
    BY <1>6, <2>2, <2>3, RecoverWaitEffect
<1> QED
  BY <1>1, <1>2, <1>3, <1>4, <1>5, <1>6 DEF EdgeStep

LEMMA LocksBegin ==
  ASSUME Base, NEW t \in Threads, NEW o, NEW S \in SUBSET Sessions, S # {}, BeginStep(t, o, S)
  PROVE  LockPlaces'
<1>1. th[t].pc = "idle" /\ Begins(t, o, S) /\ UNCHANGED operations
  BY DEF BeginStep
<1>2. Held(t) = {}
  BY <1>1, PlacesApart DEF Base, LockPlaces
<1>3. /\ th'[t].pc = "lock" /\ th'[t].cur = Min(S) /\ Targets(t)' \subseteq S
      /\ \A u \in Threads : u # t => th'[u] = th[u]
  BY <1>1, MinSession DEF Begins, Targets
<1>4. {s \in Targets(t)' : s < Min(S)} = {}
  <2> SUFFICES ASSUME NEW s \in S, s < Min(S) PROVE FALSE
    BY <1>3
  <2>1. s \in Nat /\ Min(S) \in Nat /\ Min(S) <= s
    BY MinSession, SessionsNat
  <2> QED
    BY <2>1
<1>5. LocksAt(t, Targets(t), th[t].cur, th[t].pc)'
  BY <1>1, <1>2, <1>3, <1>4, HeldSame, PlacesApart DEF LocksAt
<1> QED
  BY <1>1, <1>3, <1>5, HeldSame, LocksFrame

LEMMA LocksStep ==
  ASSUME Base, Kinds
  PROVE  LockPlaces'
<1>1. ASSUME NEW t \in Threads, WorkStep(t) PROVE LockPlaces'
  BY <1>1, LocksWork DEF WorkStep
<1>2. ASSUME NEW t \in Threads, EdgeStep(t) PROVE LockPlaces'
  BY <1>2, LocksEdge
<1>3. ASSUME NEW t \in Threads, NEW o \in Ops \cup {"resume"}, NEW S \in SUBSET Sessions, S # {}, BeginStep(t, o, S)
      PROVE  LockPlaces'
  BY <1>3, LocksBegin
<1>4. ASSUME UNCHANGED <<th, operations>> PROVE LockPlaces'
  BY <1>4 DEF Base, LockPlaces, Held, Targets
<1>5. CASE Restart
  <2>1. \A t \in Threads : Held(t)' = {} /\ th'[t].pc = "idle"
    BY <1>5, IdleFits, RolesDisjoint DEF Restart, Held
  <2> QED
    BY <2>1, PlacesApart DEF LockPlaces
<1>6. CASE LifeStep
  BY <1>4, <1>5, <1>6 DEF LifeStep, CancelWorkers, Wait, WaitReturns, Resume
<1> QED
  BY <1>1, <1>2, <1>3, <1>4, <1>6 DEF Kinds, QuietStep

-----------------------------------------------------------------------------
(* MapInv, Life and WaitDrains are kept.                                   *)

\* What an edge step leaves alone, and whom it moves.
LEMMA EdgeFrame ==
  ASSUME Base, NEW t \in Threads, EdgeStep(t)
  PROVE  /\ Shrinks /\ UNCHANGED <<workers, wk, queue>> /\ UNCHANGED <<closing, rootDone, restarts>>
         /\ th[t].pc # "idle" /\ th' \in [Threads -> ThreadType]
         /\ \A u \in Threads : u # t => th'[u] = th[u] \/ (Schedule(t) /\ u = th[t].ptr)
<1>1. UNCHANGED <<workers, wk, queue>> /\ UNCHANGED <<closing, rootDone, restarts>>
  BY DEF EdgeStep, Acquire, GiveUpLock, Release, CleanupStop, CleanupDelete, Schedule, RecoverWait, lifeVars
<1>2. Shrinks
  BY <1>1, UnchangedShrinks
<1>0. th \in [Threads -> ThreadType]
  BY ThreadTypes DEF Base
<1>3. CASE Acquire(t)
  BY <1>1, <1>2, <1>3, AcquireEffect DEF Becomes
<1>4. CASE GiveUpLock(t)
  BY <1>1, <1>2, <1>4, GiveUpEffect DEF Becomes, Ends
<1>5. CASE Release(t)
  <2>1. th[t].pc = "release"
    BY <1>5, ReleaseEffect
  <2>2. UNCHANGED th \/ th' = [th EXCEPT ![t] = AfterOperation(t)]
    BY <1>5, ReleaseEffect
  <2>3. CASE UNCHANGED th
    BY <1>0, <1>1, <1>2, <2>1, <2>3
  <2>4. CASE th' = [th EXCEPT ![t] = AfterOperation(t)]
    BY <1>1, <1>2, <2>1, <2>4, AfterOperationEffect DEF Becomes, Moves, Forgets, NextResumed
  <2> QED
    BY <2>2, <2>3, <2>4
<1>6. CASE CleanupStop(t) \/ CleanupDelete(t)
  BY <1>1, <1>2, <1>6, CleanupEffect DEF Becomes, Moves, Forgets
<1>7. CASE Schedule(t)
  BY <1>1, <1>2, <1>7, ScheduleEffect DEF Becomes, Ends, Schedules
<1>8. CASE RecoverWait(t)
  BY <1>1, <1>2, <1>8, RecoverWaitEffect DEF Becomes, Moves, Forgets
<1> QED
  BY <1>3, <1>4, <1>5, <1>6, <1>7, <1>8 DEF EdgeStep

LEMMA WorkFrame ==
  ASSUME Base, NEW t \in Threads, Working(t)
  PROVE  /\ th[t].pc \in Inside /\ th[t].pc # "idle" /\ th' \in [Threads -> ThreadType]
         /\ th'[t].op = th[t].op /\ th'[t].want = th[t].want
         /\ \A u \in Threads : u # t => th'[u] = th[u]
BY InsidePcs DEF Working, Works, Becomes

LEMMA WorkTarget ==
  ASSUME Base, NEW t \in Threads, th[t].pc \in Inside
  PROVE  th[t].cur \in Sessions /\ th[t].cur \in Targets(t)
BY TargetTyped, InsidePcs DEF Base, Targets

LEMMA MapStep ==
  ASSUME Base, Kinds
  PROVE  MapInv'
<1>1. ASSUME NEW t \in Threads, WorkStep(t) PROVE MapInv'
  <2>1. th[t].cur \in Sessions
    BY <1>1, WorkFrame, WorkTarget DEF WorkStep
  <2> QED
    BY <1>1, <2>1, GrowsMap DEF WorkStep, Shrinks
<1>2. ASSUME NEW t \in Threads, EdgeStep(t) PROVE MapInv'
  BY <1>2, EdgeFrame DEF Shrinks
<1>3. ASSUME UNCHANGED <<workers, wk>> PROVE MapInv'
  BY <1>3, UnchangedShrinks DEF Shrinks
<1>4. CASE Restart
  <2>1. (\A s \in Sessions : workers'[s] = None) /\ \A w \in Workers : wk'[w].pc = "gone"
    BY <1>4, NoWorkerTyped DEF Restart
  <2> QED
    BY <2>1 DEF MapInv, Live
<1>5. CASE LifeStep
  BY <1>3, <1>4, <1>5 DEF LifeStep, CancelWorkers, Wait, WaitReturns, Resume
<1> QED
  BY <1>1, <1>2, <1>3, <1>5 DEF Kinds, QuietStep, BeginStep, Shrinks

LEMMA LifeStepKept ==
  ASSUME Base, Kinds
  PROVE  Life'
<1>0. Life /\ Main \in Threads /\ \A w \in Workers : w \in Threads /\ w # Main
  BY RolesDisjoint DEF Base
<1>1. ASSUME NEW t \in Threads, WorkStep(t) PROVE Life'
  <2>1. th[t].pc # "idle" /\ UNCHANGED lifeVars /\ \A u \in Threads : u # t => th'[u] = th[u]
    BY <1>1, WorkFrame DEF WorkStep
  <2>2. phase = "boot" => \A w \in Workers : ~wk'[w].cancelled
    BY <1>0, <1>1 DEF WorkStep, Shrinks, Grows, Life
  <2> QED
    BY <1>0, <2>1, <2>2 DEF Life, lifeVars
<1>2. ASSUME NEW t \in Threads, EdgeStep(t) PROVE Life'
  <2>1. /\ th[t].pc # "idle" /\ UNCHANGED <<wk, closing, rootDone>>
        /\ \A u \in Threads : u # t => th'[u] = th[u] \/ (Schedule(t) /\ u = th[t].ptr)
    BY <1>2, EdgeFrame
  <2>2. CASE Schedule(t)
    <3>1. phase # "boot" /\ t # Main /\ th[t].ptr # Main /\ UNCHANGED phase
      BY <1>0, <2>1, <2>2, ScheduleEffect, RolesDisjoint DEF Life, Schedule, lifeVars
    <3> QED
      BY <1>0, <2>1, <3>1 DEF Life
  <2>3. CASE Release(t) /\ ~UNCHANGED phase
    <3>1. /\ t = Main /\ AfterOperation(t) = IdleThread /\ phase' = "serving"
          /\ th' = [th EXCEPT ![t] = AfterOperation(t)] /\ th[t].pc = "release"
      BY <2>3, ReleaseEffect
    <3>2. Forgets(t)
      BY <3>1, AfterOperationEffect
    <3>3. phase = "boot" /\ th'[Main].pc = "idle"
      BY <1>0, <3>1, <3>2, IdleFits DEF Life, Forgets
    <3> QED
      BY <1>0, <2>1, <3>1, <3>3 DEF Life
  <2>4. CASE ~Schedule(t) /\ UNCHANGED phase
    BY <1>0, <2>1, <2>4 DEF Life
  <2> QED
    BY <1>2, <2>2, <2>3, <2>4 DEF EdgeStep, Acquire, GiveUpLock, CleanupStop, CleanupDelete, RecoverWait, lifeVars
<1>3. ASSUME NEW t \in Threads, NEW o, NEW S \in SUBSET Sessions, BeginStep(t, o, S)
      PROVE  Life'
  BY <1>0, <1>3, RolesDisjoint DEF Life, BeginStep, Begins, lifeVars
<1>4. CASE QuietStep
  BY <1>0, <1>4 DEF Life, QuietStep, Shrinks, lifeVars
<1>5. CASE LifeStep
  <2>1. CASE CancelWorkers
    BY <1>0, <2>1 DEF Life, CancelWorkers
  <2>2. CASE Wait
    BY <1>0, <2>2 DEF Life, Wait
  <2>3. CASE WaitReturns
    BY <1>0, <2>3 DEF Life, WaitReturns
  <2>4. CASE Restart
    BY <1>0, <2>4, IdleFits, NoWorkerTyped DEF Life, Restart
  <2>5. CASE Resume /\ UNCHANGED th
    BY <1>0, <2>5 DEF Life, Resume
  <2> QED
    BY <1>5, <2>1, <2>2, <2>3, <2>4, <2>5 DEF LifeStep
<1> QED
  BY <1>1, <1>2, <1>3, <1>4, <1>5 DEF Kinds

LEMMA WaitDrainsStep ==
  ASSUME Base, Kinds
  PROVE  WaitDrains'
<1>0. WaitDrains /\ Life /\ \A w \in Workers : w \in Threads /\ w # Main /\ w \notin Callers
  BY RolesDisjoint DEF Base
<1>1. ASSUME NEW t \in Threads, WorkStep(t) PROVE WaitDrains'
  <2>1. th[t].pc # "idle" /\ UNCHANGED lifeVars /\ \A u \in Threads : u # t => th'[u] = th[u]
    BY <1>1, WorkFrame DEF WorkStep
  <2>2. phase = "stopped" => Shrinks
    BY <1>0, <1>1 DEF WorkStep, Grows, Life
  <2> QED
    BY <1>0, <2>1, <2>2 DEF WaitDrains, Live, Shrinks, lifeVars
<1>2. ASSUME NEW t \in Threads, EdgeStep(t) PROVE WaitDrains'
  <2>1. /\ th[t].pc # "idle" /\ UNCHANGED <<wk, closing, rootDone>>
        /\ \A u \in Threads : u # t => th'[u] = th[u] \/ (Schedule(t) /\ u = th[t].ptr)
    BY <1>2, EdgeFrame
  <2>2. phase' = "stopped" => phase = "stopped"
    BY <1>2 DEF EdgeStep, Acquire, GiveUpLock, Release, CleanupStop, CleanupDelete, RecoverWait, Schedule, lifeVars
  <2>3. Schedule(t) /\ phase = "stopped" => th'[th[t].ptr] = th[th[t].ptr]
    <3> SUFFICES ASSUME Schedule(t), phase = "stopped" PROVE th'[th[t].ptr] = th[th[t].ptr]
      OBVIOUS
    <3>1. closing
      BY <1>0 DEF Life
    <3>2. Ends(t, "err") /\ th[t].ptr \in Threads /\ th[t].ptr # t
      BY <1>0, <3>1, ScheduleEffect, RolesDisjoint
    <3> QED
      BY <3>2 DEF Ends, Becomes
  <2> QED
    BY <1>0, <2>1, <2>2, <2>3 DEF WaitDrains, Live
<1>3. ASSUME NEW t \in Threads, NEW o, NEW S \in SUBSET Sessions, BeginStep(t, o, S)
      PROVE  WaitDrains'
  BY <1>0, <1>3 DEF WaitDrains, Live, BeginStep, Begins, lifeVars
<1>4. CASE QuietStep
  BY <1>0, <1>4 DEF WaitDrains, Live, QuietStep, Shrinks, lifeVars
<1>5. CASE LifeStep
  BY <1>0, <1>5 DEF WaitDrains, Live, LifeStep, CancelWorkers, Wait, WaitReturns, Restart, Resume
<1> QED
  BY <1>1, <1>2, <1>3, <1>4, <1>5 DEF Kinds

-----------------------------------------------------------------------------
(* Pointers is kept.                                                       *)

PointsAtOwn(t)   == th[t].pc \in {"stopWait", "schedule"} => workers[th[t].cur] \in {th[t].ptr, None}
HasNoWorker(t)   == th[t].pc \in {"stopRead", "stopRow", "restore"} => workers[th[t].cur] = None
PointsAt(t, w)   == /\ th[t].ptr = w /\ Live(w) => wk[w].id = th[t].cur
                    /\ th[t].ptr = w /\ th[w].pc # "idle" => th[w].cur = th[t].cur
RecoversLater(w) == th[w].pc # "idle" /\ Live(w) => th[w].pc = "recoverWait" /\ th[w].cur = wk[w].id
SameTarget(t, u) == th[t].ptr = th[u].ptr /\ th[t].ptr # None => th[t].cur = th[u].cur

LEMMA PointerParts ==
  Pointers <=> /\ \A t \in Threads : PointsAtOwn(t) /\ HasNoWorker(t)
               /\ \A t \in Threads, w \in Workers : PointsAt(t, w)
               /\ \A w \in Workers : RecoversLater(w)
               /\ \A t, u \in Threads : SameTarget(t, u)
BY DEF Pointers, PointsAtOwn, HasNoWorker, PointsAt, RecoversLater, SameTarget

LEMMA PointerPartsNext ==
  Pointers' <=> /\ \A t \in Threads : PointsAtOwn(t)' /\ HasNoWorker(t)'
                /\ \A t \in Threads, w \in Workers : PointsAt(t, w)'
                /\ \A w \in Workers : RecoversLater(w)'
                /\ \A t, u \in Threads : SameTarget(t, u)'
BY DEF Pointers, PointsAtOwn, HasNoWorker, PointsAt, RecoversLater, SameTarget

\* A thread at a place with a target names a session.
LEMMA CurIsSession ==
  ASSUME Base, NEW t \in Threads, th[t].pc # "idle"
  PROVE  th[t].cur \in Sessions
BY TargetTyped DEF Base

\* Only t moves; it keeps or drops its pointer, and nobody is published.
LEMMA PointersMove ==
  ASSUME Base, Shrinks, NEW t \in Threads,
         \A u \in Threads : u # t => th'[u] = th[u],
         th'[t].ptr \in {None, th[t].ptr}, th'[t].ptr # None => th'[t].cur = th[t].cur,
         th'[t].pc \notin {"stopWait", "schedule", "stopRead", "stopRow", "restore"},
         t \in Workers => th'[t].pc = "idle" \/ (th[t].pc # "idle" /\ th'[t].cur = th[t].cur /\ ~Live(t))
  PROVE  Pointers'
<1>0. Pointers /\ Workers \subseteq Threads
  BY RolesDisjoint DEF Base
<1>1. ASSUME NEW u \in Threads PROVE PointsAtOwn(u)' /\ HasNoWorker(u)'
  <2>1. CASE u = t
    BY <2>1 DEF PointsAtOwn, HasNoWorker
  <2>2. CASE u # t
    <3>1. th'[u] = th[u] /\ PointsAtOwn(u) /\ HasNoWorker(u)
      BY <1>0, <2>2, PointerParts
    <3>2. th[u].pc # "idle" => workers'[th[u].cur] \in {workers[th[u].cur], None}
      BY CurIsSession DEF Shrinks
    <3> QED
      BY <3>1, <3>2 DEF PointsAtOwn, HasNoWorker
  <2> QED
    BY <2>1, <2>2
<1>2. ASSUME NEW u \in Threads, NEW w \in Workers PROVE PointsAt(u, w)'
  <2>1. PointsAt(u, w) /\ (wk'[w].pc # "gone" => wk[w].pc # "gone" /\ wk'[w].id = wk[w].id)
    BY <1>0, PointerParts DEF Shrinks
  <2>2. w \in Threads /\ th'[u].ptr # None => th'[u].ptr = th[u].ptr /\ th'[u].cur = th[u].cur
    BY <1>0
  <2>3. w # None /\ (th'[w].pc # "idle" => th[w].pc # "idle" /\ th'[w].cur = th[w].cur)
    BY <1>0, RolesDisjoint
  <2> QED
    BY <1>0, <2>1, <2>2, <2>3 DEF PointsAt, Live
<1>3. ASSUME NEW w \in Workers PROVE RecoversLater(w)'
  <2>1. RecoversLater(w) /\ (wk'[w].pc # "gone" => wk[w].pc # "gone" /\ wk'[w].id = wk[w].id)
    BY <1>0, PointerParts DEF Shrinks
  <2> QED
    BY <1>0, <2>1 DEF RecoversLater, Live
<1>4. ASSUME NEW u \in Threads, NEW v \in Threads PROVE SameTarget(u, v)'
  <2>1. SameTarget(u, v)
    BY <1>0, PointerParts
  <2>2. /\ th'[u].ptr # None => th'[u].ptr = th[u].ptr /\ th'[u].cur = th[u].cur
        /\ th'[v].ptr # None => th'[v].ptr = th[v].ptr /\ th'[v].cur = th[v].cur
    OBVIOUS
  <2> QED
    BY <2>1, <2>2 DEF SameTarget
<1> QED
  BY <1>1, <1>2, <1>3, <1>4, PointerPartsNext

LEMMA PointersQuiet ==
  ASSUME Base, Shrinks, UNCHANGED th
  PROVE  Pointers'
<1>0. Pointers
  BY DEF Base
<1>1. ASSUME NEW u \in Threads PROVE PointsAtOwn(u)' /\ HasNoWorker(u)'
  <2>1. PointsAtOwn(u) /\ HasNoWorker(u)
    BY <1>0, PointerParts
  <2>2. th[u].pc # "idle" => workers'[th[u].cur] \in {workers[th[u].cur], None}
    BY CurIsSession DEF Shrinks
  <2> QED
    BY <2>1, <2>2 DEF PointsAtOwn, HasNoWorker
<1>2. ASSUME NEW u \in Threads, NEW w \in Workers PROVE PointsAt(u, w)' /\ RecoversLater(w)'
  <2>1. /\ PointsAt(u, w) /\ RecoversLater(w)
        /\ wk'[w].pc # "gone" => wk[w].pc # "gone" /\ wk'[w].id = wk[w].id
    BY <1>0, PointerParts DEF Shrinks
  <2> QED
    BY <2>1 DEF PointsAt, RecoversLater, Live
<1>3. ASSUME NEW u \in Threads, NEW v \in Threads PROVE SameTarget(u, v)'
  BY <1>0, PointerParts DEF SameTarget
<1> QED
  BY <1>1, <1>2, <1>3, PointerPartsNext, RolesDisjoint

\* Two operations with their locks are on different sessions.
LEMMA Apart ==
  ASSUME Base, NEW t \in Threads, NEW u \in Threads, t # u, th[t].pc \in Inside, th[u].pc \in Inside
  PROVE  Targets(t) \cap Targets(u) = {} /\ th[t].cur # th[u].cur
<1>1. Held(t) = Targets(t) /\ Held(u) = Targets(u)
  BY DEF Base, LockPlaces
<1>2. th[t].cur \in Targets(t) /\ th[u].cur \in Targets(u)
  BY WorkTarget
<1> QED
  BY <1>1, <1>2 DEF Held

\* The new pointer of a working thread names the worker of its session.
LEMMA NewPointer ==
  ASSUME Base, NEW t \in Threads, NEW p, NEW c, NEW x, NEW k, NEW r, Works(t, p, c, x, k, r), x # None
  PROVE  /\ c = th[t].cur /\ x \in Workers /\ t \in Callers /\ c \in Sessions
         /\ Live(x) => wk[x].id = c
         /\ th[x].pc # "idle" => th[x].cur = c
         /\ \A u \in Threads : th[u].ptr = x => th[u].cur = c
<1>0. Pointers /\ TypeOK /\ MapInv
  BY DEF Base
<1>1. c = th[t].cur /\ (x = th[t].ptr \/ x = workers[c]) /\ c \in Sessions /\ th[t].pc \in Inside
  BY WorkTarget DEF Works, Keeps
<1>2. t \in Callers
  BY SupervisorAssumption DEF Works, Fits, Base, Placed, Threads
<1>3. x \in Workers /\ x \in Threads
  BY <1>0, <1>1, ThreadTypes, RolesDisjoint DEF TypeOK, ThreadType
<1>4. CASE x = th[t].ptr
  <2>1. PointsAt(t, x) /\ \A u \in Threads : SameTarget(u, t)
    BY <1>0, <1>3, PointerParts
  <2> QED
    BY <1>1, <1>2, <1>3, <1>4, <2>1 DEF PointsAt, SameTarget
<1>5. CASE x = workers[c]
  <2>1. Live(x) /\ wk[x].id = c
    BY <1>0, <1>1, <1>5 DEF MapInv
  <2>2. RecoversLater(x) /\ \A u \in Threads : PointsAt(u, x)
    BY <1>0, <1>3, PointerParts
  <2> QED
    BY <1>1, <1>2, <1>3, <2>1, <2>2 DEF RecoversLater, PointsAt
<1> QED
  BY <1>1, <1>4, <1>5

\* An idle or live worker's thread does not work.
LEMMA WorkerThreadWorks ==
  ASSUME Base, NEW t \in Workers, th[t].pc \in Inside \cup {"lock"}
  PROVE  /\ ~Live(t) /\ th[t].ptr = None /\ th[t].op = "recover" /\ Targets(t) = {th[t].cur}
         /\ \A u \in Threads : th[u].ptr = t => th[u].cur = th[t].cur
<1>1. t \in Threads /\ th[t].pc # "idle" /\ th[t].pc # "recoverWait" /\ Pointers
  BY RolesDisjoint, InsidePcs DEF Base, Inside
<1>2. th[t].op = "recover" /\ th[t].ptr = None
  BY <1>1 DEF Base, Placed, Fits
<1>3. RecoversLater(t) /\ \A u \in Threads : PointsAt(u, t)
  BY <1>1, PointerParts
<1> QED
  BY <1>1, <1>2, <1>3 DEF RecoversLater, PointsAt, Targets

LEMMA PointersWork ==
  ASSUME Base, NEW t \in Threads, WorkStep(t)
  PROVE  Pointers'
<1>1. PICK p, c, x, k, r : Works(t, p, c, x, k, r)
  BY DEF WorkStep, Working
<1>2. /\ th'[t].pc = p /\ th'[t].cur = c /\ th'[t].ptr = x /\ th[t].pc \in Inside /\ c \in Targets(t)
      /\ \A u \in Threads : u # t => th'[u] = th[u]
  BY <1>1 DEF Works, Becomes, Keeps
<1>3. th[t].cur \in Sessions /\ th[t].pc # "idle" /\ p # "idle" /\ p # "recoverWait" /\ Pointers /\ Workers \subseteq Threads
  BY <1>1, <1>2, WorkTarget, InsidePcs, RolesDisjoint DEF Base, Works, Inside
<1>4. c \in Sessions
  BY <1>2, <1>3, BatchTargets, TargetTyped DEF Targets, Base
<1>5. t \in Workers => c = th[t].cur /\ ~Live(t)
  BY <1>2, WorkerThreadWorks
<1>6. ASSUME NEW u \in Threads, NEW v \in Threads PROVE SameTarget(u, v)'
  <2>1. SameTarget(u, v)
    BY <1>3, PointerParts
  <2>2. CASE x = None
    BY <1>2, <2>1, <2>2 DEF SameTarget
  <2>3. CASE x # None
    BY <1>1, <1>2, <2>1, <2>3, NewPointer DEF SameTarget
  <2> QED
    BY <2>2, <2>3
<1>7. ASSUME NEW u \in Threads, NEW w \in Workers PROVE th'[u].ptr = w /\ th'[w].pc # "idle" => th'[w].cur = th'[u].cur
  <2>0. w \in Threads /\ w # None /\ PointsAt(u, w)
    BY <1>3, PointerParts, RolesDisjoint
  <2>1. CASE u = t
    <3>1. x = w /\ th[w].pc # "idle" => th[w].cur = c
      BY <1>1, <2>0, NewPointer
    <3>2. x = w => w # t
      BY <1>1, <2>0, NewPointer, RolesDisjoint
    <3> QED
      BY <1>2, <2>0, <2>1, <3>1, <3>2
  <2>2. CASE u # t /\ w = t
    BY <1>2, <1>3, <1>5, <2>0, <2>2 DEF PointsAt
  <2>3. CASE u # t /\ w # t
    BY <1>2, <2>0, <2>3 DEF PointsAt
  <2> QED
    BY <2>1, <2>2, <2>3
<1>8. CASE Shrinks
  <2>1. ASSUME NEW u \in Threads PROVE PointsAtOwn(u)' /\ HasNoWorker(u)'
    <3>1. CASE u = t
      <4>1. workers'[c] \in {workers[c], None}
        BY <1>4, <1>8 DEF Shrinks
      <4> QED
        BY <1>1, <1>2, <3>1, <4>1 DEF PointsAtOwn, HasNoWorker, Works, Keeps
    <3>2. CASE u # t
      <4>1. th'[u] = th[u] /\ PointsAtOwn(u) /\ HasNoWorker(u)
        BY <1>2, <1>3, <3>2, PointerParts
      <4>2. th[u].pc # "idle" => workers'[th[u].cur] \in {workers[th[u].cur], None}
        BY <1>8, CurIsSession DEF Shrinks
      <4> QED
        BY <4>1, <4>2 DEF PointsAtOwn, HasNoWorker
    <3> QED
      BY <3>1, <3>2
  <2>2. ASSUME NEW u \in Threads, NEW w \in Workers PROVE PointsAt(u, w)'
    <3>1. PointsAt(u, w) /\ (wk'[w].pc # "gone" => wk[w].pc # "gone" /\ wk'[w].id = wk[w].id) /\ w # None
      BY <1>3, <1>8, PointerParts, RolesDisjoint DEF Shrinks
    <3>2. x = w /\ Live(w) => wk[w].id = c
      BY <1>1, <3>1, NewPointer
    <3>3. th'[u].ptr = w /\ wk'[w].pc # "gone" => wk'[w].id = th'[u].cur
      BY <1>2, <3>1, <3>2 DEF PointsAt, Live
    <3> QED
      BY <1>7, <3>3 DEF PointsAt, Live
  <2>3. ASSUME NEW w \in Workers PROVE RecoversLater(w)'
    <3>1. RecoversLater(w) /\ (wk'[w].pc # "gone" => wk[w].pc # "gone" /\ wk'[w].id = wk[w].id) /\ w \in Threads
      BY <1>3, <1>8, PointerParts DEF Shrinks
    <3> QED
      BY <1>2, <1>5, <3>1 DEF RecoversLater, Live
  <2> QED
    BY <1>6, <2>1, <2>2, <2>3, PointerPartsNext
<1>9. CASE p = "release" /\ \E w \in Workers, l \in BOOLEAN : Grows(th[t].cur, w, l)
  <2>1. PICK w \in Workers, l \in BOOLEAN : Grows(th[t].cur, w, l)
    BY <1>9
  <2>2. /\ th[w].pc = "idle" /\ (\A u \in Threads : th[u].ptr # w) /\ w # t /\ w \in Threads
        /\ workers' = [workers EXCEPT ![th[t].cur] = w] /\ workers \in [Sessions -> Workers \cup {None}]
        /\ \A v \in Workers : v # w => wk'[v] = wk[v]
    BY <1>3, <2>1 DEF Grows, FreeWorkers, Base, TypeOK
  <2>3. x # w
    <3> SUFFICES ASSUME x = w PROVE FALSE
      OBVIOUS
    <3>1. x # None
      BY <2>1, RolesDisjoint
    <3>2. x = th[t].ptr \/ x = workers[th[t].cur]
      BY <1>1, <3>1 DEF Works, Keeps
    <3>3. workers[th[t].cur] = None
      BY <2>1 DEF Grows
    <3> QED
      BY <2>2, <3>1, <3>2, <3>3
  <2>4. ASSUME NEW u \in Threads PROVE PointsAtOwn(u)' /\ HasNoWorker(u)'
    <3>1. CASE u = t
      BY <1>2, <1>9, <3>1 DEF PointsAtOwn, HasNoWorker
    <3>2. CASE u # t
      <4>1. th'[u] = th[u] /\ PointsAtOwn(u) /\ HasNoWorker(u)
        BY <1>2, <1>3, <3>2, PointerParts
      <4>2. th[u].pc \in {"stopWait", "schedule", "stopRead", "stopRow", "restore"} =>
              th[u].cur \in Sessions /\ th[u].cur # th[t].cur
        BY <1>2, <3>2, Apart, WorkTarget DEF Inside
      <4>3. th[u].pc \in {"stopWait", "schedule", "stopRead", "stopRow", "restore"} =>
              workers'[th[u].cur] = workers[th[u].cur]
        BY <2>2, <4>2
      <4> QED
        BY <4>1, <4>3 DEF PointsAtOwn, HasNoWorker
    <3> QED
      BY <3>1, <3>2
  <2>5. ASSUME NEW u \in Threads, NEW v \in Workers PROVE PointsAt(u, v)'
    <3>1. PointsAt(u, v) /\ v # None
      BY <1>3, PointerParts, RolesDisjoint
    <3>2. x = v /\ Live(v) => wk[v].id = c
      BY <1>1, <3>1, NewPointer
    <3>3. th'[u].ptr = v => v # w
      BY <1>2, <2>2, <2>3
    <3>4. th'[u].ptr = v /\ wk'[v].pc # "gone" => wk'[v].id = th'[u].cur
      BY <1>2, <2>2, <3>1, <3>2, <3>3 DEF PointsAt, Live
    <3> QED
      BY <1>7, <3>4 DEF PointsAt, Live
  <2>6. ASSUME NEW v \in Workers PROVE RecoversLater(v)'
    <3>1. RecoversLater(v) /\ v \in Threads
      BY <1>3, PointerParts
    <3>2. CASE v = w
      BY <1>2, <2>2, <3>2 DEF RecoversLater
    <3>3. CASE v # w
      BY <1>2, <1>5, <2>2, <3>1, <3>3 DEF RecoversLater, Live
    <3> QED
      BY <3>2, <3>3
  <2> QED
    BY <1>6, <2>4, <2>5, <2>6, PointerPartsNext
<1> QED
  BY <1>2, <1>8, <1>9 DEF WorkStep

LEMMA PointersSchedule ==
  ASSUME Base, NEW t \in Threads, Schedule(t)
  PROVE  Pointers'
<1>0. Pointers /\ Shrinks /\ UNCHANGED <<workers, wk>>
  BY EdgeFrame DEF Base, EdgeStep
<1>1. /\ th[t].pc = "schedule" /\ th[t].ptr \in Workers /\ t \in Callers /\ th[t].cur \in Sessions
      /\ th[t].ptr # t /\ th[t].ptr \in Threads /\ th[t].ptr # None /\ t \notin Workers
  BY ScheduleEffect, RolesDisjoint
<1>2. CASE Ends(t, "err")
  <2>1. /\ th'[t].pc = "release" /\ th'[t].ptr = th[t].ptr /\ th'[t].cur = th[t].cur
        /\ \A u \in Threads : u # t => th'[u] = th[u]
    BY <1>2 DEF Ends, Becomes
  <2> QED
    BY <1>0, <1>1, <2>1, PointersMove
<1>3. CASE th[th[t].ptr].pc = "idle" /\ Schedules(t, th[t].ptr)
  <2> DEFINE w == th[t].ptr
  <2>1. /\ th'[t].pc = "release" /\ th'[t].cur = th[t].cur /\ th'[t].ptr = w
        /\ th'[w].pc = "recoverWait" /\ th'[w].cur = th[t].cur /\ th'[w].ptr = None
        /\ \A u \in Threads : u # t /\ u # w => th'[u] = th[u]
    BY <1>3 DEF Schedules
  <2>2. /\ PointsAt(t, w) /\ \A u \in Threads : SameTarget(u, t)
    BY <1>0, <1>1, PointerParts
  <2> HIDE DEF w
  <2>3. ASSUME NEW u \in Threads PROVE PointsAtOwn(u)' /\ HasNoWorker(u)'
    <3>1. PointsAtOwn(u) /\ HasNoWorker(u)
      BY <1>0, PointerParts
    <3> QED
      BY <1>0, <2>1, <3>1 DEF PointsAtOwn, HasNoWorker
  <2>4. ASSUME NEW u \in Threads, NEW v \in Workers PROVE PointsAt(u, v)'
    <3>1. PointsAt(u, v) /\ v \in Threads /\ v # None /\ v # t
      BY <1>0, <1>1, PointerParts, RolesDisjoint
    <3>2. th[u].ptr = w => th[u].cur = th[t].cur
      BY <1>1, <2>2 DEF SameTarget, w
    <3>3. u # w => th'[u].ptr = th[u].ptr /\ th'[u].cur = th[u].cur
      BY <2>1 DEF w
    <3>4. th'[u].ptr = v => u # w
      BY <2>1, <3>1
    <3> QED
      BY <1>0, <2>1, <3>1, <3>2, <3>3, <3>4 DEF PointsAt, Live
  <2>5. ASSUME NEW v \in Workers PROVE RecoversLater(v)'
    <3>1. RecoversLater(v) /\ v \in Threads /\ v # t
      BY <1>0, <1>1, PointerParts, RolesDisjoint
    <3>2. CASE v = w
      BY <1>0, <2>1, <2>2, <3>2 DEF RecoversLater, PointsAt, Live, w
    <3>3. CASE v # w
      BY <1>0, <2>1, <3>1, <3>3 DEF RecoversLater, Live
    <3> QED
      BY <3>2, <3>3
  <2>6. ASSUME NEW u \in Threads, NEW v \in Threads PROVE SameTarget(u, v)'
    <3>1. SameTarget(u, v)
      BY <1>0, PointerParts
    <3>2. /\ u # w => th'[u].ptr = th[u].ptr /\ th'[u].cur = th[u].cur
          /\ v # w => th'[v].ptr = th[v].ptr /\ th'[v].cur = th[v].cur
      BY <2>1 DEF w
    <3> QED
      BY <2>1, <3>1, <3>2 DEF SameTarget
  <2> QED
    BY <2>3, <2>4, <2>5, <2>6, PointerPartsNext
<1> QED
  BY <1>2, <1>3, ScheduleEffect

LEMMA PointersEdge ==
  ASSUME Base, NEW t \in Threads, EdgeStep(t)
  PROVE  Pointers'
<1> DEFINE Placing == {"stopWait", "schedule", "stopRead", "stopRow", "restore"}
<1>0. Shrinks
  BY EdgeFrame
<1>1. CASE Acquire(t)
  <2>1. th[t].pc = "lock" /\ Body(t) \in {"start", "stop", "read"}
    BY <1>1, AcquireEffect, BodyFits
  <2>2. t \in Workers => th[t].op = "recover" /\ ~Live(t) /\ Targets(t) = {th[t].cur}
    BY <2>1, WorkerThreadWorks
  <2>3. /\ th'[t].pc \notin Placing /\ th'[t].ptr = None /\ \A u \in Threads : u # t => th'[u] = th[u]
        /\ t \in Workers => th'[t].cur = th[t].cur
    BY <1>1, <2>1, <2>2, AcquireEffect DEF Becomes
  <2> QED
    BY <1>0, <2>1, <2>2, <2>3, PointersMove
<1>2. CASE GiveUpLock(t)
  <2>1. th[t].pc = "lock" /\ th[t].ptr = None /\ Ends(t, "err")
    BY <1>2, GiveUpEffect
  <2>2. t \in Workers => ~Live(t)
    BY <2>1, WorkerThreadWorks
  <2>3. /\ th'[t].pc = "release" /\ th'[t].ptr = None /\ th'[t].cur = th[t].cur
        /\ \A u \in Threads : u # t => th'[u] = th[u]
    BY <2>1 DEF Ends, Becomes
  <2> QED
    BY <1>0, <2>1, <2>2, <2>3, PointersMove
<1>3. CASE Release(t)
  <2>1. th[t].pc = "release" /\ Pointers
    BY <1>3, ReleaseEffect DEF Base
  <2>2. t \in Workers => ~Live(t)
    BY <2>1, PointerParts DEF RecoversLater
  <2>3. CASE UNCHANGED th
    BY <1>0, <2>3, PointersQuiet
  <2>4. CASE th' = [th EXCEPT ![t] = AfterOperation(t)]
    <3>1. /\ th'[t].pc \notin Placing /\ th'[t].ptr = None /\ \A u \in Threads : u # t => th'[u] = th[u]
          /\ th[t].op # "resume" => th'[t].pc = "idle" \/ th'[t].cur = th[t].cur
      BY <2>1, <2>4, AfterOperationEffect, IdleFits DEF Becomes, Moves, Forgets, NextResumed
    <3>2. t \in Workers => th[t].op # "resume"
      BY DEF Base, Placed
    <3> QED
      BY <1>0, <2>1, <2>2, <3>1, <3>2, PointersMove
  <2> QED
    BY <1>3, <2>3, <2>4, ReleaseEffect
<1>4. CASE CleanupStop(t) \/ CleanupDelete(t)
  <2>1. th[t].op = "create" /\ th[t].ptr = None /\ (Moves(t, "cleanupDelete") \/ Forgets(t))
    BY <1>4, CleanupEffect
  <2>2. t \notin Workers
    BY <2>1 DEF Base, Placed
  <2>3. /\ th'[t].pc \notin Placing /\ th'[t].ptr = None /\ \A u \in Threads : u # t => th'[u] = th[u]
    BY <2>1, IdleFits DEF Moves, Becomes, Forgets
  <2> QED
    BY <1>0, <2>2, <2>3, PointersMove
<1>5. CASE Schedule(t)
  BY <1>5, PointersSchedule
<1>6. CASE RecoverWait(t)
  <2>1. /\ th[t].pc = "recoverWait" /\ th[t].ptr = None
        /\ (~Live(t) /\ Moves(t, "lock")) \/ Forgets(t)
    BY <1>6, RecoverWaitEffect
  <2>2. /\ th'[t].pc \notin Placing /\ th'[t].ptr = None /\ \A u \in Threads : u # t => th'[u] = th[u]
        /\ th'[t].pc = "idle" \/ (th'[t].cur = th[t].cur /\ ~Live(t))
    BY <2>1, IdleFits DEF Moves, Becomes, Forgets
  <2> QED
    BY <1>0, <2>1, <2>2, PointersMove
<1> QED
  BY <1>1, <1>2, <1>3, <1>4, <1>5, <1>6 DEF EdgeStep

LEMMA PointersStep ==
  ASSUME Base, Kinds
  PROVE  Pointers'
<1>1. ASSUME NEW t \in Threads, WorkStep(t) PROVE Pointers'
  BY <1>1, PointersWork
<1>2. ASSUME NEW t \in Threads, EdgeStep(t) PROVE Pointers'
  BY <1>2, PointersEdge
<1>3. ASSUME NEW t \in Threads, NEW o, NEW S \in SUBSET Sessions, BeginStep(t, o, S)
      PROVE  Pointers'
  <2>1. /\ th'[t].pc = "lock" /\ th'[t].ptr = None /\ t \notin Workers
        /\ \A u \in Threads : u # t => th'[u] = th[u]
    BY <1>3, RolesDisjoint DEF BeginStep, Begins
  <2>2. Shrinks
    BY <1>3, UnchangedShrinks DEF BeginStep
  <2> QED
    BY <2>1, <2>2, PointersMove
<1>4. ASSUME UNCHANGED th, Shrinks PROVE Pointers'
  BY <1>4, PointersQuiet
<1>5. CASE LifeStep
  <2>1. CASE Restart
    <3>1. \A t \in Threads : th'[t].pc = "idle" /\ th'[t].ptr = None
      BY <2>1, IdleFits DEF Restart
    <3> QED
      BY <3>1, RolesDisjoint DEF Pointers
  <2>2. CASE UNCHANGED <<th, workers, wk>>
    BY <1>4, <2>2, UnchangedShrinks
  <2> QED
    BY <1>5, <2>1, <2>2 DEF LifeStep, CancelWorkers, Wait, WaitReturns, Resume
<1> QED
  BY <1>1, <1>2, <1>3, <1>4, <1>5 DEF Kinds, QuietStep

-----------------------------------------------------------------------------
(* Barriers is kept.                                                       *)

Items == Sessions \cup Threads \cup {None}

LEMMA QueueFacts ==
  ASSUME Base
  PROVE  /\ queue \in Seq(Items) /\ Len(queue) \in Nat /\ DOMAIN queue = 1 .. Len(queue) /\ Len(queue) <= SinkCapacity
         /\ SinkCapacity \in Nat
<1>1. queue \in Seq(Items) /\ Len(queue) <= SinkCapacity
  BY DEF Base, TypeOK, Items
<1> QED
  BY <1>1, SupervisorAssumption

\* What happens to the queue, and to the threads that wait for a barrier.
QueueKinds ==
  \/ UNCHANGED queue /\ \A u \in Threads : th[u].pc = "flushWait" => th'[u] = th[u]
  \/ \E t \in Threads : Flush(t) \/ FlushFails(t)
  \/ \E w \in Workers : WorkerEnqueue(w)
  \/ SinkStep
  \/ Restart

LEMMA NextQueue ==
  ASSUME Base, Next
  PROVE  QueueKinds
<1>1. ASSUME NEW t \in Callers,
             \/ \E s \in Sessions : Create(t, s) \/ Reenable(t, s) \/ Stop(t, s) \/ Delete(t, s)
             \/ \E S \in (SUBSET Sessions) \ {{}} : DeleteSessions(t, S)
      PROVE  UNCHANGED queue /\ \A u \in Threads : th[u].pc = "flushWait" => th'[u] = th[u]
  <2>1. UNCHANGED queue
    BY <1>1 DEF Create, Reenable, Stop, Delete, DeleteSessions
  <2>2. QuietStep \/ \E o \in Ops, S \in SUBSET Sessions : S # {} /\ BeginStep(t, o, S)
    BY <1>1, RequestKinds
  <2> QED
    BY <2>1, <2>2 DEF QuietStep, BeginStep, Begins
<1>2. ASSUME NEW t \in Threads, EdgeStep(t)
      PROVE  UNCHANGED queue /\ \A u \in Threads : th[u].pc = "flushWait" => th'[u] = th[u]
  <2>1. /\ UNCHANGED queue
        /\ \A u \in Threads : u # t => th'[u] = th[u] \/ (Schedule(t) /\ u = th[t].ptr)
    BY <1>2, EdgeFrame
  <2>2. th[t].pc # "flushWait"
    BY <1>2 DEF EdgeStep, Acquire, GiveUpLock, Release, CleanupStop, CleanupDelete, Schedule, RecoverWait
  <2>3. Schedule(t) => th'[th[t].ptr] = th[th[t].ptr] \/ th[th[t].ptr].pc = "idle"
    <3> SUFFICES ASSUME Schedule(t) PROVE th'[th[t].ptr] = th[th[t].ptr] \/ th[th[t].ptr].pc = "idle"
      OBVIOUS
    <3>1. th[t].ptr \in Threads /\ th[t].ptr # t
      BY ScheduleEffect, RolesDisjoint
    <3> QED
      BY <3>1, ScheduleEffect DEF Ends, Becomes
  <2> QED
    BY <2>1, <2>2, <2>3
<1>3. ASSUME NEW t \in Threads,
             \/ StartCurrent(t) \/ Publish(t) \/ StopLook(t) \/ StopWait(t) \/ StopRead(t) \/ StopRow(t)
             \/ RestorePrepared(t) \/ DeleteRead(t) \/ DeleteSamples(t) \/ DeleteRow(t)
      PROVE  UNCHANGED queue /\ \A u \in Threads : th[u].pc = "flushWait" => th'[u] = th[u]
  <2>1. UNCHANGED queue /\ th[t].pc # "flushWait" /\ ~EdgeStep(t)
    BY <1>3 DEF StartCurrent, Publish, StopLook, StopWait, StopRead, StopRow, RestorePrepared, DeleteRead,
         DeleteSamples, DeleteRow, EdgeStep, Acquire, GiveUpLock, Release, CleanupStop, CleanupDelete,
         Schedule, RecoverWait
  <2>2. Working(t) \/ UNCHANGED th
    BY <1>3, <2>1, ThreadKinds DEF ThreadStep, WorkStep, QuietStep
  <2> QED
    BY <2>1, <2>2, WorkFrame
<1>4. ASSUME NEW w \in Workers, WorkerTick(w) \/ WorkerCap(w) \/ WorkerFinish(w) \/ WorkerExit(w)
      PROVE  UNCHANGED <<queue, th>>
  BY <1>4 DEF WorkerTick, WorkerCap, WorkerFinish, WorkerExit
<1>5. ASSUME Resume \/ CancelWorkers \/ Wait \/ WaitReturns
      PROVE  UNCHANGED queue /\ \A u \in Threads : th[u].pc = "flushWait" => th'[u] = th[u]
  <2>1. UNCHANGED queue /\ (th' = th \/ (Begin(Main, "resume", RunningSessions) /\ th[Main].pc = "idle"))
    BY <1>5 DEF Resume, CancelWorkers, Wait, WaitReturns
  <2>2. \A u \in Threads : u # Main => (Begin(Main, "resume", RunningSessions) => th'[u] = th[u])
    <3> TAKE u \in Threads
    <3> HAVE u # Main
    <3>1. th \in [Threads -> ThreadType]
      BY ThreadTypes DEF Base
    <3> QED
      BY <3>1 DEF Begin
  <2> QED
    BY <2>1, <2>2
<1> QED
  BY <1>1, <1>2, <1>3, <1>4, <1>5 DEF Next, QueueKinds, ThreadStep, EdgeStep, WorkerStep

LEMMA AppendFacts ==
  ASSUME Base, NEW x \in Items, Len(queue) < SinkCapacity, queue' = Append(queue, x)
  PROVE  /\ queue' \in Seq(Items) /\ Len(queue') <= SinkCapacity /\ DOMAIN queue' = 1 .. Len(queue) + 1
         /\ queue'[Len(queue) + 1] = x /\ \A i \in 1 .. Len(queue) : queue'[i] = queue[i]
         /\ Len(queue) + 1 \in DOMAIN queue' /\ Len(queue) + 1 \notin DOMAIN queue
         /\ \A i \in DOMAIN queue' : i = Len(queue) + 1 \/ i \in DOMAIN queue
<1>1. queue \in Seq(Items) /\ Len(queue) \in Nat /\ DOMAIN queue = 1 .. Len(queue) /\ SinkCapacity \in Nat
  BY QueueFacts
<1>2. queue' \in Seq(Items) /\ Len(queue') = Len(queue) + 1
  BY <1>1
<1>3. queue'[Len(queue) + 1] = x /\ \A i \in 1 .. Len(queue) : queue'[i] = queue[i]
  BY <1>1
<1>4. DOMAIN queue' = 1 .. Len(queue) + 1
  BY <1>1, <1>2
<1>5. \A i \in 1 .. Len(queue) + 1 : i = Len(queue) + 1 \/ i \in 1 .. Len(queue)
  BY <1>1
<1>6. Len(queue) + 1 \in 1 .. Len(queue) + 1 /\ Len(queue) + 1 \notin 1 .. Len(queue) /\ Len(queue') <= SinkCapacity
  BY <1>1, <1>2
<1> QED
  BY <1>1, <1>2, <1>3, <1>4, <1>5, <1>6

LEMMA TailFacts ==
  ASSUME Base, queue # <<>>, queue' = Tail(queue)
  PROVE  /\ queue' \in Seq(Items) /\ Len(queue') <= SinkCapacity
         /\ \A i \in DOMAIN queue' : /\ i + 1 \in DOMAIN queue /\ queue'[i] = queue[i + 1]
                                     /\ i \in Nat /\ i + 1 # 1
         /\ 1 \in DOMAIN queue /\ Head(queue) = queue[1]
<1>1. queue \in Seq(Items) /\ Len(queue) \in Nat /\ DOMAIN queue = 1 .. Len(queue) /\ SinkCapacity \in Nat
      /\ Len(queue) <= SinkCapacity
  BY QueueFacts
<1>2. Len(queue) # 0
  BY <1>1
<1>3. /\ queue' \in Seq(Items) /\ Len(queue') = Len(queue) - 1
      /\ \A i \in 1 .. Len(queue) - 1 : queue'[i] = queue[i + 1]
  BY <1>1, <1>2
<1>4. DOMAIN queue' = 1 .. Len(queue) - 1
  BY <1>1, <1>2, <1>3
<1>5. \A i \in 1 .. Len(queue) - 1 : i + 1 \in 1 .. Len(queue) /\ i \in Nat /\ i + 1 # 1
  BY <1>1
<1> QED
  BY <1>1, <1>2, <1>3, <1>4, <1>5

LEMMA DropFacts ==
  ASSUME Base, NEW t, queue' = [i \in DOMAIN queue |-> IF queue[i] = t THEN None ELSE queue[i]]
  PROVE  /\ queue' \in Seq(Items) /\ Len(queue') <= SinkCapacity /\ DOMAIN queue' = DOMAIN queue
         /\ \A i \in DOMAIN queue : queue'[i] = IF queue[i] = t THEN None ELSE queue[i]
<1>1. queue \in Seq(Items) /\ Len(queue) \in Nat /\ DOMAIN queue = 1 .. Len(queue) /\ Len(queue) <= SinkCapacity
  BY QueueFacts
<1>2. \A i \in 1 .. Len(queue) : queue[i] \in Items
  BY <1>1
<1>3. queue' \in [1 .. Len(queue) -> Items]
  BY <1>1, <1>2 DEF Items
<1>4. queue' \in Seq(Items) /\ Len(queue') = Len(queue)
  BY <1>1, <1>3
<1> QED
  BY <1>1, <1>4

LEMMA BarriersStep ==
  ASSUME Base, QueueKinds
  PROVE  Barriers' /\ queue' \in Seq(Items) /\ Len(queue') <= SinkCapacity
<1>0. Barriers /\ queue \in Seq(Items) /\ Len(queue) <= SinkCapacity /\ DOMAIN queue = 1 .. Len(queue)
  BY QueueFacts DEF Base
<1>1. CASE UNCHANGED queue /\ \A u \in Threads : th[u].pc = "flushWait" => th'[u] = th[u]
  BY <1>0, <1>1 DEF Barriers
<1>2. ASSUME NEW t \in Threads, Flush(t) PROVE Barriers' /\ queue' \in Seq(Items) /\ Len(queue') <= SinkCapacity
  <2>1. queue' = Append(queue, t) /\ Len(queue) < SinkCapacity /\ t \in Items /\ th[t].pc = "flush"
    BY <1>2 DEF Flush, Items
  <2>2. th'[t].pc = "flushWait" /\ \A u \in Threads : u # t => th'[u] = th[u]
    BY <1>2, <2>1, DeletionMoves DEF Flush, Works, Becomes
  <2> DEFINE n == Len(queue) + 1
  <2>3. /\ queue'[n] = t /\ \A i \in DOMAIN queue : queue'[i] = queue[i]
        /\ \A i \in DOMAIN queue' : i = n \/ i \in DOMAIN queue
        /\ queue' \in Seq(Items) /\ Len(queue') <= SinkCapacity
    BY <1>0, <2>1, AppendFacts
  <2> HIDE DEF n
  <2>4. \A i \in DOMAIN queue : queue[i] # t
    BY <1>0, <2>1 DEF Barriers
  <2> QED
    BY <1>0, <2>2, <2>3, <2>4 DEF Barriers
<1>3. ASSUME NEW t \in Threads, FlushFails(t) PROVE Barriers' /\ queue' \in Seq(Items) /\ Len(queue') <= SinkCapacity
  <2>1. queue' = [i \in DOMAIN queue |-> IF queue[i] = t THEN None ELSE queue[i]]
    BY <1>3 DEF FlushFails
  <2>2. \A u \in Threads : u # t => th'[u] = th[u]
    BY <1>3, DeletionMoves DEF FlushFails, Works, Becomes
  <2>3. \A i \in DOMAIN queue' : /\ i \in DOMAIN queue
                                 /\ queue'[i] \in Threads => queue'[i] = queue[i] /\ queue'[i] # t
    BY <2>1, DropFacts, RolesDisjoint
  <2> QED
    BY <1>0, <2>1, <2>2, <2>3, DropFacts DEF Barriers
<1>4. ASSUME NEW w \in Workers, WorkerEnqueue(w) PROVE Barriers' /\ queue' \in Seq(Items) /\ Len(queue') <= SinkCapacity
  <2>1. UNCHANGED th
    BY <1>4 DEF WorkerEnqueue
  <2>2. CASE UNCHANGED queue
    BY <1>0, <2>1, <2>2 DEF Barriers
  <2>3. CASE queue' = Append(queue, wk[w].id) /\ Len(queue) < SinkCapacity
    <3>1. wk[w].id \in Sessions /\ wk[w].id \in Items /\ wk[w].id \notin Threads
      BY <1>4, SessionsNat DEF WorkerEnqueue, Base, MapInv, Live, Items
    <3> DEFINE n == Len(queue) + 1
    <3>3. /\ queue'[n] = wk[w].id /\ \A i \in DOMAIN queue : queue'[i] = queue[i]
          /\ \A i \in DOMAIN queue' : i = n \/ i \in DOMAIN queue
          /\ queue' \in Seq(Items) /\ Len(queue') <= SinkCapacity
      BY <1>0, <2>3, <3>1, AppendFacts
    <3> HIDE DEF n
    <3> QED
      BY <1>0, <2>1, <3>1, <3>3 DEF Barriers
  <2> QED
    BY <1>4, <2>2, <2>3 DEF WorkerEnqueue
<1>5. CASE SinkStep
  <2>1. /\ queue # <<>> /\ queue' = Tail(queue)
    BY <1>5 DEF SinkStep
  <2>2. /\ \A i \in DOMAIN queue' : /\ i + 1 \in DOMAIN queue /\ queue'[i] = queue[i + 1] /\ i \in Nat /\ i + 1 # 1
        /\ 1 \in DOMAIN queue /\ Head(queue) = queue[1]
        /\ queue' \in Seq(Items) /\ Len(queue') <= SinkCapacity
    BY <2>1, TailFacts
  <2>3. \A u \in Threads : u # Head(queue) => th'[u] = th[u]
    <3>1. CASE UNCHANGED th
      BY <3>1
    <3>2. CASE Head(queue) \in Threads /\ (Goto(Head(queue), "chDelete") \/ Finish(Head(queue), "err"))
      <4>1. th \in [Threads -> ThreadType]
        BY ThreadTypes DEF Base
      <4> QED
        BY <3>2, <4>1 DEF Goto, Finish
    <3> QED
      BY <1>5, <3>1, <3>2 DEF SinkStep
  <2>4. ASSUME NEW i \in DOMAIN queue', queue'[i] \in Threads
        PROVE  /\ th'[queue'[i]].pc = "flushWait"
               /\ \A j \in DOMAIN queue' : queue'[j] = queue'[i] => j = i
    <3>1. i + 1 \in DOMAIN queue /\ queue'[i] = queue[i + 1] /\ i + 1 # 1 /\ i \in Nat
      BY <2>2
    <3>2. /\ th[queue[i + 1]].pc = "flushWait"
          /\ \A j \in DOMAIN queue : queue[j] = queue[i + 1] => j = i + 1
      BY <1>0, <2>4, <3>1 DEF Barriers
    <3>3. queue[i + 1] # Head(queue)
      BY <2>2, <3>1, <3>2
    <3>4. ASSUME NEW j \in DOMAIN queue', queue'[j] = queue'[i] PROVE j = i
      <4>1. j + 1 \in DOMAIN queue /\ queue'[j] = queue[j + 1] /\ j \in Nat
        BY <2>2
      <4>2. j + 1 = i + 1
        BY <3>1, <3>2, <3>4, <4>1
      <4> QED
        BY <3>1, <4>1, <4>2
    <3> QED
      BY <2>3, <2>4, <3>1, <3>2, <3>3, <3>4
  <2> QED
    BY <2>2, <2>4 DEF Barriers
<1>6. CASE Restart
  <2>1. queue' = <<>> /\ Len(queue') = 0 /\ DOMAIN queue' = {} /\ queue' \in Seq(Items)
    BY <1>6 DEF Restart
  <2>2. 0 <= SinkCapacity
    BY QueueFacts
  <2> QED
    BY <2>1, <2>2 DEF Barriers
<1> QED
  BY <1>1, <1>2, <1>3, <1>4, <1>5, <1>6 DEF QueueKinds

-----------------------------------------------------------------------------
(* Types are kept.                                                         *)

Statuses == {"unborn", "running", "stopped", "finished", "deleted"}

\* What happens to the rows and to the samples stored in ClickHouse.
RowKinds ==
  \/ UNCHANGED row
  \/ \E s \in Sessions, v \in Statuses : row' = [row EXCEPT ![s] = v]

LEMMA NextRows ==
  ASSUME Base, Next
  PROVE  RowKinds /\ chRows' \subseteq Sessions
<1>0. chRows \subseteq Sessions /\ {"running", "stopped", "finished", "deleted"} \subseteq Statuses
  BY DEF Base, TypeOK, Statuses
<1>1. ASSUME NEW t \in Callers,
             \/ \E s \in Sessions : Create(t, s) \/ Reenable(t, s) \/ Stop(t, s) \/ Delete(t, s)
             \/ \E S \in (SUBSET Sessions) \ {{}} : DeleteSessions(t, S)
      PROVE  RowKinds /\ chRows' \subseteq Sessions
  BY <1>0, <1>1 DEF RowKinds, Create, Reenable, Stop, Delete, DeleteSessions, storeVars
<1>2. ASSUME NEW t \in Threads, CleanupStop(t) \/ CleanupDelete(t) \/ StopRow(t) \/ DeleteRow(t)
      PROVE  RowKinds /\ chRows' \subseteq Sessions
  <2>1. th[t].cur \in Sessions
    BY <1>2, CurIsSession DEF CleanupStop, CleanupDelete, StopRow, DeleteRow
  <2>2. UNCHANGED chRows /\ (row' = row \/ row' = [row EXCEPT ![th[t].cur] = "stopped"] \/ row' = [row EXCEPT ![th[t].cur] = "deleted"])
    BY <1>2 DEF CleanupStop, CleanupDelete, StopRow, DeleteRow
  <2> QED
    BY <1>0, <2>1, <2>2 DEF RowKinds
<1>3. ASSUME NEW t \in Threads,
             \/ Acquire(t) \/ GiveUpLock(t) \/ Release(t)
             \/ StartCurrent(t) \/ Publish(t) \/ StopLook(t) \/ StopWait(t) \/ StopRead(t)
             \/ RestorePrepared(t) \/ Schedule(t) \/ RecoverWait(t)
             \/ DeleteRead(t) \/ Flush(t) \/ FlushFails(t) \/ DeleteSamples(t)
      PROVE  UNCHANGED row /\ chRows' \subseteq Sessions
  BY <1>0, <1>3 DEF Acquire, GiveUpLock, Release, StartCurrent, Publish, StopLook, StopWait, StopRead,
       RestorePrepared, Schedule, RecoverWait, DeleteRead, Flush, FlushFails, DeleteSamples, storeVars
<1>4. ASSUME NEW w \in Workers, WorkerStep(w) PROVE RowKinds /\ chRows' \subseteq Sessions
  <2>1. CASE WorkerFinish(w)
    <3>1. wk[w].id \in Sessions
      BY <2>1 DEF WorkerFinish, Base, MapInv, Live
    <3> QED
      BY <1>0, <2>1, <3>1 DEF WorkerFinish, RowKinds
  <2>2. CASE ~WorkerFinish(w)
    BY <1>0, <1>4, <2>2 DEF WorkerStep, WorkerTick, WorkerEnqueue, WorkerCap, WorkerExit, storeVars, RowKinds
  <2> QED
    BY <2>1, <2>2
<1>5. CASE SinkStep
  BY <1>0, <1>5 DEF SinkStep, RowKinds
<1>6. CASE Resume \/ CancelWorkers \/ Wait \/ WaitReturns \/ Restart
  BY <1>0, <1>6 DEF Resume, CancelWorkers, Wait, WaitReturns, Restart, storeVars, RowKinds
<1> QED
  BY <1>1, <1>2, <1>3, <1>4, <1>5, <1>6 DEF Next, ThreadStep, RowKinds

LEMMA ThreadsTyped ==
  ASSUME Base, Kinds
  PROVE  th' \in [Threads -> ThreadType]
<1>0. th \in [Threads -> ThreadType]
  BY ThreadTypes DEF Base
<1>1. ASSUME NEW t \in Threads, WorkStep(t) PROVE th' \in [Threads -> ThreadType]
  BY <1>1, WorkFrame DEF WorkStep
<1>2. ASSUME NEW t \in Threads, EdgeStep(t) PROVE th' \in [Threads -> ThreadType]
  BY <1>2, EdgeFrame
<1>3. CASE LifeStep
  BY <1>0, <1>3, IdleTyped DEF LifeStep, CancelWorkers, Wait, WaitReturns, Restart
<1> QED
  BY <1>0, <1>1, <1>2, <1>3 DEF Kinds, QuietStep, BeginStep, Begins

LEMMA MapTyped ==
  ASSUME Base, Kinds
  PROVE  workers' \in [Sessions -> Workers \cup {None}] /\ wk' \in [Workers -> WorkerType]
<1>0. workers \in [Sessions -> Workers \cup {None}] /\ wk \in [Workers -> WorkerType]
  BY DEF Base, TypeOK, WorkerType
<1>1. ASSUME NEW t \in Threads, WorkStep(t)
      PROVE  workers' \in [Sessions -> Workers \cup {None}] /\ wk' \in [Workers -> WorkerType]
  <2>1. th[t].cur \in Sessions
    BY <1>1, WorkFrame, WorkTarget DEF WorkStep
  <2> QED
    BY <1>1, <2>1, GrowsMap DEF WorkStep, Shrinks
<1>2. ASSUME NEW t \in Threads, EdgeStep(t) PROVE UNCHANGED <<workers, wk>>
  BY <1>2, EdgeFrame
<1>3. CASE LifeStep
  BY <1>0, <1>3, NoWorkerTyped DEF LifeStep, CancelWorkers, Wait, WaitReturns, Restart, Resume
<1> QED
  BY <1>0, <1>1, <1>2, <1>3 DEF Kinds, QuietStep, BeginStep, Shrinks

LEMMA LifeTyped ==
  ASSUME Base, Kinds
  PROVE  /\ operations' \in [Sessions -> Threads \cup {None}]
         /\ closing' \in BOOLEAN /\ rootDone' \in BOOLEAN
         /\ phase' \in {"boot", "serving", "draining", "stopped"} /\ restarts' \in 0 .. MaxRestarts
<1>0. /\ operations \in [Sessions -> Threads \cup {None}] /\ closing \in BOOLEAN /\ rootDone \in BOOLEAN
      /\ phase \in {"boot", "serving", "draining", "stopped"} /\ restarts \in 0 .. MaxRestarts /\ MaxRestarts \in Nat
  BY SupervisorAssumption DEF Base, TypeOK
<1>1. ASSUME NEW t \in Threads, EdgeStep(t)
      PROVE  /\ operations' \in [Sessions -> Threads \cup {None}]
             /\ UNCHANGED <<closing, rootDone, restarts>>
             /\ phase' \in {"boot", "serving", "draining", "stopped"}
  <2>1. UNCHANGED <<closing, rootDone, restarts>>
    BY <1>1, EdgeFrame
  <2>2. CASE Release(t)
    BY <1>0, <2>1, <2>2, ReleaseEffect DEF Release
  <2>3. CASE Acquire(t)
    BY <1>0, <2>1, <2>3, AcquireEffect DEF Acquire, lifeVars
  <2>4. CASE ~Release(t) /\ ~Acquire(t)
    BY <1>0, <1>1, <2>1, <2>4 DEF EdgeStep, GiveUpLock, CleanupStop, CleanupDelete, Schedule, RecoverWait, lifeVars
  <2> QED
    BY <2>2, <2>3, <2>4
<1>2. ASSUME UNCHANGED <<operations, lifeVars>>
      PROVE  /\ operations' \in [Sessions -> Threads \cup {None}]
             /\ UNCHANGED <<closing, rootDone, restarts>>
             /\ phase' \in {"boot", "serving", "draining", "stopped"}
  BY <1>0, <1>2 DEF lifeVars
<1>3. CASE Restart
  <2>1. restarts' = restarts + 1 /\ restarts < MaxRestarts
    BY <1>3 DEF Restart
  <2>2. restarts' \in 0 .. MaxRestarts
    BY <1>0, <2>1
  <2> QED
    BY <1>3, <2>2 DEF Restart
<1>4. CASE CancelWorkers \/ Wait \/ WaitReturns \/ Resume
  BY <1>0, <1>4 DEF CancelWorkers, Wait, WaitReturns, Resume
<1> QED
  BY <1>0, <1>1, <1>2, <1>3, <1>4 DEF Kinds, WorkStep, QuietStep, BeginStep, LifeStep

LEMMA TypeStep ==
  ASSUME Base, Next
  PROVE  TypeOK'
<1>1. Kinds
  BY NextKinds
<1>2. row' \in [Sessions -> Statuses] /\ chRows' \subseteq Sessions
  <2>1. row \in [Sessions -> Statuses]
    BY DEF Base, TypeOK, Statuses
  <2> QED
    BY <2>1, NextRows DEF RowKinds
<1>3. queue' \in Seq(Items) /\ Len(queue') <= SinkCapacity
  BY NextQueue, BarriersStep
<1> QED
  BY <1>1, <1>2, <1>3, ThreadsTyped, MapTyped, LifeTyped DEF TypeOK, Statuses, Items, ThreadType, WorkerType

-----------------------------------------------------------------------------
(* Base is an invariant.                                                   *)

LEMMA InitBase == Init => Base
<1> SUFFICES ASSUME Init PROVE Base
  OBVIOUS
<1>1. /\ \A t \in Threads : th[t] = IdleThread
      /\ \A s \in Sessions : operations[s] = None /\ workers[s] = None
      /\ \A w \in Workers : wk[w] = NoWorker
      /\ phase = "boot" /\ closing = FALSE /\ rootDone = FALSE
  BY DEF Init
<1>2. TypeOK
  <2>1. th \in [Threads -> ThreadType] /\ wk \in [Workers -> WorkerType]
    BY IdleTyped, NoWorkerTyped DEF Init
  <2>2. queue \in Seq(Sessions \cup Threads \cup {None}) /\ Len(queue) = 0 /\ 0 <= SinkCapacity /\ restarts \in 0 .. MaxRestarts
    BY SupervisorAssumption DEF Init
  <2>3. row \in [Sessions -> {"unborn", "running", "stopped", "finished", "deleted"}]
    BY SupervisorAssumption DEF Init
  <2> QED
    BY <2>1, <2>2, <2>3 DEF Init, TypeOK, ThreadType, WorkerType
<1>3. Placed
  BY <1>1, IdleFits DEF Placed, Single
<1>4. LockPlaces
  <2>1. \A t \in Threads : Held(t) = {} /\ th[t].pc = "idle"
    BY <1>1, IdleFits, RolesDisjoint DEF Held
  <2> QED
    BY <2>1, PlacesApart DEF LockPlaces
<1>5. Barriers
  <2>1. DOMAIN queue = {}
    BY DEF Init
  <2> QED
    BY <2>1 DEF Barriers
<1>6. MapInv
  BY <1>1, NoWorkerTyped DEF MapInv, Live
<1>7. Life
  BY <1>1, IdleFits, NoWorkerTyped, RolesDisjoint DEF Life
<1>8. WaitDrains
  BY <1>1 DEF WaitDrains
<1>9. Pointers
  BY <1>1, IdleFits, RolesDisjoint DEF Pointers
<1> QED
  BY <1>2, <1>3, <1>4, <1>5, <1>6, <1>7, <1>8, <1>9 DEF Base

LEMMA NextBase == Base /\ Next => Base'
<1> SUFFICES ASSUME Base, Next PROVE Base'
  OBVIOUS
<1>1. Kinds /\ QueueKinds
  BY NextKinds, NextQueue
<1> QED
  BY <1>1, TypeStep, PlacedStep, LocksStep, BarriersStep, MapStep, LifeStepKept, WaitDrainsStep, PointersStep DEF Base

LEMMA StutterBase == Base /\ UNCHANGED vars => Base'
<1> SUFFICES ASSUME Base, UNCHANGED vars PROVE Base'
  OBVIOUS
<1>1. /\ UNCHANGED <<th, operations, workers, wk, queue>> /\ UNCHANGED <<closing, rootDone, phase, restarts, row, chRows>>
  BY DEF vars
<1>2. Kinds
  BY <1>1, UnchangedShrinks DEF Kinds, QuietStep, lifeVars
<1>3. QueueKinds
  BY <1>1 DEF QueueKinds
<1>4. TypeOK'
  BY <1>1 DEF Base, TypeOK
<1> QED
  BY <1>2, <1>3, <1>4, PlacedStep, LocksStep, BarriersStep, MapStep, LifeStepKept, WaitDrainsStep, PointersStep DEF Base

\* The inductive invariant: who holds which lock at which place, that the map
\* and the goroutines agree, and whom a stop remembers.
THEOREM BaseHolds == Spec => []Base
<1>1. Base /\ [Next]_vars => Base'
  BY NextBase, StutterBase
<1> QED
  BY InitBase, <1>1, PTL DEF Spec

\* No session ever has two workers, and no goroutine runs that Stop does not
\* find in the map.
THEOREM OwnershipHolds == Spec => []Ownership
<1>1. Base => Ownership
  BY DEF Base, MapInv, Ownership, LiveWorkersAreOwned
<1> QED
  BY <1>1, BaseHolds, PTL

\* When Wait returns, no goroutine of the supervisor is left and none comes.
THEOREM WaitDrainsHolds == Spec => []WaitDrains
<1>1. Base => WaitDrains
  BY DEF Base
<1> QED
  BY <1>1, BaseHolds, PTL

\* Waits for locks climb: the holder of a lock that also waits for one waits
\* for a higher one, so there is no cycle of waiting operations of any length.
WaitsClimb ==
  \A t, u \in Threads :
    th[t].pc = "lock" /\ th[u].pc = "lock" /\ operations[th[t].cur] = u => th[t].cur < th[u].cur

LEMMA BaseClimbs == Base => WaitsClimb
<1> SUFFICES ASSUME Base, NEW t \in Threads, NEW u \in Threads, th[t].pc = "lock", th[u].pc = "lock",
                    operations[th[t].cur] = u
             PROVE  th[t].cur < th[u].cur
  BY DEF WaitsClimb
<1>1. th[t].cur \in Sessions
  BY CurIsSession
<1>2. Held(u) = {s \in Targets(u) : s < th[u].cur}
  BY DEF Base, LockPlaces
<1>3. th[t].cur \in Held(u)
  BY <1>1 DEF Held
<1> QED
  BY <1>2, <1>3

\* withOperations takes its locks in one order: waiting never goes down.
THEOREM WaitsClimbHolds == Spec => []WaitsClimb
BY BaseClimbs, BaseHolds, PTL

\* No two operations wait for each other's locks.
THEOREM NoLockCycleHolds == Spec => []NoLockCycle
<1>1. ASSUME Base PROVE NoLockCycle
  <2>1. ASSUME NEW t \in Threads, NEW u \in Threads, th[t].pc = "lock", th[u].pc = "lock",
               operations[th[t].cur] = u, operations[th[u].cur] = t
        PROVE  FALSE
    <3>1. th[t].cur \in Nat /\ th[u].cur \in Nat
      BY <1>1, <2>1, CurIsSession, SessionsNat
    <3>2. th[t].cur < th[u].cur /\ th[u].cur < th[t].cur
      BY <1>1, <2>1, BaseClimbs DEF WaitsClimb
    <3> QED
      BY <3>1, <3>2
  <2> QED
    BY <2>1 DEF NoLockCycle
<1> QED
  BY <1>1, BaseHolds, PTL
=============================================================================
