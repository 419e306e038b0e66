----------------------------- MODULE LeafProofs -----------------------------
(***************************************************************************)
(* The parts that serve one request and share nothing with the others, for *)
(* every width of an integer, every default and limit, every request body, *)
(* every horizon of the clock, every length of an export, every set of     *)
(* blocklist zones, every set of variants and addresses of a report, every *)
(* page size and number of samples, and every set of axes of a run.        *)
(***************************************************************************)
EXTENDS Requests, Dialer, Export, Reputation, PoolReport, SampleQueries, Expansion,
        FiniteSetTheorems, SequenceTheorems, WellFoundedInduction, TLAPS

-----------------------------------------------------------------------------
(* What one call of DialContext leaves behind: the race between the last   *)
(* step of a successful dial and a cancellation that closes the transport  *)
(* from a goroutine of its own.                                            *)

\* One dial on its own, with its caller's context and the clock.
DialSpec == DialInit /\ [][Dialing]_dialVars

\* Where DialContext may stand before it has a transport, and after it.
BeforeTransport == {"fromURL", "socks", "dial"}
BeforeCallback  == {"setDeadline", "afterFunc"}
UnderCallback   == {"handshake", "write", "read", "status", "ctxErr", "stop"}
Failing         == {"deferStop", "deferClose"}

(***************************************************************************)
(* The inductive invariant.  DialLeavesConnection speaks of the call that  *)
(* has returned; what makes it hold is how the AfterFunc and the transport *)
(* are related on the way: until the function is started, or stopped, the  *)
(* transport is open, and the dial goes on to clear the deadline only with *)
(* a function that is stopped and therefore never runs.                    *)
(***************************************************************************)
DialPlaces ==
  /\ dial \in BeforeTransport \cup BeforeCallback \cup UnderCallback \cup Failing \cup {"clear", "done"}
  /\ dial # "done" => dialed = Nil

BeforeTransportInv ==
  dial \in BeforeTransport => transport = "none" /\ deadline = Nil /\ callback = "none"

CallbackInv ==
  /\ dial \in BeforeCallback => transport = "open" /\ callback = "none"
  /\ dial \in UnderCallback  => callback \in {"armed", "started", "ran"}
  /\ dial \in UnderCallback /\ callback \in {"armed", "started"} => transport = "open"
  /\ dial = "clear" => callback = "stopped" /\ transport = "open"

ReturnedInv ==
  /\ dialed = "conn"  => /\ dial = "done" /\ transport = "open" /\ deadline = Nil
                         /\ callback \in {"none", "stopped"}
  /\ dialed = "error" => dial = "done" /\ transport # "open"

DialInv == DialPlaces /\ BeforeTransportInv /\ CallbackInv /\ ReturnedInv

-----------------------------------------------------------------------------
LEMMA DialInitEstablishes == DialInit => DialInv
BY DialerAssumption
DEF DialInit, DialFresh, DialInv, DialPlaces, BeforeTransportInv, CallbackInv, ReturnedInv,
    BeforeTransport, BeforeCallback, UnderCallback, Failing

\* The steps of DialContext itself.
LEMMA DialStepKeeps ==
  ASSUME DialInv,
         FromURL \/ DialSocks \/ DialTCP \/ DialTCPFails \/ SetDeadline \/ SetDeadlineFails
           \/ AfterFunc \/ CheckStatus \/ CheckContext \/ StopCancellation \/ ClearDeadline
           \/ ClearDeadlineFails \/ DeferredStop \/ DeferredClose
  PROVE  DialInv'
<1> USE DialerAssumption
    DEF DialInv, DialPlaces, BeforeTransportInv, CallbackInv, ReturnedInv,
        BeforeTransport, BeforeCallback, UnderCallback, Failing
<1>1. CASE FromURL BY <1>1 DEF FromURL
<1>2. CASE DialSocks BY <1>2 DEF DialSocks
<1>3. CASE DialTCP BY <1>3 DEF DialTCP
<1>4. CASE DialTCPFails BY <1>4 DEF DialTCPFails
<1>5. CASE SetDeadline BY <1>5 DEF SetDeadline
<1>6. CASE SetDeadlineFails BY <1>6 DEF SetDeadlineFails, FailTo
<1>7. CASE AfterFunc BY <1>7 DEF AfterFunc
<1>8. CASE CheckStatus BY <1>8 DEF CheckStatus, GoOn, FailTo
<1>9. CASE CheckContext BY <1>9 DEF CheckContext, GoOn, FailTo
<1>10. CASE StopCancellation BY <1>10 DEF StopCancellation, FailTo
<1>11. CASE ClearDeadline BY <1>11 DEF ClearDeadline
<1>12. CASE ClearDeadlineFails BY <1>12 DEF ClearDeadlineFails, FailTo
<1>13. CASE DeferredStop BY <1>13 DEF DeferredStop
<1>14. CASE DeferredClose BY <1>14 DEF DeferredClose
<1> QED BY <1>1, <1>2, <1>3, <1>4, <1>5, <1>6, <1>7, <1>8, <1>9, <1>10, <1>11, <1>12, <1>13, <1>14

\* The exchange with the proxy, which may answer, fail or be interrupted.
LEMMA OperationKeeps ==
  ASSUME DialInv, OperationSucceeds \/ OperationFails \/ OperationInterrupted
  PROVE  DialInv'
<1> USE DEF DialInv, DialPlaces, BeforeTransportInv, CallbackInv, ReturnedInv,
            BeforeTransport, BeforeCallback, UnderCallback, Failing
<1>1. dial \in {"handshake", "write", "read"}
  BY DEF OperationSucceeds, OperationFails, OperationInterrupted, AfterOperation
<1>2. CASE OperationSucceeds
  <2>1. AfterOperation[dial] \in {"write", "read", "status"} BY <1>1 DEF AfterOperation
  <2> QED BY <1>1, <1>2, <2>1 DEF OperationSucceeds, GoOn
<1>3. CASE OperationFails \/ OperationInterrupted
  BY <1>1, <1>3 DEF OperationFails, OperationInterrupted, FailTo
<1> QED BY <1>2, <1>3

\* What comes from outside: the cancellation, the clock and the goroutine of AfterFunc.
LEMMA ContextKeeps ==
  ASSUME DialInv, Cancel \/ TimePasses \/ CancellationCloses
  PROVE  DialInv'
<1> USE DialerAssumption
    DEF DialInv, DialPlaces, BeforeTransportInv, CallbackInv, ReturnedInv,
        BeforeTransport, BeforeCallback, UnderCallback, Failing
<1>1. CASE Cancel BY <1>1 DEF Cancel, Done
<1>2. CASE TimePasses
  <2>1. callback' \in {callback, IF callback = "armed" THEN "started" ELSE callback}
    BY <1>2 DEF TimePasses, Done
  <2> QED BY <1>2, <2>1 DEF TimePasses
<1>3. CASE CancellationCloses BY <1>3 DEF CancellationCloses
<1> QED BY <1>1, <1>2, <1>3

LEMMA DialingKeeps == DialInv /\ [Dialing]_dialVars => DialInv'
<1> SUFFICES ASSUME DialInv, [Dialing]_dialVars PROVE DialInv' OBVIOUS
<1>1. CASE UNCHANGED dialVars
  BY <1>1 DEF dialVars, DialInv, DialPlaces, BeforeTransportInv, CallbackInv, ReturnedInv
<1>2. CASE Dialing
  BY <1>2, DialStepKeeps, OperationKeeps, ContextKeeps DEF Dialing, DialAdvances
<1> QED BY <1>1, <1>2

\* A connection that DialContext (proxydial/connect.go) handed out is
\* open, without a deadline and out of reach of the AfterFunc for good, and a
\* failed dial left no connection open, however the cancellation, the deadline
\* and the proxy's answers are interleaved.
THEOREM DialLeavesConnectionHolds == DialSpec => []DialLeavesConnection
<1>1. DialInv => DialLeavesConnection
  BY DEF DialInv, ReturnedInv, DialLeavesConnection
<1> QED BY <1>1, DialInitEstablishes, DialingKeeps, PTL DEF DialSpec

-----------------------------------------------------------------------------
(* What becomes of the integers of a create request: through a duration of *)
(* int64 nanoseconds and a column of int32, and back.                      *)

RequestSpec == RequestInit /\ [][Requesting]_requestVars

\* What the assumptions say of the limits, one by one.
LEMMA RequestLimits ==
  /\ MaxPersisted \in Nat /\ MaxPersisted > 0 /\ Second \in Nat /\ Second > 0
  /\ MaxProbes \in Nat /\ MaxProbes > 0 /\ MinDial \in Nat /\ MinDial > 0
  /\ MaxProbes <= MaxPersisted
<1>1. {MaxPersisted, Second, MaxProbes, MinDial} \subseteq Nat \ {0}
  BY RequestsAssumption
<1>2. MaxProbes <= MaxPersisted
  BY RequestsAssumption
<1> QED
  BY <1>1, <1>2

LEMMA ColumnFits == MaxPersisted * Second <= MaxInt
  BY RequestsAssumption

LEMMA Defaults ==
  /\ DefaultDial \in Int /\ DefaultProbes["sticky"] \in Int /\ DefaultProbes["pool"] \in Int
  /\ Nil # "" /\ Nil # "DE"
<1>1. {DefaultDial, DefaultProbes["sticky"], DefaultProbes["pool"]} \subseteq Int /\ Nil \notin {"", "DE"}
  BY RequestsAssumption
<1> QED
  BY <1>1

LEMMA BodyRanges ==
  ASSUME NEW b \in Bodies
  PROVE  /\ b.cadence \in Int
         /\ b.probes \in Int \cup {Nil} /\ b.dial \in Int \cup {Nil}
         /\ b.maxSamples \in Int \cup {Nil} /\ b.maxDuration \in Int \cup {Nil}
<1>1. /\ b.cadence \in MinInt .. MaxInt
      /\ {b.probes, b.dial, b.maxSamples, b.maxDuration} \subseteq (MinInt .. MaxInt) \cup {Nil}
  BY RequestsAssumption
<1>2. b.probes \in (MinInt .. MaxInt) \cup {Nil} /\ b.dial \in (MinInt .. MaxInt) \cup {Nil}
  BY <1>1
<1>3. b.maxSamples \in (MinInt .. MaxInt) \cup {Nil} /\ b.maxDuration \in (MinInt .. MaxInt) \cup {Nil}
  BY <1>1
<1> QED
  BY <1>1, <1>2, <1>3, GoIntAssumption

\* The arithmetic of int and int32 changes nothing that is in range.
LEMMA ModOfSmall ==
  ASSUME NEW x \in Nat, NEW m \in Nat, x < m
  PROVE  x % m = x
OBVIOUS

LEMMA WrapIsIdentity ==
  ASSUME NEW n \in MinInt .. MaxInt
  PROVE  Wrap(n) = n
<1>1. n - MinInt \in Nat /\ MaxInt - MinInt + 1 \in Nat /\ n - MinInt < MaxInt - MinInt + 1
  BY GoIntAssumption
<1>2. (n - MinInt) % (MaxInt - MinInt + 1) = n - MinInt
  BY <1>1, ModOfSmall
<1> QED
  BY <1>2, GoIntAssumption DEF Wrap

LEMMA Int32IsIdentity ==
  ASSUME NEW n \in 0 .. MaxPersisted
  PROVE  Int32(n) = n
<1>1. /\ n + MaxPersisted + 1 \in Nat /\ 2 * (MaxPersisted + 1) \in Nat
      /\ n + MaxPersisted + 1 < 2 * (MaxPersisted + 1)
  BY RequestLimits
<1>2. (n + MaxPersisted + 1) % (2 * (MaxPersisted + 1)) = n + MaxPersisted + 1
  BY <1>1, ModOfSmall
<1> QED
  BY <1>2, RequestLimits DEF Int32

LEMMA ProductGrows ==
  ASSUME NEW x \in Nat, NEW y \in Nat, NEW m \in Nat, x <= y
  PROVE  x * m <= y * m /\ x * m \in Nat
OBVIOUS

LEMMA DivisionUndoes ==
  ASSUME NEW x \in Nat, NEW m \in Nat \ {0}
  PROVE  (x * m) \div m = x
OBVIOUS

\* A number of seconds that fits the column is a duration that fits an int64,
\* and the duration counts that many seconds.
LEMMA SecondsSurvive ==
  ASSUME NEW n \in 1 .. MaxPersisted
  PROVE  /\ Wrap(n * Second) = n * Second /\ Seconds(n * Second) = n
         /\ Seconds(Wrap(n * Second)) = n /\ Int32(n) = n
<1>1. n \in Nat /\ Second \in Nat \ {0} /\ MaxPersisted \in Nat /\ n <= MaxPersisted
  BY RequestLimits
<1>2. n * Second \in Nat /\ n * Second <= MaxPersisted * Second
  BY <1>1, ProductGrows
<1>3. n * Second \in MinInt .. MaxInt
  BY <1>1, <1>2, ColumnFits, GoIntAssumption
<1>4. Wrap(n * Second) = n * Second
  BY <1>3, WrapIsIdentity
<1>5. (n * Second) \div Second = n
  BY <1>1, DivisionUndoes
<1>6. Seconds(n * Second) = n
  BY <1>2, <1>5 DEF Seconds
<1>7. Int32(n) = n
  BY <1>1, Int32IsIdentity
<1> QED
  BY <1>4, <1>6, <1>7

\* The three forms of an accepted request: the session the handler builds,
\* the row of the table, and the answer.
Duration(n) == IF n = Nil THEN Nil ELSE n * Second
SessionOf(b) ==
  [name |-> TrimSpace(b.name), mode |-> b.mode, cadence |-> b.cadence * Second, probes |-> Probes(b),
   dial |-> DialTimeout(b), maxSamples |-> b.maxSamples, maxDuration |-> Duration(b.maxDuration),
   country |-> NormalizedTargetCountry(b.country)]
RowOf(b)    == InsertSessionParams(SessionOf(b))
AnswerOf(b) == APIMapSession(StoreMapSession(RowOf(b)))
Columns     == {"name", "mode", "cadence", "probes", "dial", "maxSamples", "maxDuration", "country"}

\* The ranges that the checks of the handler leave.
LEMMA AcceptedRanges ==
  ASSUME NEW b \in Bodies, ValidCreate(b)
  PROVE  /\ b.cadence \in 1 .. MaxPersisted
         /\ Probes(b) \in 1 .. MaxProbes /\ Probes(b) \in 1 .. MaxPersisted
         /\ DialTimeout(b) \in 1 .. MaxPersisted
         /\ b.maxSamples = Nil \/ b.maxSamples \in 1 .. MaxPersisted
         /\ b.maxDuration = Nil \/ b.maxDuration \in 1 .. MaxPersisted
<1>1. /\ b.cadence \in Int
      /\ b.probes \in Int \cup {Nil} /\ b.dial \in Int \cup {Nil}
      /\ b.maxSamples \in Int \cup {Nil} /\ b.maxDuration \in Int \cup {Nil}
      /\ MaxPersisted \in Nat /\ MaxProbes \in Nat /\ MaxProbes <= MaxPersisted /\ MinDial \in Nat /\ MinDial > 0
  BY RequestLimits, BodyRanges
<1>2. Probes(b) \in Int
  BY <1>1, Defaults DEF Probes, ValidCreate
<1>3. DialTimeout(b) \in Int
  BY <1>1, Defaults DEF DialTimeout
<1>4. Probes(b) >= 1 /\ Probes(b) <= MaxProbes /\ DialTimeout(b) >= MinDial /\ DialTimeout(b) <= MaxPersisted
  BY DEF ValidCreate
<1>5. /\ b.cadence >= 1 /\ b.cadence <= MaxPersisted
      /\ b.maxSamples = Nil \/ (b.maxSamples >= 1 /\ b.maxSamples <= MaxPersisted)
      /\ b.maxDuration = Nil \/ (b.maxDuration >= 1 /\ b.maxDuration <= MaxPersisted)
  BY DEF ValidCreate, ValidPersistedInteger, ValidOptionalPersistedInteger
<1> QED
  BY <1>1, <1>2, <1>3, <1>4, <1>5

LEMMA HandlerBuilds ==
  ASSUME NEW b \in Bodies, ValidCreate(b)
  PROVE  [name |-> TrimSpace(b.name), mode |-> b.mode,
          cadence |-> Wrap(b.cadence * Second), probes |-> Probes(b),
          dial |-> DialTimeout(b), maxSamples |-> b.maxSamples,
          maxDuration |-> SecondsPointer(b.maxDuration),
          country |-> NormalizedTargetCountry(b.country)] = SessionOf(b)
<1>1. Wrap(b.cadence * Second) = b.cadence * Second
  BY AcceptedRanges, SecondsSurvive
<1>2. SecondsPointer(b.maxDuration) = Duration(b.maxDuration)
  BY AcceptedRanges, SecondsSurvive DEF SecondsPointer, Duration
<1> QED
  BY <1>1, <1>2 DEF SessionOf

\* The columns hold what the session says, and the CHECKs of the table agree.
LEMMA RowStored ==
  ASSUME NEW b \in Bodies, ValidCreate(b)
  PROVE  /\ DOMAIN RowOf(b) = Columns /\ ChecksHold(RowOf(b))
         /\ RowOf(b).cadence = b.cadence /\ RowOf(b).probes = Probes(b) /\ RowOf(b).dial = DialTimeout(b)
         /\ RowOf(b).maxSamples = b.maxSamples /\ RowOf(b).maxDuration = b.maxDuration
         /\ RowOf(b).country = NormalizedTargetCountry(b.country)
<1> DEFINE s == SessionOf(b)
<1>1. /\ b.cadence \in 1 .. MaxPersisted
      /\ Probes(b) \in 1 .. MaxProbes /\ Probes(b) \in 1 .. MaxPersisted
      /\ DialTimeout(b) \in 1 .. MaxPersisted
      /\ b.maxSamples = Nil \/ b.maxSamples \in 1 .. MaxPersisted
      /\ b.maxDuration = Nil \/ b.maxDuration \in 1 .. MaxPersisted
      /\ MaxPersisted \in Nat /\ Second \in Nat
  BY AcceptedRanges, RequestLimits
<1>2. /\ DOMAIN s = Columns
      /\ s.cadence = b.cadence * Second /\ s.probes = Probes(b) /\ s.dial = DialTimeout(b)
      /\ s.maxSamples = b.maxSamples /\ s.maxDuration = Duration(b.maxDuration)
      /\ s.country = NormalizedTargetCountry(b.country)
  BY DEF SessionOf, Columns
<1>3. Int32(Seconds(s.cadence)) = b.cadence
  BY <1>1, <1>2, SecondsSurvive
<1>4. Int32(s.probes) = Probes(b) /\ Int32(s.dial) = DialTimeout(b)
  BY <1>1, <1>2, SecondsSurvive
<1>5. Int32Ptr(s.maxSamples) = b.maxSamples
  BY <1>1, <1>2, SecondsSurvive DEF Int32Ptr
<1>6. Int32Ptr(DurationSeconds(s.maxDuration)) = b.maxDuration
  <2>1. CASE b.maxDuration = Nil
    BY <1>2, <2>1 DEF Int32Ptr, DurationSeconds, Duration
  <2>2. CASE b.maxDuration # Nil
    <3>1. b.maxDuration \in 1 .. MaxPersisted /\ b.maxDuration * Second \in Int
      BY <1>1, <2>2
    <3>2. b.maxDuration * Second # Nil /\ b.maxDuration # Nil
      BY <2>2, <3>1, GoIntAssumption
    <3>3. Seconds(b.maxDuration * Second) = b.maxDuration /\ Int32(b.maxDuration) = b.maxDuration
      BY <3>1, SecondsSurvive
    <3> QED
      BY <1>2, <3>2, <3>3 DEF Int32Ptr, DurationSeconds, Duration
  <2> QED
    BY <2>1, <2>2
<1> HIDE DEF s
<1>7. LET r == InsertSessionParams(s)
      IN  /\ DOMAIN r = Columns
          /\ r.cadence = b.cadence /\ r.probes = Probes(b) /\ r.dial = DialTimeout(b)
          /\ r.maxSamples = b.maxSamples /\ r.maxDuration = b.maxDuration
          /\ r.country = NormalizedTargetCountry(b.country)
  BY <1>2, <1>3, <1>4, <1>5, <1>6 DEF InsertSessionParams, Columns
<1>8. /\ DOMAIN RowOf(b) = Columns
      /\ RowOf(b).cadence = b.cadence /\ RowOf(b).probes = Probes(b) /\ RowOf(b).dial = DialTimeout(b)
      /\ RowOf(b).maxSamples = b.maxSamples /\ RowOf(b).maxDuration = b.maxDuration
      /\ RowOf(b).country = NormalizedTargetCountry(b.country)
  BY <1>7 DEF RowOf, s
<1>9. ChecksHold(RowOf(b))
  BY <1>1, <1>8 DEF ChecksHold
<1> QED
  BY <1>8, <1>9

\* The answer says what the request said.
LEMMA RowAnswered ==
  ASSUME NEW b \in Bodies, ValidCreate(b)
  PROVE  /\ AnswerOf(b).cadence = b.cadence /\ AnswerOf(b).probes = Probes(b)
         /\ AnswerOf(b).dial = DialTimeout(b) /\ AnswerOf(b).maxSamples = b.maxSamples
         /\ AnswerOf(b).maxDuration = b.maxDuration
         /\ AnswerOf(b).country = IF NormalizedTargetCountry(b.country) = "" THEN Nil
                                 ELSE NormalizedTargetCountry(b.country)
<1> DEFINE r == RowOf(b)
           t == StoreMapSession(r)
<1>1. b.cadence \in 1 .. MaxPersisted /\ (b.maxDuration = Nil \/ b.maxDuration \in 1 .. MaxPersisted)
  BY AcceptedRanges
<1>2. Seconds(Wrap(b.cadence * Second)) = b.cadence
  BY <1>1, SecondsSurvive
<1>3. DurationSeconds(SecondsPointer(b.maxDuration)) = b.maxDuration
  <2>1. CASE b.maxDuration = Nil
    BY <2>1 DEF DurationSeconds, SecondsPointer
  <2>2. CASE b.maxDuration # Nil
    <3>1. /\ Wrap(b.maxDuration * Second) = b.maxDuration * Second
          /\ Seconds(b.maxDuration * Second) = b.maxDuration
      BY <1>1, <2>2, SecondsSurvive
    <3>2. b.maxDuration * Second \in Int
      BY <1>1, <2>2, RequestLimits
    <3>3. b.maxDuration * Second # Nil
      BY <3>2, GoIntAssumption
    <3> QED
      BY <2>2, <3>1, <3>3 DEF DurationSeconds, SecondsPointer
  <2> QED
    BY <2>1, <2>2
<1>4. /\ DOMAIN r = Columns
      /\ r.cadence = b.cadence /\ r.probes = Probes(b) /\ r.dial = DialTimeout(b)
      /\ r.maxSamples = b.maxSamples /\ r.maxDuration = b.maxDuration
      /\ r.country = NormalizedTargetCountry(b.country)
  BY RowStored
<1> HIDE DEF r
<1>5. /\ DOMAIN t = Columns
      /\ t.cadence = Wrap(b.cadence * Second) /\ t.probes = Probes(b) /\ t.dial = DialTimeout(b)
      /\ t.maxSamples = b.maxSamples /\ t.maxDuration = SecondsPointer(b.maxDuration)
      /\ t.country = NormalizedTargetCountry(b.country)
  BY <1>4 DEF StoreMapSession, Columns
<1> HIDE DEF t
<1>6. LET a == APIMapSession(t)
      IN  /\ a.cadence = b.cadence /\ a.probes = Probes(b) /\ a.dial = DialTimeout(b)
          /\ a.maxSamples = b.maxSamples /\ a.maxDuration = b.maxDuration
          /\ a.country = IF NormalizedTargetCountry(b.country) = "" THEN Nil
                        ELSE NormalizedTargetCountry(b.country)
  BY <1>2, <1>3, <1>5 DEF APIMapSession, Columns
<1> QED
  BY <1>6 DEF AnswerOf, t, r

\* A request that passed the middleware is one object, one that passed the
\* handler is accepted, and what is stored and answered is what it asked for.
RequestPlaces ==
  /\ body \in Bodies
  /\ hop \in {"middleware", "handler", "insert", "load", "done", "refused"}
  /\ hop \in {"handler", "insert", "load", "done"} => body.shape = "object"
Accepted ==
  /\ hop \in {"middleware", "handler"} => reply = Nil
  /\ hop \in {"insert", "load"} => ValidCreate(body)
  /\ hop = "insert" => reply = SessionOf(body)
  /\ hop = "load" => storedRow = RowOf(body)
  /\ hop = "done" => reply = Nil \/ (ValidCreate(body) /\ reply = AnswerOf(body))
RequestInv == RequestPlaces /\ Accepted

LEMMA RequestInitEstablishes == RequestInit => RequestInv
  BY DEF RequestInit, RequestInv, RequestPlaces, Accepted

LEMMA RequestingKeeps == RequestInv /\ [Requesting]_requestVars => RequestInv'
<1> SUFFICES ASSUME RequestInv, [Requesting]_requestVars PROVE RequestInv'
  OBVIOUS
<1> USE DEF RequestInv, RequestPlaces
<1>1. CASE ValidateRequestBody
  <2>1. hop' = "handler" => body.shape = "object"
    BY <1>1 DEF ValidateRequestBody, ShapeValid
  <2>2. hop' \in {"refused", "handler"} /\ hop = "middleware" /\ UNCHANGED <<body, storedRow, reply>>
    BY <1>1 DEF ValidateRequestBody
  <2> QED
    BY <2>1, <2>2 DEF Accepted
<1>2. CASE Create
  <2>1. hop = "handler" /\ reply = Nil /\ UNCHANGED <<body, storedRow>>
    BY <1>2 DEF Create, Accepted
  <2>2. CASE ~ValidCreate(body)
    <3>1. hop' = "refused" /\ reply' = reply
      BY <1>2, <2>2 DEF Create
    <3> QED
      BY <2>1, <3>1 DEF Accepted
  <2>3. CASE ValidCreate(body)
    <3>1. hop' = "insert"
      BY <1>2, <2>3 DEF Create
    <3>2. reply' = [name |-> TrimSpace(body.name), mode |-> body.mode,
                    cadence |-> Wrap(body.cadence * Second), probes |-> Probes(body),
                    dial |-> DialTimeout(body), maxSamples |-> body.maxSamples,
                    maxDuration |-> SecondsPointer(body.maxDuration),
                    country |-> NormalizedTargetCountry(body.country)]
      BY <1>2, <2>3 DEF Create
    <3>3. reply' = SessionOf(body)
      BY <2>3, <3>2, HandlerBuilds
    <3>4. body' = body /\ ValidCreate(body') /\ reply' = SessionOf(body')
      BY <2>1, <2>3, <3>3
    <3> QED
      BY <2>1, <3>1, <3>4 DEF Accepted
  <2> QED
    BY <2>2, <2>3
<1>3. CASE Edit
  <2>1. hop = "handler" /\ hop' \in {"refused", "done"} /\ UNCHANGED <<body, storedRow, reply>>
    BY <1>3 DEF Edit
  <2> QED
    BY <2>1 DEF Accepted
<1>4. CASE InsertSession
  <2>1. hop = "insert" /\ ValidCreate(body) /\ reply = SessionOf(body) /\ UNCHANGED <<body, reply>>
    BY <1>4 DEF InsertSession, Accepted
  <2>2. ChecksHold(InsertSessionParams(reply)) /\ InsertSessionParams(reply) = RowOf(body)
    BY <2>1, RowStored DEF RowOf
  <2>3. hop' = "load" /\ storedRow' = RowOf(body)
    BY <1>4, <2>2 DEF InsertSession
  <2>4. ValidCreate(body') /\ storedRow' = RowOf(body')
    BY <2>1, <2>3
  <2> QED
    BY <2>1, <2>3, <2>4 DEF Accepted
<1>5. CASE LoadSession
  <2>1. hop = "load" /\ hop' = "done" /\ ValidCreate(body) /\ storedRow = RowOf(body) /\ body' = body
    BY <1>5 DEF LoadSession, Accepted
  <2>2. reply' = AnswerOf(body)
    BY <1>5, <2>1 DEF LoadSession, AnswerOf
  <2>3. ValidCreate(body') /\ reply' = AnswerOf(body')
    BY <2>1, <2>2
  <2> QED
    BY <2>1, <2>3 DEF Accepted
<1>6. CASE UNCHANGED requestVars
  <2>1. body' = body /\ hop' = hop /\ storedRow' = storedRow /\ reply' = reply
    BY <1>6 DEF requestVars
  <2> QED
    BY <2>1 DEF Accepted
<1> QED
  BY <1>1, <1>2, <1>3, <1>4, <1>5, <1>6 DEF Requesting

\* What CreateSession and CreateRun answer is what the client asked for,
\* whatever the width of the integers: no field of an accepted request is cut
\* or wraps on its way through a time.Duration and an int32 column, the table
\* refuses nothing that the handler accepted, and nothing but one object that
\* has only known properties is accepted.
THEOREM AcceptedSurvivesHolds == RequestSpec => []AcceptedSurvives
<1>1. RequestInv => AcceptedSurvives
  <2> SUFFICES ASSUME RequestInv PROVE AcceptedSurvives
    OBVIOUS
  <2>1. hop # "failed" /\ (hop = "done" => body.shape = "object")
    BY DEF RequestInv, RequestPlaces
  <2>2. ASSUME hop = "done", reply # Nil
        PROVE  /\ reply.cadence = body.cadence /\ reply.maxSamples = body.maxSamples
               /\ reply.maxDuration = body.maxDuration
               /\ body.dial # Nil => reply.dial = body.dial
               /\ body.probes # Nil => reply.probes = body.probes
               /\ reply.country = Nil <=> body.country \in {Nil, ""}
    <3>1. body \in Bodies /\ ValidCreate(body) /\ reply = AnswerOf(body)
      BY <2>2 DEF RequestInv, RequestPlaces, Accepted
    <3>2. /\ reply.cadence = body.cadence /\ reply.probes = Probes(body)
          /\ reply.dial = DialTimeout(body) /\ reply.maxSamples = body.maxSamples
          /\ reply.maxDuration = body.maxDuration
          /\ reply.country = IF NormalizedTargetCountry(body.country) = "" THEN Nil
                             ELSE NormalizedTargetCountry(body.country)
      BY <3>1, RowAnswered
    <3>3. reply.country = Nil <=> body.country \in {Nil, ""}
      BY <3>2, Defaults DEF NormalizedTargetCountry
    <3> QED
      BY <3>2, <3>3 DEF Probes, DialTimeout
  <2> QED
    BY <2>1, <2>2 DEF AcceptedSurvives
<1> QED BY <1>1, RequestInitEstablishes, RequestingKeeps, PTL DEF RequestSpec

-----------------------------------------------------------------------------
(* Sums, as sizes of disjoint unions.                                      *)

\* A sum of natural numbers over a finite set is a natural number.
LEMMA PartsFinite ==
  ASSUME NEW f, NEW S, IsFiniteSet(S), \A x \in S : f[x] \in Nat
  PROVE  IsFiniteSet(Parts(f, S)) /\ Total(f, S) \in Nat
<1> DEFINE part == [x \in S |-> {x} \X (1 .. f[x])]
           all  == {{x} \X (1 .. f[x]) : x \in S}
<1>1. part \in Surjection(S, all)
  BY DEF Surjection
<1>2. IsFiniteSet(all)
  BY <1>1, FS_Surjection, Zenon
<1>3. ASSUME NEW T \in all PROVE IsFiniteSet(T)
  <2>1. PICK x \in S : T = {x} \X (1 .. f[x])
    OBVIOUS
  <2>2. IsFiniteSet({x}) /\ IsFiniteSet(1 .. f[x])
    <3>1. f[x] \in Int /\ 1 \in Int
      OBVIOUS
    <3> QED
      BY <3>1, FS_Singleton, FS_Interval
  <2> QED
    BY <2>1, <2>2, FS_Product
<1>4. IsFiniteSet(UNION all)
  BY <1>2, <1>3, FS_UNION, Zenon
<1> QED
  BY <1>4, FS_CardinalityType DEF Parts, Total

\* Nothing adds up to 0.
LEMMA TotalEmpty == ASSUME NEW f PROVE Total(f, {}) = 0
<1>1. Parts(f, {}) = {}
  BY DEF Parts
<1> QED
  BY <1>1, FS_EmptySet DEF Total

\* One more summand adds its value.
LEMMA TotalAdd ==
  ASSUME NEW f, NEW S, IsFiniteSet(S), \A x \in S : f[x] \in Nat,
         NEW y, y \notin S, f[y] \in Nat
  PROVE  Total(f, S \cup {y}) = Total(f, S) + f[y]
<1> DEFINE more == {y} \X (1 .. f[y])
<1>1. Parts(f, S \cup {y}) = Parts(f, S) \cup more
  BY DEF Parts
<1>2. Parts(f, S) \cap more = {}
  BY DEF Parts
<1>3. IsFiniteSet({y}) /\ Cardinality({y}) = 1
  BY FS_Singleton
<1>4. IsFiniteSet(1 .. f[y]) /\ Cardinality(1 .. f[y]) = f[y]
  BY FS_Interval
<1>5. IsFiniteSet(more) /\ Cardinality(more) = f[y]
  <2>1. IsFiniteSet(more) /\ Cardinality(more) = 1 * f[y]
    BY <1>3, <1>4, FS_Product, Zenon
  <2> QED
    BY <2>1
<1>6. IsFiniteSet(Parts(f, S)) /\ Total(f, S) \in Nat
  BY PartsFinite
<1>7. Cardinality(Parts(f, S) \cup more)
        = Cardinality(Parts(f, S)) + Cardinality(more) - Cardinality(Parts(f, S) \cap more)
  BY <1>5, <1>6, FS_Union, Zenon
<1>8. Cardinality(Parts(f, S) \cap more) = 0
  BY <1>2, FS_EmptySet, Zenon
<1>9. Cardinality(Parts(f, S \cup {y})) = Cardinality(Parts(f, S)) + f[y] - 0
  BY <1>1, <1>5, <1>7, <1>8, Zenon
<1> HIDE DEF more
<1> QED
  BY <1>6, <1>9 DEF Total

\* A sum over fewer summands is at most as large.
LEMMA TotalMonotonic ==
  ASSUME NEW f, NEW T, IsFiniteSet(T), \A x \in T : f[x] \in Nat, NEW S \in SUBSET T
  PROVE  Total(f, S) \in Nat /\ Total(f, S) <= Total(f, T)
<1>1. Parts(f, S) \in SUBSET Parts(f, T)
  BY DEF Parts
<1>2. IsFiniteSet(Parts(f, T))
  BY PartsFinite
<1>3. IsFiniteSet(Parts(f, S)) /\ Cardinality(Parts(f, S)) <= Cardinality(Parts(f, T))
  BY <1>1, <1>2, FS_Subset, Zenon
<1> QED
  BY <1>3, FS_CardinalityType DEF Total

\* The sizes of some sets add up to at least the size of their union, and
\* to exactly that if no two of the sets overlap.
LEMMA TotalCovers ==
  ASSUME NEW S, IsFiniteSet(S), NEW B, NEW f,
         \A c \in S : IsFiniteSet(B[c]) /\ f[c] = Cardinality(B[c])
  PROVE  /\ Cardinality(UNION {B[c] : c \in S}) <= Total(f, S)
         /\ (\A c, d \in S : c # d => B[c] \cap B[d] = {}) =>
              Cardinality(UNION {B[c] : c \in S}) = Total(f, S)
<1> DEFINE nth  == [c \in S |-> CHOOSE h : h \in Bijection(1 .. Cardinality(B[c]), B[c])]
           all  == UNION {B[c] : c \in S}
           item == [p \in Parts(f, S) |-> nth[p[1]][p[2]]]
<1>1. ASSUME NEW c \in S
      PROVE  f[c] \in Nat /\ nth[c] \in Bijection(1 .. f[c], B[c])
  <2>1. Cardinality(B[c]) \in Nat /\ ExistsBijection(1 .. Cardinality(B[c]), B[c])
    BY FS_CardinalityType
  <2> QED
    BY <2>1, Zenon DEF ExistsBijection
<1>2. IsFiniteSet(Parts(f, S))
  BY <1>1, PartsFinite
<1> HIDE DEF nth
<1>3. ASSUME NEW p \in Parts(f, S)
      PROVE  /\ p = <<p[1], p[2]>> /\ p[1] \in S /\ p[2] \in 1 .. f[p[1]]
             /\ item[p] \in B[p[1]]
  <2>1. PICK c \in S : p \in {c} \X (1 .. f[c])
    BY DEF Parts
  <2>2. p[1] = c /\ p[2] \in 1 .. f[c] /\ p = <<p[1], p[2]>>
    BY <2>1
  <2>3. nth[c] \in [1 .. f[c] -> B[c]]
    BY <1>1 DEF Bijection, Injection
  <2> QED
    BY <2>2, <2>3
<1>4. item \in [Parts(f, S) -> all]
  BY <1>3
<1>5. ASSUME NEW a \in all PROVE \E p \in Parts(f, S) : item[p] = a
  <2>1. PICK c \in S : a \in B[c]
    OBVIOUS
  <2>2. PICK i \in 1 .. f[c] : nth[c][i] = a
    BY <1>1, <2>1 DEF Bijection, Surjection
  <2>3. <<c, i>> \in Parts(f, S)
    BY <2>2 DEF Parts
  <2> QED
    BY <2>2, <2>3
<1>6. item \in Surjection(Parts(f, S), all)
  BY <1>4, <1>5, Zenon DEF Surjection
<1>7. ASSUME \A c, d \in S : c # d => B[c] \cap B[d] = {}
      PROVE  item \in Injection(Parts(f, S), all)
  <2>1. ASSUME NEW p \in Parts(f, S), NEW q \in Parts(f, S), item[p] = item[q]
        PROVE  p = q
    <3>1. p[1] = q[1]
      BY <1>3, <1>7, <2>1
    <3>2. nth[p[1]][p[2]] = nth[p[1]][q[2]]
      BY <2>1, <3>1
    <3>3. p[2] \in 1 .. f[p[1]] /\ q[2] \in 1 .. f[p[1]]
      BY <1>3, <3>1
    <3>4. p[2] = q[2]
      <4>1. nth[p[1]] \in Injection(1 .. f[p[1]], B[p[1]])
        BY <1>1, <1>3 DEF Bijection
      <4> QED
        BY <4>1, <3>2, <3>3, Zenon DEF Injection, IsInjective
    <3> QED
      BY <1>3, <3>1, <3>4
  <2>2. \A p, q \in Parts(f, S) : item[p] = item[q] => p = q
    BY <2>1
  <2> QED
    BY <1>4, <2>2 DEF Injection, IsInjective
<1> HIDE DEF item, all
<1>8. /\ Cardinality(all) <= Cardinality(Parts(f, S))
      /\ Cardinality(all) = Cardinality(Parts(f, S)) <=> item \in Injection(Parts(f, S), all)
  BY <1>2, <1>6, FS_Surjection, Zenon
<1> QED
  BY <1>7, <1>8 DEF Total, all

\* A set of naturals has a least element, and so what holds of 0 and passes
\* from m to m + 1 holds of all: induction, stated with sets.
LEMMA LeastNatural ==
  ASSUME NEW S \in SUBSET Nat, S # {}
  PROVE  \E x \in S : \A y \in S : x <= y
<1>1. PICK x \in S : \A y \in S : ~(<<y, x>> \in OpToRel(<, Nat))
  BY NatLessThanWellFounded, WFMin
<1>2. ASSUME NEW y \in S PROVE x <= y
  <2>1. x \in Nat /\ y \in Nat
    OBVIOUS
  <2>2. y < x => <<y, x>> \in OpToRel(<, Nat)
    BY <2>1 DEF OpToRel
  <2>3. ~(y < x)
    BY <1>1, <2>2
  <2> QED
    BY <2>1, <2>3
<1> QED
  BY <1>2

LEMMA UpTo ==
  ASSUME NEW n \in Nat, NEW S, 0 \in S, \A m \in 0 .. n : m < n /\ m \in S => m + 1 \in S
  PROVE  0 .. n \subseteq S
<1> DEFINE left == {m \in 0 .. n : m \notin S}
<1>1. SUFFICES ASSUME left # {} PROVE FALSE
  OBVIOUS
<1>2. left \in SUBSET Nat
  OBVIOUS
<1>3. PICK x \in left : \A y \in left : x <= y
  <2> HIDE DEF left
  <2> QED
    BY <1>1, <1>2, LeastNatural
<1>4. x # 0 /\ x - 1 \in 0 .. n /\ x - 1 < n
  BY <1>3
<1>5. x - 1 \in S
  BY <1>3, <1>4
<1> QED
  BY <1>3, <1>4, <1>5

\* Sums of the same numbers.
LEMMA TotalSame ==
  ASSUME NEW f, NEW g, NEW S, \A x \in S : f[x] = g[x]
  PROVE  Total(f, S) = Total(g, S)
<1>1. Parts(f, S) = Parts(g, S)
  BY DEF Parts
<1> QED
  BY <1>1 DEF Total

\* One summand that grows by one.
LEMMA TotalBump ==
  ASSUME NEW S, IsFiniteSet(S), NEW f, NEW g, NEW y \in S, f[y] \in Nat,
         \A x \in S \ {y} : f[x] \in Nat /\ g[x] = f[x], g[y] = f[y] + 1
  PROVE  Total(g, S) = Total(f, S) + 1
<1> DEFINE R == S \ {y}
<1>1. IsFiniteSet(R) /\ R \cup {y} = S /\ y \notin R
  BY FS_Subset
<1>2. \A x \in R : f[x] \in Nat /\ g[x] \in Nat
  OBVIOUS
<1>3. g[y] \in Nat
  OBVIOUS
<1>4. Total(f, R) = Total(g, R)
  BY TotalSame
<1> HIDE DEF R
<1>5. Total(f, R \cup {y}) = Total(f, R) + f[y]
  BY <1>1, <1>2, TotalAdd
<1>6. Total(g, R \cup {y}) = Total(g, R) + g[y]
  BY <1>1, <1>2, <1>3, TotalAdd
<1>7. Total(f, R) \in Nat
  BY <1>1, <1>2, PartsFinite
<1> QED
  BY <1>1, <1>4, <1>5, <1>6, <1>7

\* The indices and elements of a sequence.
LEMMA IndexSet ==
  ASSUME NEW T, NEW s \in Seq(T)
  PROVE  /\ Len(s) \in Nat /\ DOMAIN s = 1 .. Len(s) /\ IsFiniteSet(1 .. Len(s))
         /\ \A i \in 1 .. Len(s) : s[i] \in T
         /\ s = <<>> <=> Len(s) = 0
<1>1. Len(s) \in Nat /\ DOMAIN s = 1 .. Len(s) /\ \A i \in 1 .. Len(s) : s[i] \in T
  BY LenProperties, ElementOfSeq
<1>2. IsFiniteSet(1 .. Len(s))
  <2>1. 1 \in Int /\ Len(s) \in Int
    BY <1>1
  <2> QED
    BY <2>1, FS_Interval, Zenon
<1>3. s = <<>> <=> Len(s) = 0
  BY EmptySeq
<1> QED
  BY <1>1, <1>2, <1>3

\* A sum over one index more.
LEMMA TotalNext ==
  ASSUME NEW n \in Nat, NEW f, NEW g, \A i \in 1 .. n : f[i] \in Nat /\ g[i] = f[i], g[n + 1] \in Nat
  PROVE  Total(g, 1 .. n + 1) = Total(f, 1 .. n) + g[n + 1]
<1> DEFINE I == 1 .. n
           y == n + 1
<1>1. 1 .. n + 1 = I \cup {y} /\ y \notin I
  OBVIOUS
<1>2. IsFiniteSet(I)
  <2>1. 1 \in Int /\ n \in Int
    OBVIOUS
  <2> QED
    BY <2>1, FS_Interval, Zenon
<1>3. (\A i \in I : g[i] \in Nat) /\ (\A i \in I : g[i] = f[i]) /\ g[y] \in Nat
  OBVIOUS
<1> HIDE DEF I, y
<1>4. Total(g, I \cup {y}) = Total(g, I) + g[y]
  BY <1>1, <1>2, <1>3, TotalAdd
<1>5. Total(g, I) = Total(f, I)
  BY <1>3, TotalSame
<1> QED
  BY <1>1, <1>4, <1>5 DEF I, y

\* Sets of indices are finite, and larger ones have more elements.
LEMMA IndexSubsets ==
  ASSUME NEW n \in Nat, NEW S \in SUBSET (1 .. n)
  PROVE  IsFiniteSet(S) /\ Cardinality(S) \in Nat /\ S \in SUBSET Nat
<1>1. 1 \in Int /\ n \in Int
  OBVIOUS
<1>2. IsFiniteSet(1 .. n)
  BY <1>1, FS_Interval, Zenon
<1>3. IsFiniteSet(S)
  BY <1>2, FS_Subset, Zenon
<1>4. S \in SUBSET Nat
  OBVIOUS
<1> QED
  BY <1>3, <1>4, FS_CardinalityType

LEMMA CountGrows ==
  ASSUME NEW n \in Nat, NEW T \in SUBSET (1 .. n), NEW S \in SUBSET T
  PROVE  Cardinality(S) \in Nat /\ Cardinality(T) \in Nat /\ Cardinality(S) <= Cardinality(T)
BY IndexSubsets, FS_Subset, FS_CardinalityType


-----------------------------------------------------------------------------
(* The CSV exports: a goroutine that writes rows into a pipe, and a handler *)
(* that must answer before it knows whether the query will succeed.        *)

\* One export on its own, with its goroutine and its client.
ExportSpec == ExportInit /\ [][Exporting]_exportVars

\* The header and the lines that the visitor has written so far.
Items == IF header THEN LinesBefore(pos) + 1 ELSE 0

(***************************************************************************)
(* The inductive invariant.  ExportTruthful speaks of what reached the     *)
(* client; it rests on what lies between.  As long as the pipe is open, what *)
(* was sent and what is buffered are together exactly the items written, in *)
(* order; how the goroutine closed the pipe tells whether those were all   *)
(* items; and the first buffered item was announced before the handler     *)
(* answered 200.  pos = 0 with a header stands only for an empty result.   *)
(***************************************************************************)
ExportTypes ==
  /\ kind \in Kinds /\ rows \in Seq(Nat \ {0}) /\ pos \in 0 .. Len(rows)
  /\ header \in BOOLEAN /\ broken \in BOOLEAN /\ closed \in BOOLEAN
  /\ sent \in Seq(Nat) /\ buffer \in Seq(Nat)
  /\ producer \in {"none", "query", "flush", "last", "done"}
  /\ handler \in {"find", "wait", "copy", "clean", "aborted", "left", "done"}
  /\ started \in {"empty", "ok", "error"} /\ written \in {"open", "eof", "error"}

GoroutineInv ==
  /\ producer \in {"none", "query"} => buffer = <<>>
  /\ producer = "none" => ~header /\ ~broken /\ ~announced
  /\ header => announced
  /\ pos > 0 => header
  /\ header /\ pos = 0 => Len(rows) = 0 /\ ~broken /\ producer \in {"last", "done"}
  /\ written = "open" <=> producer # "done"
  /\ producer = "last" => header /\ pos = Len(rows) /\ ~broken
  /\ written = "eof" => header /\ pos = Len(rows) /\ ~broken
  /\ written = "error" => broken \/ closed
  /\ broken => written = "error"

ItemsInv ==
  /\ \A i \in 1 .. Len(sent) : sent[i] = i - 1
  /\ Len(sent) <= Items
  /\ ~closed \/ handler = "clean" =>
       /\ Len(sent) + Len(buffer) = Items
       /\ \A i \in 1 .. Len(buffer) : buffer[i] = Len(sent) + i - 1

HandlerInv ==
  /\ handler \in {"find", "wait", "copy"} => ~closed
  /\ handler = "find" => producer = "none"
  /\ started = "ok" => header
  /\ started # "empty" => announced
  /\ handler \in {"copy", "clean", "aborted", "left"} => answer = 200 /\ header
  /\ handler \in {"find", "wait", "done"} => sent = <<>>
  /\ handler = "done" => answer = 503 \/ producer = "none"
  /\ handler = "clean" => buffer = <<>> /\ (written = "eof" \/ (kind = "session" /\ broken))

ExportInv == ExportTypes /\ GoroutineInv /\ ItemsInv /\ HandlerInv

-----------------------------------------------------------------------------
\* The lines of the first rows: none only for no row, more with every row.
LEMMA LinesBeforeFacts ==
  ASSUME rows \in Seq(Nat \ {0}), NEW n \in 0 .. Len(rows)
  PROVE  /\ LinesBefore(n) \in Nat /\ LinesBefore(n) <= LinesBefore(Len(rows))
         /\ n < Len(rows) => LinesBefore(n + 1) = LinesBefore(n) + rows[n + 1]
         /\ LinesBefore(n) = 0 <=> n = 0
<1>1. Len(rows) \in Nat /\ \A i \in 1 .. Len(rows) : rows[i] \in Nat \ {0}
  BY LenProperties, ElementOfSeq
<1>2. ASSUME NEW m \in 0 .. Len(rows)
      PROVE  IsFiniteSet(1 .. m) /\ 1 .. m \in SUBSET (1 .. Len(rows)) /\ \A i \in 1 .. m : rows[i] \in Nat
  <2>1. m \in Int /\ 1 \in Int
    BY <1>1
  <2>2. IsFiniteSet(1 .. m)
    BY <2>1, FS_Interval, Zenon
  <2> QED
    BY <1>1, <2>2
<1>3. LinesBefore(n) \in Nat /\ LinesBefore(n) <= LinesBefore(Len(rows))
  <2>1. Len(rows) \in 0 .. Len(rows)
    BY <1>1
  <2>2. IsFiniteSet(1 .. Len(rows)) /\ \A i \in 1 .. Len(rows) : rows[i] \in Nat
    BY <1>2, <2>1
  <2> QED
    BY <1>2, <2>2, TotalMonotonic DEF LinesBefore
<1>4. ASSUME NEW m \in 0 .. Len(rows), m < Len(rows)
      PROVE  LinesBefore(m + 1) = LinesBefore(m) + rows[m + 1]
  <2>1. 1 .. (m + 1) = (1 .. m) \cup {m + 1} /\ m + 1 \notin 1 .. m
    BY <1>1
  <2>2. rows[m + 1] \in Nat
    BY <1>1, <1>4
  <2>3. Total(rows, (1 .. m) \cup {m + 1}) = Total(rows, 1 .. m) + rows[m + 1]
    BY <1>2, <2>1, <2>2, TotalAdd
  <2> QED
    BY <2>1, <2>3 DEF LinesBefore
<1>5. LinesBefore(0) = 0
  <2>1. 1 .. 0 = {}
    OBVIOUS
  <2> QED
    BY <2>1, TotalEmpty DEF LinesBefore
<1>6. ASSUME n # 0 PROVE LinesBefore(n) # 0
  <2>1. 0 \in 0 .. Len(rows) /\ 0 < Len(rows) /\ rows[1] \in Nat \ {0}
    BY <1>1, <1>6
  <2>2. LinesBefore(1) = rows[1]
    BY <1>4, <1>5, <2>1
  <2>3. 1 .. 1 \in SUBSET (1 .. n)
    BY <1>6
  <2>4. LinesBefore(1) <= LinesBefore(n)
    BY <1>2, <2>3, TotalMonotonic DEF LinesBefore
  <2> QED
    BY <1>3, <2>1, <2>2, <2>4
<1> QED
  BY <1>3, <1>4, <1>5, <1>6

\* io.Copy takes a part of the buffer: what is sent, and what is left, still
\* count on from the header.
LEMMA PartTaken ==
  ASSUME NEW s \in Seq(Nat), NEW b \in Seq(Nat), NEW n \in 1 .. Len(b),
         \A i \in 1 .. Len(s) : s[i] = i - 1,
         \A i \in 1 .. Len(b) : b[i] = Len(s) + i - 1
  PROVE  LET t == s \o SubSeq(b, 1, n)
             c == SubSeq(b, n + 1, Len(b))
         IN /\ t \in Seq(Nat) /\ c \in Seq(Nat)
            /\ Len(t) = Len(s) + n /\ Len(c) = Len(b) - n
            /\ \A i \in 1 .. Len(t) : t[i] = i - 1
            /\ \A i \in 1 .. Len(c) : c[i] = Len(t) + i - 1
<1> DEFINE a == SubSeq(b, 1, n)
           t == s \o a
           c == SubSeq(b, n + 1, Len(b))
<1>1. Len(s) \in Nat /\ Len(b) \in Nat /\ n \in Nat /\ n >= 1 /\ n <= Len(b)
  BY LenProperties
<1>2. \A i \in 1 .. Len(b) : b[i] \in Nat
  BY ElementOfSeq
<1>3. a \in Seq(Nat) /\ Len(a) = n /\ \A i \in 1 .. n : a[i] = b[i]
  <2>1. \A i \in 1 .. n : b[i] \in Nat
    BY <1>1, <1>2
  <2>2. /\ a \in Seq(Nat) /\ Len(a) = (IF 1 <= n THEN n - 1 + 1 ELSE 0)
        /\ \A i \in 1 .. n - 1 + 1 : a[i] = b[1 + i - 1]
    BY <1>1, <2>1, SubSeqProperties
  <2> QED
    BY <1>1, <2>2
<1>4. c \in Seq(Nat) /\ Len(c) = Len(b) - n /\ \A i \in 1 .. Len(b) - n : c[i] = b[n + i]
  <2>1. \A i \in n + 1 .. Len(b) : b[i] \in Nat
    BY <1>1, <1>2
  <2>2. /\ c \in Seq(Nat) /\ Len(c) = (IF n + 1 <= Len(b) THEN Len(b) - (n + 1) + 1 ELSE 0)
        /\ \A i \in 1 .. Len(b) - (n + 1) + 1 : c[i] = b[(n + 1) + i - 1]
    BY <1>1, <2>1, SubSeqProperties
  <2> QED
    BY <1>1, <2>2
<1> HIDE DEF a, c
<1>5. /\ t \in Seq(Nat) /\ Len(t) = Len(s) + n
      /\ \A i \in 1 .. Len(s) + n : t[i] = IF i <= Len(s) THEN s[i] ELSE a[i - Len(s)]
  BY <1>3, ConcatProperties
<1> HIDE DEF t
<1>6. \A i \in 1 .. Len(t) : t[i] = i - 1
  <2> SUFFICES ASSUME NEW i \in 1 .. Len(s) + n PROVE t[i] = i - 1
    BY <1>5
  <2>1. CASE i <= Len(s)
    <3>1. i \in 1 .. Len(s)
      BY <1>1, <2>1
    <3> QED
      BY <1>5, <2>1, <3>1
  <2>2. CASE i > Len(s)
    <3>1. i - Len(s) \in 1 .. n /\ i - Len(s) \in 1 .. Len(b)
      BY <1>1, <2>2
    <3>2. t[i] = b[i - Len(s)]
      BY <1>1, <1>3, <1>5, <2>2, <3>1
    <3> QED
      BY <1>1, <3>1, <3>2
  <2> QED
    BY <1>1, <2>1, <2>2
<1>7. \A i \in 1 .. Len(c) : c[i] = Len(t) + i - 1
  BY <1>1, <1>4, <1>5
<1> QED
  BY <1>4, <1>5, <1>6, <1>7 DEF a, t, c

\* What is left of a buffer is a buffer.
LEMMA RestLeft ==
  ASSUME NEW b \in Seq(Nat), NEW n \in 1 .. Len(b)
  PROVE  SubSeq(b, n + 1, Len(b)) \in Seq(Nat)
<1>1. Len(b) \in Nat /\ n + 1 \in Int /\ Len(b) \in Int
  BY LenProperties
<1>2. \A i \in n + 1 .. Len(b) : b[i] \in Nat
  BY <1>1, ElementOfSeq
<1> QED
  BY <1>1, <1>2, SubSeqProperties

\* What the visitor buffers continues the items written before.
LEMMA RowBuffered ==
  ASSUME NEW n \in Nat, NEW k \in Nat, NEW h \in BOOLEAN, ~h => n = 0
  PROVE  LET w == IF h THEN <<>> ELSE <<0>>
             l == [i \in 1 .. k |-> n + i]
             b == w \o l
             at == IF h THEN n + 1 ELSE 0
         IN /\ b \in Seq(Nat) /\ Len(b) = n + k + 1 - at
            /\ \A i \in 1 .. Len(b) : b[i] = at + i - 1
<1> DEFINE w == IF h THEN <<>> ELSE <<0>>
           l == [i \in 1 .. k |-> n + i]
           b == w \o l
           at == IF h THEN n + 1 ELSE 0
<1>1. l \in Seq(Nat) /\ Len(l) = k
  <2>1. l \in [1 .. k -> Nat]
    OBVIOUS
  <2> QED
    BY <2>1, SeqDef
<1>2. w \in Seq(Nat) /\ Len(w) = (IF h THEN 0 ELSE 1) /\ (~h => w[1] = 0)
  OBVIOUS
<1>3. \A i \in 1 .. k : l[i] = n + i
  OBVIOUS
<1> HIDE DEF w, l
<1>4. /\ b \in Seq(Nat) /\ Len(b) = Len(w) + Len(l)
      /\ \A i \in 1 .. Len(w) + Len(l) : b[i] = IF i <= Len(w) THEN w[i] ELSE l[i - Len(w)]
  BY <1>1, <1>2, ConcatProperties
<1> HIDE DEF b
<1>5. CASE h
  BY <1>1, <1>2, <1>3, <1>4, <1>5 DEF w, l, b
<1>6. CASE ~h
  <2>1. n = 0 /\ at = 0 /\ Len(w) = 1 /\ w[1] = 0 /\ Len(b) = k + 1
    BY <1>1, <1>2, <1>4, <1>6
  <2>2. ASSUME NEW i \in 1 .. k + 1 PROVE b[i] = i - 1
    BY <1>1, <1>3, <1>4, <2>1
  <2>3. Len(b) = n + k + 1 - at /\ \A i \in 1 .. Len(b) : b[i] = at + i - 1
    BY <2>1, <2>2
  <2> QED
    BY <1>4, <2>3 DEF w, l, b
<1> QED
  BY <1>5, <1>6

LEMMA ExportInitEstablishes == ExportInit => ExportInv
<1> SUFFICES ASSUME ExportInit PROVE ExportInv
  OBVIOUS
<1>1. rows \in Seq(Nat \ {0}) /\ Len(rows) \in Nat
  <2>1. PICK n \in 0 .. MaxRows : rows \in [1 .. n -> IF kind = "session" THEN 1 .. MaxLines ELSE {1}]
    BY DEF ExportInit, SeqOf
  <2>2. rows \in [1 .. n -> Nat \ {0}] /\ n \in Nat
    BY <2>1, ExportAssumption
  <2>3. rows \in Seq(Nat \ {0})
    BY <2>2, SeqDef
  <2> QED
    BY <2>3, LenProperties
<1>2. sent = <<>> /\ buffer = <<>> /\ sent \in Seq(Nat) /\ buffer \in Seq(Nat) /\ Len(sent) = 0 /\ Len(buffer) = 0
  BY EmptySeq DEF ExportInit
<1>3. ExportTypes
  <2>1. kind \in Kinds /\ pos \in 0 .. Len(rows)
    BY <1>1 DEF ExportInit
  <2>2. header \in BOOLEAN /\ broken \in BOOLEAN /\ closed \in BOOLEAN
    BY DEF ExportInit
  <2>3. producer = "none" /\ handler = "find" /\ started = "empty" /\ written = "open"
    BY DEF ExportInit
  <2> QED
    BY <1>1, <1>2, <2>1, <2>2, <2>3 DEF ExportTypes
<1>4. GoroutineInv
  BY <1>2 DEF ExportInit, GoroutineInv
<1>5. ItemsInv
  BY <1>2 DEF ExportInit, ItemsInv, Items
<1>6. HandlerInv
  BY <1>2 DEF ExportInit, HandlerInv
<1> QED
  BY <1>3, <1>4, <1>5, <1>6 DEF ExportInv

\* The goroutine leaves these alone.
HandlerSame == /\ kind' = kind /\ rows' = rows /\ client' = client /\ closed' = closed
               /\ handler' = handler /\ sent' = sent /\ answer' = answer

\* Visit: the header, and a row after it, or the context ends.
LEMMA VisitKeeps == ASSUME ExportInv, Visit, HandlerSame PROVE ExportInv'
<1> DEFINE done == LinesBefore(pos)
           k == rows[pos + 1]
           b == (IF header THEN <<>> ELSE <<0>>) \o [i \in 1 .. k |-> done + i]
<1>0. ExportTypes /\ GoroutineInv /\ ItemsInv /\ HandlerInv
  BY DEF ExportInv
<1>1. /\ rows \in Seq(Nat \ {0}) /\ Len(rows) \in Nat /\ pos \in 0 .. Len(rows) /\ pos < Len(rows)
      /\ pos \in Nat /\ k \in Nat
  BY <1>0, LenProperties, ElementOfSeq DEF ExportTypes, Visit
<1>2. done \in Nat /\ LinesBefore(pos + 1) = done + k /\ (done = 0 <=> pos = 0)
  BY <1>1, LinesBeforeFacts
<1>3. header \in BOOLEAN /\ (~header => done = 0)
  BY <1>0, <1>1, <1>2 DEF ExportTypes, GoroutineInv
<1>4. buffer' = b
  <2>1. pos + 1 - 1 = pos
    BY <1>1
  <2>2. Lines(pos + 1) = [i \in 1 .. k |-> done + i]
    <3>1. PICK m : m = pos + 1
      OBVIOUS
    <3>2. rows[m] = k /\ m - 1 = pos
      BY <1>1, <3>1
    <3>3. LinesBefore(m - 1) = done
      BY <3>2
    <3> HIDE DEF done, k
    <3>4. Lines(m) = [i \in 1 .. rows[m] |-> LinesBefore(m - 1) + i]
      BY DEF Lines
    <3> QED
      BY <3>1, <3>2, <3>3, <3>4
  <2>3. buffer' = (IF header THEN <<>> ELSE <<0>>) \o Lines(pos + 1)
    BY Zenon DEF Visit, WriteHeader
  <2> QED
    BY <2>2, <2>3
<1>5. /\ b \in Seq(Nat) /\ Len(b) = done + k + 1 - (IF header THEN done + 1 ELSE 0)
      /\ \A i \in 1 .. Len(b) : b[i] = (IF header THEN done + 1 ELSE 0) + i - 1
  BY <1>1, <1>2, <1>3, RowBuffered
<1> HIDE DEF b, k
<1>6. buffer = <<>> /\ Len(buffer) = 0 /\ Len(sent) \in Nat
  BY <1>0, LenProperties DEF GoroutineInv, Visit, ExportTypes
<1>7. Items = (IF header THEN done + 1 ELSE 0) /\ Items' = done + k + 1
  BY <1>2 DEF Items, Visit, HandlerSame, LinesBefore
<1> HIDE DEF done
<1>8. ItemsInv'
  <2>1. \A i \in 1 .. Len(sent') : sent'[i] = i - 1
    BY <1>0 DEF ItemsInv, HandlerSame
  <2>2. Len(sent') <= Items'
    BY <1>0, <1>1, <1>2, <1>3, <1>6, <1>7 DEF ItemsInv, HandlerSame
  <2>3. ASSUME ~closed' \/ handler' = "clean"
        PROVE  /\ Len(sent') + Len(buffer') = Items'
               /\ \A i \in 1 .. Len(buffer') : buffer'[i] = Len(sent') + i - 1
    <3>1. Len(sent) + 0 = (IF header THEN done + 1 ELSE 0)
      BY <1>0, <1>6, <1>7, <2>3 DEF ItemsInv, HandlerSame
    <3>2. Len(sent') = (IF header THEN done + 1 ELSE 0)
      BY <1>6, <3>1 DEF HandlerSame
    <3> QED
      BY <1>1, <1>2, <1>3, <1>4, <1>5, <1>7, <3>2
  <2> QED
    BY <2>1, <2>2, <2>3 DEF ItemsInv
<1>9. ExportTypes'
  <2>1. pos' \in 0 .. Len(rows')
    BY <1>1 DEF Visit, HandlerSame
  <2>2. header' \in BOOLEAN /\ broken' \in BOOLEAN /\ buffer' \in Seq(Nat) /\ producer' = "flush" /\ written' = written
    BY <1>0, <1>4, <1>5 DEF ExportTypes, Visit
  <2>3. started' \in {"empty", "ok", "error"}
    BY <1>0 DEF ExportTypes, Visit, Announce
  <2> QED
    BY <1>0, <2>1, <2>2, <2>3 DEF ExportTypes, HandlerSame
<1>10. GoroutineInv'
  <2>1. pos' # 0 /\ pos' > 0 /\ header' /\ announced' /\ producer' = "flush"
    BY <1>1 DEF Visit, Announce
  <2>2. written' = written /\ broken' = broken /\ producer = "query" /\ closed' = closed
    BY DEF Visit, HandlerSame
  <2>3. written = "open" /\ ~broken
    BY <1>0, <2>2 DEF GoroutineInv
  <2> QED
    BY <2>1, <2>2, <2>3 DEF GoroutineInv
<1>11. HandlerInv'
  <2>1. announced' /\ header' /\ producer = "query" /\ producer' = "flush"
    BY DEF Visit, Announce
  <2>2. handler # "clean"
    <3>1. written = "open"
      BY <1>0, <2>1 DEF GoroutineInv
    <3>2. ~broken
      BY <1>0, <3>1 DEF GoroutineInv
    <3> QED
      BY <1>0, <3>1, <3>2 DEF HandlerInv
  <2> QED
    BY <1>0, <2>1, <2>2 DEF HandlerInv, HandlerSame
<1> QED
  BY <1>8, <1>9, <1>10, <1>11 DEF ExportInv

\* The query ends, with all rows or with an error.
LEMMA QueryEndsKeeps == ASSUME ExportInv, QueryEnds, HandlerSame PROVE ExportInv'
<1> DEFINE n == LinesBefore(pos)
<1>0. ExportTypes /\ GoroutineInv /\ ItemsInv /\ HandlerInv
  BY DEF ExportInv
<1>1. rows \in Seq(Nat \ {0}) /\ Len(rows) \in Nat /\ pos \in 0 .. Len(rows) /\ pos = Len(rows)
  BY <1>0, LenProperties DEF ExportTypes, QueryEnds
<1>2. n \in Nat /\ (n = 0 <=> pos = 0)
  BY <1>1, LinesBeforeFacts
<1>3. header \in BOOLEAN /\ (~header => n = 0)
  BY <1>0, <1>1, <1>2 DEF ExportTypes, GoroutineInv
<1>4. /\ buffer' \in Seq(Nat) /\ Len(buffer') = (IF header THEN 0 ELSE 1)
      /\ ~header => buffer'[1] = 0
  BY <1>3 DEF QueryEnds, WriteHeader
<1>6. buffer = <<>> /\ Len(buffer) = 0 /\ Len(sent) \in Nat
  BY <1>0, LenProperties DEF GoroutineInv, QueryEnds, ExportTypes
<1>7. Items = (IF header THEN n + 1 ELSE 0) /\ Items' = n + 1
  BY <1>2 DEF Items, QueryEnds, HandlerSame, LinesBefore
<1> HIDE DEF n
<1>8. ItemsInv'
  <2>1. \A i \in 1 .. Len(sent') : sent'[i] = i - 1
    BY <1>0 DEF ItemsInv, HandlerSame
  <2>2. Len(sent') <= Items'
    BY <1>0, <1>2, <1>3, <1>6, <1>7 DEF ItemsInv, HandlerSame
  <2>3. ASSUME ~closed' \/ handler' = "clean"
        PROVE  /\ Len(sent') + Len(buffer') = Items'
               /\ \A i \in 1 .. Len(buffer') : buffer'[i] = Len(sent') + i - 1
    <3>1. Len(sent) + 0 = (IF header THEN n + 1 ELSE 0)
      BY <1>0, <1>6, <1>7, <2>3 DEF ItemsInv, HandlerSame
    <3>2. Len(sent') = (IF header THEN n + 1 ELSE 0)
      BY <1>6, <3>1 DEF HandlerSame
    <3> QED
      BY <1>2, <1>3, <1>4, <1>7, <3>2
  <2> QED
    BY <2>1, <2>2, <2>3 DEF ItemsInv
<1>9. ExportTypes'
  <2>1. pos' \in 0 .. Len(rows')
    BY <1>1 DEF QueryEnds, HandlerSame
  <2>2. header' \in BOOLEAN /\ broken' \in BOOLEAN /\ producer' = "last" /\ written' = written
    BY <1>0 DEF ExportTypes, QueryEnds
  <2>3. started' \in {"empty", "ok", "error"}
    BY <1>0 DEF ExportTypes, QueryEnds, Announce
  <2> QED
    BY <1>0, <1>4, <2>1, <2>2, <2>3 DEF ExportTypes, HandlerSame
<1>10. GoroutineInv'
  <2>1. header' /\ announced' /\ producer' = "last" /\ pos' = Len(rows')
    BY DEF QueryEnds, Announce, HandlerSame
  <2>2. written' = written /\ broken' = broken /\ producer = "query" /\ closed' = closed
    BY DEF QueryEnds, HandlerSame
  <2>3. written = "open" /\ ~broken
    BY <1>0, <2>2 DEF GoroutineInv
  <2> QED
    BY <2>1, <2>2, <2>3 DEF GoroutineInv
<1>11. HandlerInv'
  <2>1. announced' /\ header' /\ producer = "query" /\ producer' = "last"
    BY DEF QueryEnds, Announce
  <2>2. handler # "clean"
    <3>1. written = "open"
      BY <1>0, <2>1 DEF GoroutineInv
    <3>2. ~broken
      BY <1>0, <3>1 DEF GoroutineInv
    <3> QED
      BY <1>0, <3>1, <3>2 DEF HandlerInv
  <2> QED
    BY <1>0, <2>1, <2>2 DEF HandlerInv, HandlerSame
<1> QED
  BY <1>8, <1>9, <1>10, <1>11 DEF ExportInv

\* The steps of the goroutine that write no item.
LEMMA PipeStepKeeps ==
  ASSUME ExportInv, HandlerSame, Flushed \/ FlushFails \/ QueryFails \/ LastFlushed
  PROVE  ExportInv'
<1>0. ExportTypes /\ GoroutineInv /\ ItemsInv /\ HandlerInv
  BY DEF ExportInv
<1>1. rows' = rows /\ pos' = pos /\ header' = header /\ Items' = Items
  BY DEF HandlerSame, Flushed, FlushFails, QueryFails, LastFlushed, Items, LinesBefore
<1>2. <<>> \in Seq(Nat)
  BY EmptySeq
<1>3. CASE Flushed
  <2>1. ExportTypes'
    BY <1>0, <1>1, <1>3 DEF ExportTypes, HandlerSame, Flushed
  <2>2. GoroutineInv'
    BY <1>0, <1>1, <1>3 DEF GoroutineInv, HandlerSame, Flushed
  <2>3. ItemsInv'
    BY <1>0, <1>1, <1>3 DEF ItemsInv, HandlerSame, Flushed
  <2>4. HandlerInv'
    BY <1>0, <1>1, <1>3 DEF HandlerInv, HandlerSame, Flushed
  <2> QED
    BY <2>1, <2>2, <2>3, <2>4 DEF ExportInv
<1>4. CASE FlushFails
  <2>0. handler # "clean" /\ closed /\ closed' = closed /\ handler' = handler
    BY <1>0, <1>4 DEF HandlerInv, FlushFails, HandlerSame
  <2>1. ExportTypes'
    BY <1>0, <1>1, <1>2, <1>4 DEF ExportTypes, HandlerSame, FlushFails
  <2>2. GoroutineInv'
    BY <1>0, <1>1, <1>4 DEF GoroutineInv, HandlerSame, FlushFails
  <2>3. ItemsInv'
    BY <1>0, <1>1, <1>4, <2>0 DEF ItemsInv, HandlerSame, FlushFails
  <2>4. HandlerInv'
    BY <1>0, <1>1, <1>4, <2>0 DEF HandlerInv, HandlerSame, FlushFails
  <2> QED
    BY <2>1, <2>2, <2>3, <2>4 DEF ExportInv
<1>5. CASE QueryFails
  <2>1. ExportTypes'
    BY <1>0, <1>1, <1>5 DEF ExportTypes, HandlerSame, QueryFails, Announce
  <2>2. GoroutineInv'
    BY <1>0, <1>1, <1>5 DEF GoroutineInv, HandlerSame, QueryFails, Announce
  <2>3. ItemsInv'
    BY <1>0, <1>1, <1>5 DEF ItemsInv, HandlerSame, QueryFails
  <2>4. HandlerInv'
    <3>1. handler # "clean"
      BY <1>0, <1>5 DEF GoroutineInv, HandlerInv, QueryFails
    <3> QED
      BY <1>0, <1>1, <1>5, <3>1 DEF HandlerInv, HandlerSame, QueryFails, Announce
  <2> QED
    BY <2>1, <2>2, <2>3, <2>4 DEF ExportInv
<1>6. CASE LastFlushed
  <2>1. ExportTypes'
    BY <1>0, <1>1, <1>6 DEF ExportTypes, HandlerSame, LastFlushed
  <2>2. GoroutineInv'
    BY <1>0, <1>1, <1>6 DEF GoroutineInv, HandlerSame, LastFlushed
  <2>3. ItemsInv'
    BY <1>0, <1>1, <1>6 DEF ItemsInv, HandlerSame, LastFlushed
  <2>4. HandlerInv'
    BY <1>0, <1>1, <1>6 DEF HandlerInv, HandlerSame, LastFlushed
  <2> QED
    BY <2>1, <2>2, <2>3, <2>4 DEF ExportInv
<1> QED
  BY <1>3, <1>4, <1>5, <1>6

\* The handler's own steps, and the client that leaves.
LEMMA HandlerStepKeeps ==
  ASSUME ExportInv, Handler \/ ClientLeaves PROVE ExportInv'
<1>0. ExportTypes /\ GoroutineInv /\ ItemsInv /\ HandlerInv
  BY DEF ExportInv
<1>1. rows' = rows /\ pos' = pos /\ header' = header /\ Items' = Items
  BY DEF Handler, Find, AwaitStart, CopyPart, CopyFails, CopyEnds, ClientLeaves, prodVars, Items, LinesBefore
<1>2. CASE Find
  <2>1. ExportTypes'
    BY <1>0, <1>1, <1>2 DEF ExportTypes, Find
  <2>2. GoroutineInv'
    BY <1>0, <1>1, <1>2 DEF GoroutineInv, HandlerInv, Find
  <2>3. ItemsInv'
    BY <1>0, <1>1, <1>2 DEF ItemsInv, Find
  <2>4. HandlerInv'
    BY <1>0, <1>1, <1>2 DEF HandlerInv, Find
  <2> QED
    BY <2>1, <2>2, <2>3, <2>4 DEF ExportInv
<1>3. CASE AwaitStart
  <2>1. ExportTypes'
    BY <1>0, <1>1, <1>3 DEF ExportTypes, AwaitStart
  <2>2. GoroutineInv'
    BY <1>0, <1>1, <1>3 DEF GoroutineInv, AwaitStart
  <2>3. ItemsInv'
    BY <1>0, <1>1, <1>3 DEF ItemsInv, HandlerInv, AwaitStart
  <2>4. HandlerInv'
    BY <1>0, <1>1, <1>3 DEF HandlerInv, AwaitStart
  <2> QED
    BY <2>1, <2>2, <2>3, <2>4 DEF ExportInv
<1>4. CASE CopyPart
  <2>1. PICK n \in 1 .. Len(buffer) :
          sent' = sent \o SubSeq(buffer, 1, n) /\ buffer' = SubSeq(buffer, n + 1, Len(buffer))
    BY <1>4 DEF CopyPart
  <2>2. handler = "copy" /\ ~closed /\ handler' = handler /\ closed' = closed /\ buffer # <<>>
    BY <1>0, <1>4 DEF CopyPart, HandlerInv
  <2>3. /\ sent \in Seq(Nat) /\ buffer \in Seq(Nat)
        /\ \A i \in 1 .. Len(sent) : sent[i] = i - 1
        /\ \A i \in 1 .. Len(buffer) : buffer[i] = Len(sent) + i - 1
        /\ Len(sent) + Len(buffer) = Items
    BY <1>0, <2>2 DEF ExportTypes, ItemsInv
  <2>4. /\ sent' \in Seq(Nat) /\ buffer' \in Seq(Nat)
        /\ Len(sent') = Len(sent) + n /\ Len(buffer') = Len(buffer) - n
        /\ \A i \in 1 .. Len(sent') : sent'[i] = i - 1
        /\ \A i \in 1 .. Len(buffer') : buffer'[i] = Len(sent') + i - 1
    BY <2>1, <2>3, PartTaken
  <2>5. Len(sent) \in Nat /\ Len(buffer) \in Nat /\ n \in Nat /\ Len(buffer') \in Nat
    BY <2>3, <2>4, LenProperties
  <2>6. Len(sent') + Len(buffer') = Items' /\ Len(sent') <= Items'
    BY <1>1, <2>3, <2>4, <2>5
  <2>7. ExportTypes'
    BY <1>0, <1>1, <1>4, <2>4 DEF ExportTypes, CopyPart
  <2>8. GoroutineInv'
    BY <1>0, <1>1, <1>4, <2>2 DEF GoroutineInv, CopyPart
  <2>9. ItemsInv'
    BY <2>4, <2>6 DEF ItemsInv
  <2>10. HandlerInv'
    BY <1>0, <1>1, <1>4, <2>2 DEF HandlerInv, CopyPart
  <2> QED
    BY <2>7, <2>8, <2>9, <2>10 DEF ExportInv
<1>5. CASE CopyFails
  <2>1. PICK n \in 1 .. Len(buffer) : buffer' = SubSeq(buffer, n + 1, Len(buffer))
    BY <1>5 DEF CopyFails
  <2>2. buffer' \in Seq(Nat)
    BY <1>0, <2>1, RestLeft DEF ExportTypes
  <2>3. closed' /\ handler' = "left" /\ buffer # <<>> /\ sent' = sent
    BY <1>5 DEF CopyFails
  <2>4. ExportTypes'
    BY <1>0, <1>1, <1>5, <2>2 DEF ExportTypes, CopyFails
  <2>5. GoroutineInv'
    BY <1>0, <1>1, <1>5 DEF GoroutineInv, CopyFails
  <2>6. ItemsInv'
    BY <1>0, <1>1, <2>3 DEF ItemsInv
  <2>7. HandlerInv'
    BY <1>0, <1>1, <1>5, <2>3 DEF HandlerInv, CopyFails
  <2> QED
    BY <2>4, <2>5, <2>6, <2>7 DEF ExportInv
<1>6. CASE CopyEnds
  <2>1. ExportTypes'
    BY <1>0, <1>1, <1>6 DEF ExportTypes, CopyEnds, prodVars
  <2>2. GoroutineInv'
    BY <1>0, <1>1, <1>6 DEF GoroutineInv, CopyEnds, prodVars
  <2>3. ItemsInv'
    BY <1>0, <1>1, <1>6 DEF ItemsInv, HandlerInv, CopyEnds, prodVars
  <2>4. HandlerInv'
    <3>1. written \in {"eof", "error"} /\ ~closed /\ handler = "copy"
      BY <1>0, <1>6 DEF ExportTypes, HandlerInv, CopyEnds
    <3>2. written = "error" => broken
      BY <1>0, <3>1 DEF GoroutineInv
    <3>3. kind \in {"session", "run"}
      BY <1>0, ExportAssumption DEF ExportTypes
    <3> QED
      BY <1>0, <1>1, <1>6, <3>1, <3>2, <3>3 DEF HandlerInv, CopyEnds, prodVars
  <2> QED
    BY <2>1, <2>2, <2>3, <2>4 DEF ExportInv
<1>7. CASE ClientLeaves
  <2>1. /\ kind' = kind /\ producer' = producer /\ announced' = announced /\ buffer' = buffer
        /\ started' = started /\ written' = written /\ broken' = broken /\ closed' = closed
        /\ handler' = handler /\ sent' = sent /\ answer' = answer
    BY <1>7 DEF ClientLeaves, prodVars, handVars
  <2> QED
    BY <1>0, <1>1, <2>1 DEF ExportInv, ExportTypes, GoroutineInv, ItemsInv, HandlerInv
<1> QED
  BY <1>2, <1>3, <1>4, <1>5, <1>6, <1>7 DEF Handler

LEMMA ExportingKeeps == ExportInv /\ [Exporting]_exportVars => ExportInv'
<1> SUFFICES ASSUME ExportInv, [Exporting]_exportVars PROVE ExportInv'
  OBVIOUS
<1>1. CASE Producer
  <2>1. HandlerSame
    BY <1>1 DEF Producer, HandlerSame, handVars
  <2>2. Visit \/ QueryEnds \/ Flushed \/ FlushFails \/ QueryFails \/ LastFlushed
    BY <1>1 DEF Producer, CsvStream, RunCsvStream, Proceed, StreamFails
  <2> QED
    BY <2>1, <2>2, VisitKeeps, QueryEndsKeeps, PipeStepKeeps
<1>2. CASE Handler \/ ClientLeaves
  BY <1>2, HandlerStepKeeps
<1>3. CASE UNCHANGED exportVars
  BY <1>3 DEF exportVars, ExportInv, ExportTypes, GoroutineInv, ItemsInv, HandlerInv, Items, LinesBefore
<1> QED
  BY <1>1, <1>2, <1>3 DEF Exporting

\* An export of any length, to a client that leaves at any time, over a query
\* that fails at any row, is never mistaken for more than it is: a clean end is
\* a complete file, a lone header an empty pool, and a query that failed before
\* its first row is answered with a 503 (csvStream, runCSVStream, Visit).
THEOREM ExportTruthfulHolds == ExportSpec => []ExportTruthful
<1>1. ExportInv => ExportTruthful
  <2> SUFFICES ASSUME ExportInv PROVE ExportTruthful
    OBVIOUS
  <2> DEFINE all == LinesBefore(Len(rows))
  <2>0. ExportTypes /\ GoroutineInv /\ ItemsInv /\ HandlerInv
    BY DEF ExportInv
  <2>1. rows \in Seq(Nat \ {0}) /\ Len(rows) \in Nat /\ pos \in 0 .. Len(rows) /\ Len(rows) \in 0 .. Len(rows)
    BY <2>0, LenProperties DEF ExportTypes
  <2>2. /\ LinesBefore(pos) \in Nat /\ LinesBefore(pos) <= all /\ (LinesBefore(pos) = 0 <=> pos = 0)
        /\ all \in Nat
    BY <2>1, LinesBeforeFacts
  <2>3. sent \in Seq(Nat) /\ Len(sent) \in Nat /\ Len(sent) <= all + 1
    BY <2>0, <2>2, LenProperties DEF ExportTypes, ItemsInv, Items
  <2>4. File \in Seq(Nat) /\ Len(File) = all + 1 /\ \A i \in 1 .. all + 1 : File[i] = i - 1
    <3>1. File = [i \in 1 .. all + 1 |-> i - 1]
      BY Zenon DEF File
    <3> HIDE DEF all
    <3>2. File \in [1 .. all + 1 -> Nat] /\ all + 1 \in Nat /\ \A i \in 1 .. all + 1 : File[i] = i - 1
      BY <2>2, <3>1
    <3> QED
      BY <3>2, SeqDef
  <2> HIDE DEF all
  <2>5. IsPrefix(sent, File)
    <3>1. \A i \in 1 .. Len(sent) : sent[i] \in Nat /\ File[i] \in Nat /\ sent[i] = File[i]
      BY <2>0, <2>2, <2>3, <2>4 DEF ItemsInv
    <3> DEFINE s == SubSeq(sent, 1, Len(sent))
               t == SubSeq(File, 1, Len(sent))
    <3>2. /\ s \in Seq(Nat) /\ Len(s) = (IF 1 <= Len(sent) THEN Len(sent) - 1 + 1 ELSE 0)
          /\ \A i \in 1 .. Len(sent) - 1 + 1 : s[i] = sent[1 + i - 1]
      BY <2>3, <3>1, SubSeqProperties
    <3>3. /\ t \in Seq(Nat) /\ Len(t) = (IF 1 <= Len(sent) THEN Len(sent) - 1 + 1 ELSE 0)
          /\ \A i \in 1 .. Len(sent) - 1 + 1 : t[i] = File[1 + i - 1]
      BY <2>3, <3>1, SubSeqProperties
    <3> HIDE DEF s, t
    <3>4. Len(s) = Len(t) /\ \A i \in 1 .. Len(s) : s[i] = t[i]
      BY <2>3, <3>1, <3>2, <3>3
    <3>5. s = t
      BY <3>2, <3>3, <3>4, SeqEqual
    <3> QED
      BY <2>3, <2>4, <3>5 DEF IsPrefix, s, t
  <2>6. ASSUME handler = "clean"
        PROVE  header /\ Len(sent) = LinesBefore(pos) + 1
    BY <2>0, <2>6, <2>3 DEF HandlerInv, ItemsInv, Items
  <2>7. CleanIsComplete
    <3> SUFFICES ASSUME handler = "clean", kind = "run" \/ ~broken PROVE sent = File
      BY DEF CleanIsComplete
    <3>1. written = "eof"
      BY <2>0 DEF HandlerInv
    <3>2. pos = Len(rows)
      BY <2>0, <3>1 DEF GoroutineInv
    <3>3. Len(sent) = Len(File) /\ \A i \in 1 .. Len(sent) : sent[i] = File[i]
      BY <2>0, <2>4, <2>6, <3>2 DEF ItemsInv, all
    <3> QED
      BY <2>3, <2>4, <3>3, SeqEqual
  <2>8. HeaderOnlyMeansEmpty
    <3> SUFFICES ASSUME handler = "clean", Len(sent) <= 1 PROVE rows = <<>> /\ ~broken
      BY DEF HeaderOnlyMeansEmpty
    <3>1. pos = 0 /\ header
      BY <2>2, <2>6
    <3>2. Len(rows) = 0 /\ ~broken
      BY <2>0, <3>1 DEF GoroutineInv
    <3> QED
      BY <2>1, <3>2, EmptySeq
  <2>9. sent # <<>> => answer = 200
    BY <2>0 DEF HandlerInv, ExportTypes
  <2>10. ASSUME handler \in {"done", "copy", "clean", "aborted", "left"}, broken, pos = 0
         PROVE  answer = 503
    BY <2>0, <2>10 DEF HandlerInv, GoroutineInv
  <2> QED
    BY <2>5, <2>7, <2>8, <2>9, <2>10 DEF ExportTruthful
<1> QED BY <1>1, ExportInitEstablishes, ExportingKeeps, PTL DEF ExportSpec

-----------------------------------------------------------------------------
(* A lookup of an address: five providers, any of which may fail.          *)

\* One lookup on its own: five providers, then the category.
LookupSpec == LookupInit /\ [][LookupProviders]_reputationVars

\* The providers asked so far, the fields each can fill in, and what a partial
\* profile of one of them may hold.
Asked == {Providers[i] : i \in 1 .. asked}
Supplied(p) == CASE p = "ip-api"        -> {"country", "asn", "mobile"}
                 [] p = "proxycheck"    -> {"type", "proxy", "risk"}
                 [] p = "greynoise"     -> {"grey"}
                 [] p = "stopforumspam" -> {"spam", "frequency"}
                 [] OTHER               -> {"listed"}
PartialOf(p, x) ==
  /\ \A f \in Scalars \ Supplied(p) : x[f] = Nil
  /\ p # "dnsbl" => x.hits = {}
  /\ x.signal \in BOOLEAN
  /\ ~x.signal => \A f \in Scalars : x[f] = Nil

\* What each provider can say: the partial profile of every response.
LEMMA IPAPIPartial == ASSUME NEW r \in IPAPIResponses
  PROVE PartialOf("ip-api", IPAPI(r).partial) /\ IPAPI(r).zones = Nil
<1>1. CASE r.status # "success"
  BY <1>1 DEF PartialOf, IPAPI, Failed, Answered, Says, Empty, Fields, Scalars, Supplied
<1>2. CASE r.status = "success"
  <2> DEFINE x == Says([country |-> "DE", asn |-> r.asn, mobile |-> r.mobile])
  <2>1. IPAPI(r).partial = x /\ IPAPI(r).zones = Nil
    BY <1>2 DEF IPAPI, Answered
  <2>2. PartialOf("ip-api", x)
    BY DEF PartialOf, Says, Empty, Fields, Scalars, Supplied
  <2> QED
    BY <2>1, <2>2
<1> QED
  BY <1>1, <1>2

LEMMA EmptyPartial == ASSUME NEW p PROVE PartialOf(p, Empty)
BY DEF PartialOf, Empty, Fields, Scalars

LEMMA ProxyCheckPartial == ASSUME NEW r \in ProxyCheckResponses
  PROVE PartialOf("proxycheck", ProxyCheck(r).partial) /\ ProxyCheck(r).zones = Nil
<1>1. CASE r.status # "ok" \/ ~RiskValid(r.risk)
  BY <1>1, EmptyPartial DEF ProxyCheck, Failed
<1>2. CASE ~(r.status # "ok" \/ ~RiskValid(r.risk))
  <2> DEFINE x == Says([type |-> r.type, proxy |-> r.proxy, risk |-> r.risk])
  <2>1. ProxyCheck(r).partial = x /\ ProxyCheck(r).zones = Nil
    BY <1>2 DEF ProxyCheck, Answered
  <2>2. PartialOf("proxycheck", x)
    BY DEF PartialOf, Says, Empty, Fields, Scalars, Supplied
  <2> QED
    BY <2>1, <2>2
<1> QED
  BY <1>1, <1>2

LEMMA GreyNoisePartial == ASSUME NEW r \in GreyNoiseResponses
  PROVE PartialOf("greynoise", GreyNoise(r).partial) /\ GreyNoise(r).zones = Nil
<1>1. GreyNoise(r) \in {Answered(Empty), Failed, Answered(Says([grey |-> r]))}
  BY DEF GreyNoise
<1>2. PartialOf("greynoise", Says([grey |-> r]))
  BY DEF PartialOf, Says, Empty, Fields, Scalars, Supplied
<1> QED
  BY <1>1, <1>2, EmptyPartial DEF Answered, Failed

LEMMA StopForumSpamPartial == ASSUME NEW r \in StopForumSpamResponses
  PROVE PartialOf("stopforumspam", StopForumSpam(r).partial) /\ StopForumSpam(r).zones = Nil
<1> DEFINE x == [Empty EXCEPT !.spam = IF r.appears = Nil THEN Nil ELSE r.appears # 0,
                   !.frequency = r.frequency, !.signal = r.appears # Nil \/ r.frequency # Nil]
<1>1. CASE r.success # 1
  BY <1>1, EmptyPartial DEF StopForumSpam, Failed
<1>2. CASE r.success = 1
  <2>1. StopForumSpam(r).partial = x /\ StopForumSpam(r).zones = Nil
    BY <1>2 DEF StopForumSpam, Answered
  <2>2. PartialOf("stopforumspam", x)
    BY DEF PartialOf, Empty, Fields, Scalars, Supplied
  <2> QED
    BY <2>1, <2>2
<1> QED
  BY <1>1, <1>2

LEMMA DNSBLPartial == ASSUME NEW r \in [Zones -> ZoneAnswers]
  PROVE  /\ PartialOf("dnsbl", DNSBL(r).partial)
         /\ DNSBL(r).zones # Nil =>
              /\ v4 /\ DNSBL(r).zones = r
              /\ DNSBL(r).err <=> \E z \in Zones : ~Useful(r[z])
              /\ DNSBL(r).partial.hits = {z \in Zones : ZoneListed(z, r[z])}
              /\ DNSBL(r).partial.listed =
                   IF \E z \in Zones : Useful(r[z]) THEN {z \in Zones : ZoneListed(z, r[z])} # {} ELSE Nil
<1> DEFINE hits == {z \in Zones : ZoneListed(z, r[z])}
           x == [Says([listed |-> hits # {}]) EXCEPT !.hits = hits,
                          !.dynamic = \E z \in Zones : Dynamic(z, r[z])]
<1>1. CASE ~v4
  BY <1>1, EmptyPartial DEF DNSBL, Answered
<1>2. CASE v4
  <2>1. /\ DNSBL(r).zones = r /\ DNSBL(r).err = (\E z \in Zones : ~Useful(r[z]))
        /\ DNSBL(r).partial = IF \E z \in Zones : Useful(r[z]) THEN x ELSE Empty
    BY <1>2 DEF DNSBL
  <2> HIDE DEF hits
  <2>2. PartialOf("dnsbl", x) /\ x.hits = hits /\ x.listed = (hits # {})
    BY DEF PartialOf, Says, Empty, Fields, Scalars, Supplied
  <2>3. Empty.hits = {} /\ Empty.listed = Nil
    BY DEF Empty, Fields, Scalars
  <2>4. (~ \E z \in Zones : Useful(r[z])) => hits = {}
    BY DEF hits, ZoneListed
  <2> HIDE DEF x
  <2> QED
    BY <1>2, <2>1, <2>2, <2>3, <2>4, EmptyPartial DEF hits
<1> QED
  BY <1>1, <1>2

(***************************************************************************)
(* The inductive invariant.  That nothing said is lost in the merge needs  *)
(* that each provider keeps to its own fields: then a later answer never   *)
(* overwrites an earlier one, although MergeField would let it.  The signal *)
(* of the merged profile is the disjunction of those that were merged, which *)
(* is what makes "unknown" mean that nobody answered.                      *)
(***************************************************************************)
LookupPlaces ==
  /\ asked \in 0 .. 5 /\ DOMAIN said = Asked /\ errs \subseteq Asked
  /\ category # Nil => asked = 5
  /\ zoneSaid # Nil => asked = 5
  /\ \A p \in DOMAIN said : PartialOf(p, said[p])
SignalKept ==
  /\ merged.signal \in BOOLEAN
  /\ merged.signal <=> \E p \in DOMAIN said : said[p].signal
LookupInv == LookupPlaces /\ SignalKept /\ VerdictFollowsEvidence

\* The providers are asked in one order, each once, the blocklists last.
LEMMA AskedGrows ==
  ASSUME NEW n \in 0 .. 4
  PROVE  /\ Providers[n + 1] \in {"ip-api", "proxycheck", "greynoise", "stopforumspam", "dnsbl"}
         /\ {Providers[i] : i \in 1 .. n + 1} = {Providers[i] : i \in 1 .. n} \cup {Providers[n + 1]}
         /\ Providers[n + 1] \notin {Providers[i] : i \in 1 .. n}
         /\ Providers[n + 1] = "dnsbl" <=> n = 4
BY DEF Providers

LEMMA AllAsked == {Providers[i] : i \in 1 .. 5} = {"ip-api", "proxycheck", "greynoise", "stopforumspam", "dnsbl"}
BY DEF Providers

\* No two providers supply the same field.
LEMMA SuppliedDiffer ==
  ASSUME NEW p \in {"ip-api", "proxycheck", "greynoise", "stopforumspam", "dnsbl"},
         NEW q \in {"ip-api", "proxycheck", "greynoise", "stopforumspam", "dnsbl"}, p # q
  PROVE  Supplied(p) \cap Supplied(q) = {}
BY DEF Supplied

LEMMA LookupInitEstablishes == LookupInit => LookupInv
<1> SUFFICES ASSUME LookupInit PROVE LookupInv
  OBVIOUS
<1>1. DOMAIN said = {} /\ Asked = {} /\ merged = Empty /\ errs = {} /\ category = Nil /\ zoneSaid = Nil /\ asked = 0
  BY DEF LookupInit, Asked
<1>2. Empty.hits = {} /\ Empty.signal = FALSE /\ \A f \in Scalars : Empty[f] = Nil
  BY DEF Empty, Fields, Scalars
<1>3. UNION {said[p].hits : p \in DOMAIN said} = {}
  BY <1>1
<1>4. LookupPlaces /\ SignalKept
  <2>1. asked \in 0 .. 5 /\ DOMAIN said = Asked /\ errs \subseteq Asked
    BY <1>1
  <2>2. LookupPlaces
    BY <1>1, <2>1 DEF LookupPlaces
  <2>3. merged.signal = FALSE
    BY <1>1, <1>2
  <2>4. SignalKept
    BY <1>1, <2>3, Zenon DEF SignalKept
  <2> QED
    BY <2>2, <2>4
<1>5. EvidenceKept
  BY <1>1, <1>2, <1>3 DEF EvidenceKept
<1>6. CategoryFollowsEvidence /\ BlocklistVerdict
  BY <1>1 DEF CategoryFollowsEvidence, BlocklistVerdict
<1> QED
  BY <1>4, <1>5, <1>6 DEF LookupInv, VerdictFollowsEvidence

LEMMA OutcomePartial ==
  ASSUME NEW p \in {"ip-api", "proxycheck", "greynoise", "stopforumspam", "dnsbl"}, NEW o \in Outcomes(p)
  PROVE  /\ PartialOf(p, o.partial)
         /\ o.zones # Nil => p = "dnsbl" /\ \E r \in [Zones -> ZoneAnswers] : o = DNSBL(r)
<1>1. CASE p = "ip-api"
  BY <1>1, IPAPIPartial DEF Outcomes
<1>2. CASE p = "proxycheck"
  BY <1>2, ProxyCheckPartial DEF Outcomes
<1>3. CASE p = "greynoise"
  BY <1>3, GreyNoisePartial DEF Outcomes
<1>4. CASE p = "stopforumspam"
  BY <1>4, StopForumSpamPartial DEF Outcomes
<1>5. CASE p = "dnsbl"
  <2>1. PICK r \in [Zones -> ZoneAnswers] : o = DNSBL(r)
    BY <1>5 DEF Outcomes
  <2> QED
    BY <1>5, <2>1, DNSBLPartial
<1> QED
  BY <1>1, <1>2, <1>3, <1>4, <1>5

\* When an answer of a zone is useful, and when it lists the address.
LEMMA ZoneVerdict ==
  ASSUME NEW z, NEW r \in ZoneAnswers
  PROVE  /\ Useful(r) <=> r \notin {{"error"}, {"listed", "rateLimit"}}
         /\ ZoneListed(z, r) <=> Useful(r) /\ r # {"notFound"} /\ ("listed" \in r \/ z # "zen")
<1>1. CASE r = {"error"}
  BY <1>1 DEF Useful, ZoneListed
<1>2. CASE r = {"notFound"}
  BY <1>2 DEF Useful, ZoneListed
<1>3. CASE r = {"dynamic"}
  BY <1>3 DEF Useful, ZoneListed
<1>4. CASE r = {"dynamic", "listed"}
  BY <1>4 DEF Useful, ZoneListed
<1>5. CASE r = {"listed", "rateLimit"}
  BY <1>5 DEF Useful, ZoneListed
<1> QED
  BY <1>1, <1>2, <1>3, <1>4, <1>5 DEF ZoneAnswers

LEMMA MergedFields ==
  ASSUME NEW x, NEW y
  PROVE  /\ \A f \in Scalars : Merge(x, y)[f] = IF y[f] = Nil THEN x[f] ELSE y[f]
         /\ Merge(x, y).hits = x.hits \cup y.hits
         /\ Merge(x, y).signal = (x.signal \/ y.signal)
BY DEF Merge, MergeField, UnionStrings, Fields, Scalars

\* One provider more: what it says overwrites nothing, since no other
\* provider supplies its fields.
LEMMA AskNextKeeps == ASSUME LookupInv, AskNext PROVE LookupInv'
<1> DEFINE p == Providers[asked + 1]
<1>0. LookupPlaces /\ SignalKept /\ EvidenceKept /\ CategoryFollowsEvidence /\ BlocklistVerdict
  BY DEF LookupInv, VerdictFollowsEvidence
<1>1. asked \in 0 .. 4 /\ asked' = asked + 1 /\ asked' \in 0 .. 5 /\ category = Nil /\ category' = Nil
  BY <1>0 DEF LookupPlaces, AskNext, Providers
<1>2. PICK o \in Outcomes(p) :
        /\ merged' = Merge(merged, o.partial)
        /\ errs' = IF o.err THEN errs \cup {p} ELSE errs
        /\ said' = [q \in DOMAIN said \cup {p} |-> IF q = p THEN o.partial ELSE said[q]]
        /\ zoneSaid' = o.zones
  BY DEF AskNext
<1>3. /\ p \in {"ip-api", "proxycheck", "greynoise", "stopforumspam", "dnsbl"}
      /\ Asked' = Asked \cup {p} /\ p \notin Asked /\ (p = "dnsbl" <=> asked = 4)
  BY <1>1, AskedGrows DEF Asked
<1>4. Asked \subseteq {"ip-api", "proxycheck", "greynoise", "stopforumspam", "dnsbl"}
  <2>1. Asked \subseteq {Providers[i] : i \in 1 .. 5}
    BY <1>1 DEF Asked
  <2> QED
    BY <2>1, AllAsked
<1>5. /\ PartialOf(p, o.partial)
      /\ o.zones # Nil => p = "dnsbl" /\ \E r \in [Zones -> ZoneAnswers] : o = DNSBL(r)
  BY <1>3, OutcomePartial
<1> HIDE DEF p
<1>6. /\ DOMAIN said = Asked /\ DOMAIN said' = Asked \cup {p}
      /\ said'[p] = o.partial /\ \A q \in Asked : said'[q] = said[q]
  BY <1>0, <1>2, <1>3 DEF LookupPlaces
<1>7. LookupPlaces'
  <2>1. \A q \in DOMAIN said' : PartialOf(q, said'[q])
    BY <1>0, <1>5, <1>6 DEF LookupPlaces
  <2>2. errs' \subseteq Asked'
    BY <1>0, <1>2, <1>3 DEF LookupPlaces
  <2>3. zoneSaid' # Nil => asked' = 5
    BY <1>1, <1>2, <1>3, <1>5
  <2> QED
    BY <1>1, <1>3, <1>6, <2>1, <2>2, <2>3 DEF LookupPlaces
<1>8. /\ \A f \in Scalars : merged'[f] = IF o.partial[f] = Nil THEN merged[f] ELSE o.partial[f]
      /\ merged'.hits = merged.hits \cup o.partial.hits
      /\ merged'.signal = (merged.signal \/ o.partial.signal)
  BY <1>2, MergedFields
<1>9. SignalKept'
  <2>1. merged.signal \in BOOLEAN /\ o.partial.signal \in BOOLEAN
    BY <1>0, <1>5 DEF SignalKept, PartialOf
  <2>2. merged.signal <=> \E q \in Asked : said[q].signal
    BY <1>0, <1>6 DEF SignalKept
  <2>3. (\E q \in Asked \cup {p} : said'[q].signal) <=> (\E q \in Asked : said[q].signal) \/ o.partial.signal
    BY <1>6
  <2>4. merged'.signal \in BOOLEAN
    BY <1>8
  <2> QED
    BY <1>6, <1>8, <2>1, <2>2, <2>3, <2>4 DEF SignalKept
<1>10. ASSUME NEW q \in Asked, NEW f \in Scalars, said[q][f] # Nil
       PROVE  o.partial[f] = Nil
  <2>1. PartialOf(q, said[q]) /\ q # p
    BY <1>0, <1>3, <1>6 DEF LookupPlaces
  <2>2. f \in Supplied(q)
    BY <1>10, <2>1 DEF PartialOf
  <2>3. f \notin Supplied(p)
    BY <1>3, <1>4, <2>1, <2>2, SuppliedDiffer
  <2> QED
    BY <1>5, <2>3 DEF PartialOf
<1>11. EvidenceKept'
  <2>1. ASSUME NEW q \in DOMAIN said', NEW f \in Scalars, said'[q][f] # Nil
        PROVE  merged'[f] = said'[q][f]
    <3>1. CASE q = p
      BY <1>6, <1>8, <2>1, <3>1
    <3>2. CASE q \in Asked
      <4>1. said[q][f] # Nil /\ said'[q] = said[q]
        BY <1>6, <2>1, <3>2
      <4>2. merged[f] = said[q][f]
        BY <1>0, <1>6, <3>2, <4>1 DEF EvidenceKept
      <4>3. o.partial[f] = Nil
        BY <1>10, <3>2, <4>1
      <4> QED
        BY <1>8, <4>1, <4>2, <4>3
    <3> QED
      BY <1>6, <2>1, <3>1, <3>2
  <2>2. ASSUME NEW f \in Scalars, merged'[f] # Nil
        PROVE  \E q \in DOMAIN said' : said'[q][f] = merged'[f]
    <3>1. CASE o.partial[f] = Nil
      <4>1. merged'[f] = merged[f]
        BY <1>8, <3>1
      <4>2. PICK q \in Asked : said[q][f] = merged[f]
        BY <1>0, <1>6, <2>2, <4>1 DEF EvidenceKept
      <4> QED
        BY <1>6, <4>1, <4>2
    <3>2. CASE o.partial[f] # Nil
      BY <1>6, <1>8, <3>2
    <3> QED
      BY <3>1, <3>2
  <2>3. merged'.hits = UNION {said'[q].hits : q \in DOMAIN said'}
    <3>1. merged.hits = UNION {said[q].hits : q \in Asked}
      BY <1>0, <1>6 DEF EvidenceKept
    <3>2. UNION {said'[q].hits : q \in Asked \cup {p}} = (UNION {said[q].hits : q \in Asked}) \cup o.partial.hits
      BY <1>6
    <3> QED
      BY <1>6, <1>8, <3>1, <3>2
  <2> QED
    BY <2>1, <2>2, <2>3 DEF EvidenceKept
<1>12. CategoryFollowsEvidence'
  BY <1>1 DEF CategoryFollowsEvidence
<1>13. BlocklistVerdict'
  <2> SUFFICES ASSUME zoneSaid' # Nil PROVE BlocklistVerdict'
    BY DEF BlocklistVerdict
  <2> DEFINE spoke == {z \in Zones : zoneSaid'[z] \notin {{"error"}, {"listed", "rateLimit"}}}
             lists == {z \in spoke : zoneSaid'[z] # {"notFound"} /\ ("listed" \in zoneSaid'[z] \/ z # "zen")}
  <2>1. PICK r \in [Zones -> ZoneAnswers] : o = DNSBL(r) /\ p = "dnsbl"
    BY <1>2, <1>5
  <2>2. /\ v4 /\ o.zones = r
        /\ o.err <=> \E z \in Zones : ~Useful(r[z])
        /\ o.partial.hits = {z \in Zones : ZoneListed(z, r[z])}
        /\ o.partial.listed =
              IF \E z \in Zones : Useful(r[z]) THEN {z \in Zones : ZoneListed(z, r[z])} # {} ELSE Nil
    BY <1>2, <2>1, DNSBLPartial
  <2>3. \A z \in Zones : r[z] \in ZoneAnswers /\ zoneSaid'[z] = r[z]
    BY <1>2, <2>2
  <2>4. spoke = {z \in Zones : Useful(r[z])}
    BY <2>3, ZoneVerdict
  <2>5. lists = {z \in Zones : ZoneListed(z, r[z])}
    BY <2>3, ZoneVerdict
  <2>6. merged.hits = {} /\ merged.listed = Nil
    <3>1. \A q \in Asked : q # "dnsbl" /\ q \in {"ip-api", "proxycheck", "greynoise", "stopforumspam"}
      BY <1>3, <1>4, <2>1
    <3>2. \A q \in Asked : said[q].hits = {} /\ said[q].listed = Nil
      BY <1>0, <1>6, <3>1 DEF LookupPlaces, PartialOf, Supplied, Scalars
    <3>3. merged.hits = UNION {said[q].hits : q \in Asked}
      BY <1>0, <1>6 DEF EvidenceKept
    <3>4. merged.listed # Nil => \E q \in Asked : said[q].listed = merged.listed
      BY <1>0, <1>6 DEF EvidenceKept, Scalars
    <3> QED
      BY <3>2, <3>3, <3>4
  <2> HIDE DEF spoke, lists
  <2>7. merged'.hits = lists
    BY <1>8, <2>2, <2>5, <2>6
  <2>8. merged'.listed = IF spoke = {} THEN Nil ELSE lists # {}
    <3>1. merged'.listed = o.partial.listed
      BY <1>8, <2>6 DEF Scalars
    <3>2. (\E z \in Zones : Useful(r[z])) <=> spoke # {}
      BY <2>4
    <3>3. o.partial.listed = IF spoke # {} THEN lists # {} ELSE Nil
      BY <2>2, <2>5, <3>2, Zenon
    <3> QED
      BY <3>1, <3>3
  <2>9. "dnsbl" \in errs' <=> spoke # Zones
    <3>1. "dnsbl" \notin errs
      BY <1>0, <1>3, <2>1 DEF LookupPlaces
    <3>2. "dnsbl" \in errs' <=> o.err
      BY <1>2, <2>1, <3>1
    <3>3. (\E z \in Zones : ~Useful(r[z])) <=> spoke # Zones
      BY <2>4
    <3> QED
      BY <2>2, <3>2, <3>3
  <2> QED
    BY <2>7, <2>8, <2>9 DEF BlocklistVerdict, spoke, lists
<1> QED
  BY <1>7, <1>9, <1>11, <1>12, <1>13 DEF LookupInv, VerdictFollowsEvidence

\* All five have been asked: the category follows from two of them.
LEMMA ClassifyKeeps == ASSUME LookupInv, Classify PROVE LookupInv'
<1>0. LookupPlaces /\ SignalKept /\ EvidenceKept /\ CategoryFollowsEvidence /\ BlocklistVerdict
  BY DEF LookupInv, VerdictFollowsEvidence
<1>1. /\ asked = 5 /\ category' = ClassifyPartial(merged) /\ asked' = asked /\ merged' = merged
      /\ errs' = errs /\ said' = said /\ zoneSaid' = zoneSaid
  BY DEF Classify, Providers
<1>2. DOMAIN said = {"ip-api", "proxycheck", "greynoise", "stopforumspam", "dnsbl"}
  BY <1>0, <1>1, AllAsked DEF LookupPlaces, Asked
<1>3. ASSUME NEW p \in DOMAIN said, NEW f \in Supplied(p) \cap Scalars
      PROVE  merged[f] = said[p][f]
  <2>1. CASE said[p][f] # Nil
    BY <1>0, <2>1 DEF EvidenceKept
  <2>2. CASE said[p][f] = Nil /\ merged[f] # Nil
    <3>1. PICK q \in DOMAIN said : said[q][f] = merged[f]
      BY <1>0, <2>2 DEF EvidenceKept
    <3>2. f \in Supplied(q)
      BY <1>0, <2>2, <3>1 DEF LookupPlaces, PartialOf
    <3>3. q = p
      BY <1>2, <3>2, SuppliedDiffer
    <3> QED
      BY <2>2, <3>1, <3>3
  <2> QED
    BY <2>1, <2>2
<1>4. /\ merged.asn = said["ip-api"].asn /\ merged.mobile = said["ip-api"].mobile
      /\ merged.type = said["proxycheck"].type
  <2>1. {"asn", "mobile"} \subseteq Supplied("ip-api") \cap Scalars /\ "type" \in Supplied("proxycheck") \cap Scalars
    BY DEF Supplied, Scalars
  <2>2. "ip-api" \in DOMAIN said /\ "proxycheck" \in DOMAIN said
    BY <1>2
  <2> QED
    BY <1>3, <2>1, <2>2
<1> DEFINE hosting == said["ip-api"].asn = "hosting" \/ said["proxycheck"].type = "hosting"
           mobile  == said["ip-api"].mobile = TRUE \/ said["proxycheck"].type = "wireless"
           signal  == merged.signal
<1>5. hosting \/ mobile => signal
  <2>1. ASSUME NEW p \in DOMAIN said, NEW f \in Scalars, said[p][f] # Nil PROVE merged.signal
    BY <1>0, <2>1 DEF LookupPlaces, PartialOf, SignalKept
  <2>2. "ip-api" \in DOMAIN said /\ "proxycheck" \in DOMAIN said /\ {"asn", "mobile", "type"} \subseteq Scalars
    BY <1>2 DEF Scalars
  <2> QED
    BY <2>1, <2>2, ReputationAssumption
<1>6. /\ category' = "unknown" <=> ~signal
      /\ category' = "datacenter" <=> hosting
      /\ category' = "mobile" <=> mobile /\ ~hosting
  BY <1>1, <1>4, <1>5 DEF ClassifyPartial, IsDatacenterType, HasDatacenterASN
<1>7. CategoryFollowsEvidence'
  <2>1. signal <=> ~ \A p \in DOMAIN said : ~said[p].signal
    BY <1>0 DEF SignalKept
  <2> QED
    BY <1>1, <1>6, <2>1 DEF CategoryFollowsEvidence
<1> QED
  BY <1>0, <1>1, <1>7 DEF LookupInv, VerdictFollowsEvidence, LookupPlaces, SignalKept, EvidenceKept, BlocklistVerdict, Asked

\* Whatever the five providers answer and whichever fail, nothing they said is
\* lost in the merge, the category follows from it, and the blocklists' verdict
\* is that of the zones that could answer, for every set of zones.
THEOREM VerdictFollowsEvidenceHolds == LookupSpec => []VerdictFollowsEvidence
<1>1. LookupInv /\ [LookupProviders]_reputationVars => LookupInv'
  <2> SUFFICES ASSUME LookupInv, [LookupProviders]_reputationVars PROVE LookupInv'
    OBVIOUS
  <2>1. CASE UNCHANGED reputationVars
    BY <2>1 DEF reputationVars, LookupInv, VerdictFollowsEvidence, LookupPlaces, SignalKept, EvidenceKept,
       CategoryFollowsEvidence, BlocklistVerdict, Asked
  <2> QED
    BY <2>1, AskNextKeeps, ClassifyKeeps DEF LookupProviders
<1>2. LookupInv => VerdictFollowsEvidence
  BY DEF LookupInv
<1> QED BY <1>1, <1>2, LookupInitEstablishes, PTL DEF LookupSpec

-----------------------------------------------------------------------------
(* The reports of a run and of its sessions.                               *)

\* The reports of one run, over any database state.
ReportSpec == ReportInit /\ [][Reporting]_reportVars

(***************************************************************************)
(* The inductive invariant: the rows loaded are all rows, or exactly as many *)
(* as the limit; the reports, once built, are the code's functions of them. *)
(* What the properties say is then a matter of counting: each report reaches *)
(* its numbers along a way of its own (rows, addresses, cells, weights), and *)
(* the lemmas relate the ways.                                             *)
(***************************************************************************)
ReportData ==
  /\ sessionIPs \in [Variants \X Addresses -> Sightings]
  /\ stage # "new" => loaded \in SUBSET Rows /\ (loaded = Rows \/ Cardinality(loaded) = MaxReportObservations)
ReportBuilt ==
  stage = "built" =>
    /\ \E details \in SUBSET PoolRows(loaded) : pool = BuildPoolReport(loaded, details)
    /\ bySession = [v \in Variants |-> AddIPRecords(v)]
    /\ exported = StreamPoolIPs
ReportInv == ReportData /\ ReportBuilt

LEMMA RowsFinite ==
  IsFiniteSet(Variants \X Addresses) /\ IsFiniteSet(Rows)
  /\ \A keys \in SUBSET Rows : IsFiniteSet(keys) /\ Cardinality(keys) \in Nat
<1>1. IsFiniteSet(Variants \X Addresses)
  BY PoolReportAssumption, FS_Product
<1>2. Rows \in SUBSET (Variants \X Addresses)
  BY DEF Rows
<1>3. IsFiniteSet(Rows)
  BY <1>1, <1>2, FS_Subset, Zenon
<1>4. \A keys \in SUBSET Rows : IsFiniteSet(keys)
  BY <1>3, FS_Subset, Zenon
<1> QED
  BY <1>1, <1>3, <1>4, FS_CardinalityType

LEMMA ReportInitEstablishes == ReportInit => ReportInv
BY DEF ReportInit, ReportInv, ReportData, ReportBuilt

\* The query is limited: all rows are loaded, or as many as the limit allows.
LEMMA LoadKeeps == ASSUME ReportInv, LoadObservations PROVE ReportInv'
<1>1. Rows' = Rows /\ sessionIPs' = sessionIPs /\ stage' = "loaded"
  BY DEF LoadObservations, Rows
<1>2. loaded' \in SUBSET Rows /\ (loaded' = Rows \/ Cardinality(loaded') = MaxReportObservations)
  <2>1. CASE Cardinality(Rows) <= MaxReportObservations
    BY <2>1 DEF LoadObservations
  <2>2. CASE ~(Cardinality(Rows) <= MaxReportObservations)
    BY <2>2 DEF LoadObservations, kSubset
  <2> QED
    BY <2>1, <2>2
<1> QED
  BY <1>1, <1>2 DEF ReportInv, ReportData, ReportBuilt

\* The three reports are built from one state of the database.
LEMMA BuildKeeps == ASSUME ReportInv, BuildReports PROVE ReportInv'
<1>1. /\ sessionIPs' = sessionIPs /\ cache' = cache /\ wanted' = wanted /\ loaded' = loaded
      /\ stage = "loaded" /\ stage' = "built"
  BY DEF BuildReports
<1>2. PICK details \in CapIPRows(PoolRows(loaded)) : pool' = BuildPoolReport(loaded, details)
  BY DEF BuildReports
<1>3. details \in SUBSET PoolRows(loaded)
  BY <1>2 DEF CapIPRows, kSubset
<1>4. /\ bySession' = [v \in Variants |-> AddIPRecords(v)]
      /\ exported' = StreamPoolIPs
  BY DEF BuildReports
<1>5. Rows' = Rows
  BY <1>1 DEF Rows
<1>6. /\ PoolRows(loaded)' = PoolRows(loaded)
      /\ BuildPoolReport(loaded, details)' = BuildPoolReport(loaded, details)
  BY <1>1 DEF BuildPoolReport, PoolRows, NewIPRow, ReputationCategory, ReputationFlagged, Weight,
     Heaviest, Values, Dominant, VariantHonor, HonorRate, Cell, Cells
<1>7. /\ StreamPoolIPs' = StreamPoolIPs
      /\ [v \in Variants |-> AddIPRecords(v)]' = [v \in Variants |-> AddIPRecords(v)]
  BY <1>1 DEF StreamPoolIPs, AddIPRecords, NewIPRow, ReputationCategory, Rows
<1>8. ReportData'
  BY <1>1, <1>5 DEF ReportInv, ReportData
<1>9. ReportBuilt'
  BY <1>1, <1>2, <1>3, <1>4, <1>6, <1>7 DEF ReportBuilt
<1> QED
  BY <1>8, <1>9 DEF ReportInv

LEMMA ReportingKeeps == ReportInv /\ [Reporting]_reportVars => ReportInv'
<1> SUFFICES ASSUME ReportInv, UNCHANGED reportVars PROVE ReportInv'
  BY LoadKeeps, BuildKeeps DEF Reporting
<1>1. /\ sessionIPs' = sessionIPs /\ cache' = cache /\ wanted' = wanted /\ loaded' = loaded
      /\ stage' = stage /\ pool' = pool /\ bySession' = bySession /\ exported' = exported
  BY DEF reportVars
<1>2. ReportData'
  BY <1>1 DEF ReportInv, ReportData, Rows
<1>3. ReportBuilt'
  <2> SUFFICES ASSUME stage = "built" PROVE ReportBuilt'
    BY <1>1 DEF ReportBuilt
  <2>1. PICK details \in SUBSET PoolRows(loaded) : pool = BuildPoolReport(loaded, details)
    BY DEF ReportInv, ReportBuilt
  <2>2. /\ PoolRows(loaded)' = PoolRows(loaded)
        /\ BuildPoolReport(loaded, details)' = BuildPoolReport(loaded, details)
    BY <1>1 DEF BuildPoolReport, PoolRows, NewIPRow, ReputationCategory, ReputationFlagged, Weight,
       Heaviest, Values, Dominant, VariantHonor, HonorRate, Cell, Cells
  <2>3. /\ StreamPoolIPs' = StreamPoolIPs
        /\ [v \in Variants |-> AddIPRecords(v)]' = [v \in Variants |-> AddIPRecords(v)]
    BY <1>1 DEF StreamPoolIPs, AddIPRecords, NewIPRow, ReputationCategory, Rows
  <2> QED
    BY <1>1, <2>1, <2>2, <2>3 DEF ReportInv, ReportBuilt
<1> QED
  BY <1>2, <1>3 DEF ReportInv

LEMMA RowFields == ASSUME NEW a, NEW keys
  PROVE /\ NewIPRow(a, keys).ip = a
        /\ NewIPRow(a, keys).category = NormalizeCategory(ReputationCategory(a))
        /\ NewIPRow(a, keys).risk = IF cache[a] = Nil THEN Nil ELSE cache[a].risk
        /\ NewIPRow(a, keys).listed = (cache[a] # Nil /\ BoolValue(cache[a].listed))
BY DEF NewIPRow

\* The rows of a report stand for its addresses, one for one.
LEMMA SeenFinite == ASSUME NEW keys \in SUBSET Rows PROVE IsFiniteSet(Seen(keys)) /\ Cardinality(Seen(keys)) \in Nat
<1>1. IsFiniteSet(keys)
  BY RowsFinite
<1>2. [k \in keys |-> k[2]] \in Surjection(keys, Seen(keys))
  BY DEF Surjection, Seen
<1> QED
  BY <1>1, <1>2, FS_Surjection, FS_CardinalityType

\* Rows that carry different addresses are as many as their addresses.
LEMMA CountByAddress ==
  ASSUME NEW A, IsFiniteSet(A), NEW row, \A a \in A : row[a].ip = a
  PROVE  IsFiniteSet({row[a] : a \in A}) /\ Cardinality({row[a] : a \in A}) = Cardinality(A)
<1> DEFINE f == [a \in A |-> row[a]]
           R == {row[a] : a \in A}
<1>1. f \in [A -> R] /\ \A a, b \in A : f[a] = f[b] => a = b
  OBVIOUS
<1>2. f \in Surjection(A, R)
  BY DEF Surjection
<1>3. f \in Injection(A, R)
  BY <1>1 DEF Injection, IsInjective
<1> QED
  BY <1>2, <1>3, FS_Surjection

LEMMA PoolRowsCount ==
  ASSUME NEW keys \in SUBSET Rows
  PROVE  Cardinality(PoolRows(keys)) = Cardinality(Seen(keys))
<1> DEFINE row == [a \in Seen(keys) |-> NewIPRow(a, SightingsOf(a, keys))]
<1>1. PoolRows(keys) = {row[a] : a \in Seen(keys)}
  BY DEF PoolRows
<1>2. \A a \in Seen(keys) : row[a].ip = a
  BY RowFields
<1> HIDE DEF row
<1> QED
  BY <1>1, <1>2, SeenFinite, CountByAddress

\* The rows, and the addresses, of one category.
CategoryRows(row, A, c) == {r \in {row[a] : a \in A} : r.category = c}
InCategory(A, c) == {a \in A : NormalizeCategory(ReputationCategory(a)) = c}

LEMMA CategoryCount ==
  ASSUME NEW A, IsFiniteSet(A), NEW row, NEW c,
         \A a \in A : row[a].ip = a /\ row[a].category = NormalizeCategory(ReputationCategory(a))
  PROVE  Cardinality(CategoryRows(row, A, c)) = Cardinality(InCategory(A, c))
<1> DEFINE B == {a \in A : NormalizeCategory(ReputationCategory(a)) = c}
<1>1. CategoryRows(row, A, c) = {row[a] : a \in B}
  BY DEF CategoryRows
<1>2. IsFiniteSet(B)
  BY FS_Subset
<1>3. \A a \in B : row[a].ip = a
  OBVIOUS
<1> HIDE DEF B
<1>4. Cardinality({row[a] : a \in B}) = Cardinality(B)
  BY <1>2, <1>3, CountByAddress
<1> QED
  BY <1>1, <1>4 DEF B, InCategory

\* The composition counts addresses by category, and nothing else of a row.
LEMMA OneComposition ==
  ASSUME NEW keys \in SUBSET Rows
  PROVE  CompositionOf(PoolRows(keys)) =
           CompositionOf({[ip |-> a, category |-> NormalizeCategory(ReputationCategory(a))] : a \in Seen(keys)})
<1> DEFINE row == [a \in Seen(keys) |-> NewIPRow(a, SightingsOf(a, keys))]
           rec == [a \in Seen(keys) |-> [ip |-> a, category |-> NormalizeCategory(ReputationCategory(a))]]
           S   == {[ip |-> a, category |-> NormalizeCategory(ReputationCategory(a))] : a \in Seen(keys)}
<1>1. PoolRows(keys) = {row[a] : a \in Seen(keys)} /\ S = {rec[a] : a \in Seen(keys)}
  BY DEF PoolRows
<1>2. \A a \in Seen(keys) : /\ row[a].ip = a /\ row[a].category = NormalizeCategory(ReputationCategory(a))
                            /\ rec[a].ip = a /\ rec[a].category = NormalizeCategory(ReputationCategory(a))
  BY RowFields
<1> HIDE DEF row, rec, S
<1>3. IsFiniteSet(Seen(keys))
  BY SeenFinite
<1>4. ASSUME NEW c
      PROVE  Cardinality({r \in PoolRows(keys) : r.category = c}) = Cardinality({r \in S : r.category = c})
  <2>1. Cardinality(CategoryRows(row, Seen(keys), c)) = Cardinality(InCategory(Seen(keys), c))
    BY <1>2, <1>3, CategoryCount
  <2>2. Cardinality(CategoryRows(rec, Seen(keys), c)) = Cardinality(InCategory(Seen(keys), c))
    BY <1>2, <1>3, CategoryCount
  <2>3. /\ CategoryRows(row, Seen(keys), c) = {r \in PoolRows(keys) : r.category = c}
        /\ CategoryRows(rec, Seen(keys), c) = {r \in S : r.category = c}
    BY <1>1, Zenon DEF CategoryRows
  <2> QED
    BY <2>1, <2>2, <2>3, Zenon
<1>5. CompositionOf(PoolRows(keys)) = CompositionOf(S)
  BY <1>4 DEF CompositionOf
<1> QED
  BY <1>5 DEF S

LEMMA DivNat == ASSUME NEW m \in Nat, NEW n \in Nat, n > 0 PROVE m \div n \in Nat
OBVIOUS

\* Chao1 estimates at least the addresses observed.
LEMMA EstimateBound ==
  ASSUME NEW keys \in SUBSET Rows
  PROVE  Chao1(keys).estimate >= Cardinality(Seen(keys))
<1> DEFINE f(n) == Cardinality({a \in Seen(keys) : Cardinality(SightingsOf(a, keys)) = n})
           observed == Cardinality(Seen(keys))
<1>1. IsFiniteSet(Seen(keys)) /\ observed \in Nat
  BY SeenFinite
<1>2. ASSUME NEW n PROVE f(n) \in Nat
  <2>1. {a \in Seen(keys) : Cardinality(SightingsOf(a, keys)) = n} \in SUBSET Seen(keys)
    OBVIOUS
  <2>2. IsFiniteSet({a \in Seen(keys) : Cardinality(SightingsOf(a, keys)) = n})
    BY <1>1, <2>1, FS_Subset, Zenon
  <2> QED
    BY <2>2, FS_CardinalityType
<1>3. f(1) \in Nat /\ f(2) \in Nat
  BY <1>2
<1>4. Chao1(keys).estimate = IF observed = 0 \/ f(2) = 0 THEN observed
                             ELSE observed + ((f(1) * f(1)) \div (2 * f(2)))
  BY DEF Chao1
<1> HIDE DEF f, observed
<1>5. ASSUME f(2) # 0 PROVE (f(1) * f(1)) \div (2 * f(2)) \in Nat
  <2>1. f(1) * f(1) \in Nat
    BY <1>3
  <2>2. 2 * f(2) \in Nat /\ 2 * f(2) > 0
    BY <1>3, <1>5
  <2> QED
    BY <2>1, <2>2, DivNat
<1>6. CASE observed = 0 \/ f(2) = 0
  BY <1>1, <1>4, <1>6 DEF observed
<1>7. CASE ~(observed = 0 \/ f(2) = 0)
  <2>1. PICK q \in Nat : q = (f(1) * f(1)) \div (2 * f(2))
    BY <1>5, <1>7
  <2>2. Chao1(keys).estimate = observed + q
    BY <1>4, <1>7, <2>1
  <2> QED
    BY <1>1, <2>2 DEF observed
<1> QED
  BY <1>6, <1>7

LEMMA CellsFinite == IsFiniteSet(Cells)
<1>1. [v \in Variants |-> wanted[v].cell] \in Surjection(Variants, Cells)
  BY DEF Surjection, Cells
<1> QED
  BY <1>1, PoolReportAssumption, FS_Surjection

\* A report that is not truncated was built of every row.
LEMMA WholeOrTruncated ==
  ASSUME ReportData, stage # "new"
  PROVE  Truncated(loaded) \/ loaded = Rows
<1>1. loaded = Rows \/ Cardinality(loaded) = MaxReportObservations
  BY DEF ReportData
<1> QED
  BY <1>1, PoolReportAssumption DEF Truncated

\* Every address of the pool is counted in some cell.
LEMMA CellsCover ==
  ASSUME NEW keys \in SUBSET Rows
  PROVE  Cardinality(Seen(keys)) <= Total([c \in Cells |-> Cell(c, keys).distinct], Cells)
<1> DEFINE mine(c) == {k \in keys : k[1] \in {v \in Variants : wanted[v].cell = c}}
           B == [c \in Cells |-> Seen(mine(c))]
           f == [c \in Cells |-> Cell(c, keys).distinct]
<1>1. \A c \in Cells : IsFiniteSet(B[c]) /\ f[c] = Cardinality(B[c])
  <2> SUFFICES ASSUME NEW c \in Cells PROVE IsFiniteSet(B[c]) /\ f[c] = Cardinality(B[c])
    OBVIOUS
  <2>1. f[c] = Cardinality(Seen(mine(c))) /\ B[c] = Seen(mine(c))
    BY DEF Cell
  <2>2. mine(c) \in SUBSET Rows
    OBVIOUS
  <2> QED
    BY <2>1, <2>2, SeenFinite
<1>2. UNION {B[c] : c \in Cells} = Seen(keys)
  <2>1. ASSUME NEW k \in keys PROVE k[2] \in UNION {B[c] : c \in Cells}
    <3>1. k[1] \in Variants
      BY DEF Rows
    <3>2. wanted[k[1]].cell \in Cells /\ k \in mine(wanted[k[1]].cell)
      BY <3>1 DEF Cells
    <3> QED
      BY <3>2 DEF Seen
  <2>2. \A c \in Cells : B[c] \subseteq Seen(keys)
    BY DEF Seen
  <2> HIDE DEF B
  <2> QED
    BY <2>1, <2>2 DEF Seen
<1> HIDE DEF B, f
<1>3. Cardinality(UNION {B[c] : c \in Cells}) <= Total(f, Cells)
  BY <1>1, CellsFinite, TotalCovers
<1> QED
  BY <1>2, <1>3 DEF f

\* The run report, the session reports and the export of one database state
\* agree, for every set of variants and addresses, every limit on the rows
\* loaded and every row kept or dropped by the limit on details (BuildPoolReport,
\* addIPRecords, StreamPoolIPs).
THEOREM ReportsAgreeHolds == ReportSpec => []ReportsAgree
<1>1. ReportInv => ReportsAgree
  <2> SUFFICES ASSUME ReportInv, stage = "built" PROVE ReportsAgree
    BY DEF ReportsAgree
  <2>1. PICK details \in SUBSET PoolRows(loaded) : pool = BuildPoolReport(loaded, details)
    BY DEF ReportInv, ReportBuilt
  <2>2. bySession = [v \in Variants |-> AddIPRecords(v)] /\ exported = StreamPoolIPs
    BY DEF ReportInv, ReportBuilt
  <2>3. loaded \in SUBSET Rows /\ (Truncated(loaded) \/ loaded = Rows)
    <3>1. ReportData /\ stage # "new"
      BY DEF ReportInv
    <3> QED
      BY <3>1, WholeOrTruncated DEF ReportData
  <2>4. /\ pool.distinct = Cardinality(PoolRows(loaded)) /\ pool.estimate = Chao1(loaded).estimate
        /\ pool.truncated = Truncated(loaded)
        /\ pool.lowerBound = (Chao1(loaded).lowerBound \/ Truncated(loaded))
        /\ pool.composition = CompositionOf(PoolRows(loaded)) /\ pool.histogram = RiskHistogram(PoolRows(loaded))
        /\ pool.flagged = {row.ip : row \in {r \in PoolRows(loaded) : ReputationFlagged(r.ip)}}
        /\ pool.listed = {row.ip : row \in {r \in PoolRows(loaded) : r.listed}}
        /\ pool.cells = [c \in Cells |-> Cell(c, loaded)]
        /\ pool.ips = details
    BY <2>1 DEF BuildPoolReport
  <2>5. loaded = Rows => PoolRows(loaded) = exported
    BY <2>2 DEF PoolRows, StreamPoolIPs
  <2>6. ASSUME NEW v \in Variants, NEW row \in bySession[v].ips
        PROVE  /\ row.ip \in {r.ip : r \in exported}
               /\ row.ip \in Seen(loaded) =>
                    /\ row.ip \in bySession[v].flagged <=> row.ip \in pool.flagged
                    /\ row.ip \in bySession[v].listed <=> row.ip \in pool.listed
    <3> DEFINE own  == {k \in Rows : k[1] = v}
               mine == {NewIPRow(k[2], {k}) : k \in own}
    <3>1. /\ bySession[v].ips = mine
          /\ bySession[v].listed = {x.ip : x \in {r \in mine : r.listed}}
          /\ bySession[v].flagged = {x.ip : x \in
                {r \in mine : /\ cache[r.ip] # Nil
                              /\ \/ BoolValue(cache[r.ip].proxy)
                                 \/ r.risk # Nil /\ r.risk >= 70
                                 \/ cache[r.ip].grey = "malicious"
                                 \/ BoolValue(cache[r.ip].spam) \/ r.listed}}
      BY <2>2 DEF AddIPRecords
    <3>2. PICK k \in own : row = NewIPRow(k[2], {k})
      BY <2>6, <3>1
    <3>3. row.ip = k[2] /\ k \in Rows
      BY <3>2, RowFields
    <3>4. row.ip \in {r.ip : r \in exported}
      <4>1. k[2] \in Seen(Rows)
        BY <3>3 DEF Seen
      <4>2. NewIPRow(k[2], SightingsOf(k[2], Rows)) \in exported
        BY <2>2, <4>1 DEF StreamPoolIPs
      <4> QED
        BY <3>3, <4>2, RowFields
    <3>5. ASSUME NEW x \in mine
          PROVE  /\ x.risk = IF cache[x.ip] = Nil THEN Nil ELSE cache[x.ip].risk
                 /\ x.listed = (cache[x.ip] # Nil /\ BoolValue(cache[x.ip].listed))
      <4>1. PICK j \in own : x = NewIPRow(j[2], {j})
        OBVIOUS
      <4>2. x.ip = j[2] /\ x.risk = (IF cache[j[2]] = Nil THEN Nil ELSE cache[j[2]].risk)
            /\ x.listed = (cache[j[2]] # Nil /\ BoolValue(cache[j[2]].listed))
        BY <4>1, RowFields
      <4> QED
        BY <4>2
    <3>6. ASSUME NEW x \in PoolRows(loaded)
          PROVE  x.listed = (cache[x.ip] # Nil /\ BoolValue(cache[x.ip].listed))
      BY RowFields DEF PoolRows
    <3>7. row.ip \in Seen(loaded) => \E x \in PoolRows(loaded) : x.ip = row.ip
      BY RowFields DEF PoolRows
    <3> HIDE DEF mine
    <3>8. row \in mine
      BY <2>6, <3>1
    <3>9. row.ip \in bySession[v].listed <=> cache[row.ip] # Nil /\ BoolValue(cache[row.ip].listed)
      BY <3>1, <3>5, <3>8
    <3>10. row.ip \in Seen(loaded) =>
             (row.ip \in pool.listed <=> cache[row.ip] # Nil /\ BoolValue(cache[row.ip].listed))
      BY <2>4, <3>6, <3>7
    <3>11. row.ip \in bySession[v].flagged <=> ReputationFlagged(row.ip)
      <4>1. ASSUME NEW x \in mine
            PROVE  ReputationFlagged(x.ip) <=>
                     /\ cache[x.ip] # Nil
                     /\ \/ BoolValue(cache[x.ip].proxy)
                        \/ x.risk # Nil /\ x.risk >= 70
                        \/ cache[x.ip].grey = "malicious"
                        \/ BoolValue(cache[x.ip].spam) \/ x.listed
        BY <3>5 DEF ReputationFlagged
      <4>2. bySession[v].flagged = {x.ip : x \in {r \in mine : ReputationFlagged(r.ip)}}
        BY <3>1, <4>1
      <4> QED
        BY <3>8, <4>2
    <3>12. row.ip \in Seen(loaded) => (row.ip \in pool.flagged <=> ReputationFlagged(row.ip))
      BY <2>4, <3>7
    <3> QED
      BY <3>4, <3>9, <3>10, <3>11, <3>12
  <2>7. pool.ips \subseteq exported \/ pool.truncated
    BY <2>1, <2>3, <2>4, <2>5
  <2>8. ASSUME ~pool.truncated
        PROVE  /\ pool.distinct = Cardinality(exported)
               /\ pool.composition = CompositionOf(exported) /\ pool.histogram = RiskHistogram(exported)
               /\ pool.listed = {r.ip : r \in {x \in exported : x.listed}}
    <3>1. PoolRows(loaded) = exported
      BY <2>3, <2>4, <2>5, <2>8
    <3> QED
      BY <2>4, <3>1
  <2>9. pool.distinct = Cardinality(Seen(loaded))
    BY <2>3, <2>4, PoolRowsCount
  <2>10. ASSUME NEW c \in Cells, Cells = {c}
         PROVE  pool.cells[c].composition = pool.composition /\ pool.cells[c].distinct = pool.distinct
    <3>1. {k \in loaded : k[1] \in {v \in Variants : wanted[v].cell = c}} = loaded
      <4>1. \A v \in Variants : wanted[v].cell = c
        BY <2>10 DEF Cells
      <4>2. \A k \in loaded : k[1] \in Variants
        BY <2>3 DEF Rows
      <4> QED
        BY <4>1, <4>2
    <3>2. /\ pool.cells[c].distinct = Cardinality(Seen(loaded))
          /\ pool.cells[c].composition =
               CompositionOf({[ip |-> a, category |-> NormalizeCategory(ReputationCategory(a))] : a \in Seen(loaded)})
      <4> DEFINE mine == {k \in loaded : k[1] \in {v \in Variants : wanted[v].cell = c}}
      <4>1. pool.cells[c] = Cell(c, loaded)
        BY <2>4
      <4>2. /\ Cell(c, loaded).distinct = Cardinality(Seen(mine))
            /\ Cell(c, loaded).composition =
                 CompositionOf({[ip |-> a, category |-> NormalizeCategory(ReputationCategory(a))] : a \in Seen(mine)})
        BY DEF Cell
      <4>3. mine = loaded
        BY <3>1
      <4> HIDE DEF mine
      <4> QED
        BY <4>1, <4>2, <4>3
    <3> QED
      BY <2>3, <2>4, <2>9, <3>2, OneComposition
  <2>11. pool.distinct <= Total([c \in Cells |-> pool.cells[c].distinct], Cells)
    <3>1. [c \in Cells |-> pool.cells[c].distinct] = [c \in Cells |-> Cell(c, loaded).distinct]
      BY <2>4
    <3> QED
      BY <2>3, <2>9, <3>1, CellsCover
  <2>12. pool.estimate >= pool.distinct
    BY <2>3, <2>4, <2>9, EstimateBound
  <2>13. pool.truncated => pool.lowerBound
    BY <2>4
  <2> QED
    BY <2>6, <2>7, <2>8, <2>10, <2>11, <2>12, <2>13 DEF ReportsAgree
<1> QED BY <1>1, ReportInitEstablishes, ReportingKeeps, PTL DEF ReportSpec

LEMMA WeightNat ==
  ASSUME ReportData, NEW keys \in SUBSET Rows, NEW field, NEW x
  PROVE  Weight(keys, field, x) \in Nat
<1> DEFINE counted == {k \in keys : cache[k[2]] # Nil /\ cache[k[2]][field] = x}
           f == [k \in counted |-> IF sessionIPs[k].hits < 1 THEN 1 ELSE sessionIPs[k].hits]
<1>1. counted \in SUBSET Rows
  OBVIOUS
<1>2. IsFiniteSet(counted)
  BY <1>1, RowsFinite
<1>3. ASSUME NEW k \in counted PROVE f[k] \in Nat
  <2>1. sessionIPs[k] \in Sightings /\ sessionIPs[k] # Nil
    BY <1>1 DEF ReportData, Rows
  <2> QED
    BY <2>1, PoolReportAssumption
<1>4. Weight(keys, field, x) = Total(f, counted)
  BY DEF Weight
<1> HIDE DEF counted, f
<1> QED
  BY <1>2, <1>3, <1>4, PartsFinite

\* The dominant value is the one that outweighs all others; a tie at the top
\* has none.
LEMMA DominantLeads ==
  ASSUME ReportData, NEW keys \in SUBSET Rows, NEW field
  PROVE  /\ \A x \in Values(keys, field) : Leads(keys, field, x) => Dominant(keys, field) = x
         /\ Dominant(keys, field) # Nil =>
              Dominant(keys, field) \in Values(keys, field) /\ Leads(keys, field, Dominant(keys, field))
<1> DEFINE H == Heaviest(keys, field)
           V == Values(keys, field)
           W(x) == Weight(keys, field, x)
<1>0. \A x : W(x) \in Nat
  BY WeightNat
<1>1. \A v : v \in H <=> v \in V /\ \A w \in V : W(w) <= W(v)
  BY DEF Heaviest
<1>2. ASSUME NEW x \in V, Leads(keys, field, x) PROVE Dominant(keys, field) = x
  <2>1. \A y \in V \ {x} : W(x) > W(y)
    BY <1>2 DEF Leads
  <2> HIDE DEF H, V, W
  <2>2. H = {x}
    BY <1>0, <1>1, <1>2, <2>1
  <2>3. Cardinality(H) = 1 /\ (CHOOSE v \in H : TRUE) = x
    BY <2>2, FS_Singleton
  <2> QED
    BY <2>3 DEF Dominant, H
<1>3. ASSUME Dominant(keys, field) # Nil
      PROVE  Dominant(keys, field) \in V /\ Leads(keys, field, Dominant(keys, field))
  <2>1. Cardinality(H) = 1 /\ Dominant(keys, field) = CHOOSE v \in H : TRUE
    BY <1>3 DEF Dominant
  <2>2. IsFiniteSet(H)
    <3>1. IsFiniteSet(keys)
      BY RowsFinite
    <3> DEFINE known == {k \in keys : cache[k[2]] # Nil}
               R == {cache[k[2]][field] : k \in known}
    <3>2. IsFiniteSet(known)
      BY <3>1, FS_Subset
    <3>3. [k \in known |-> cache[k[2]][field]] \in Surjection(known, R)
      BY DEF Surjection
    <3> HIDE DEF known
    <3>4. IsFiniteSet(R)
      BY <3>2, <3>3, FS_Surjection
    <3>5. H \in SUBSET R
      BY DEF Heaviest, Values, known
    <3> QED
      BY <3>4, <3>5, FS_Subset
  <2> HIDE DEF H, V
  <2>3. PICK x : H = {x}
    BY <2>1, <2>2, FS_Singleton
  <2>4. Dominant(keys, field) = x /\ x \in H
    BY <2>1, <2>3
  <2>5. ASSUME NEW y \in V \ {x} PROVE W(x) > W(y)
    <3> HIDE DEF W
    <3>1. y \notin H
      BY <2>3
    <3>2. PICK w \in V : ~(W(w) <= W(y))
      BY <1>1, <2>5, <3>1
    <3>3. W(w) <= W(x)
      BY <1>1, <2>4
    <3> QED
      BY <1>0, <3>2, <3>3
  <2>6. Leads(keys, field, x)
    BY <2>5 DEF Leads, V
  <2> QED
    BY <1>1, <2>4, <2>6
<1> QED
  BY <1>2, <1>3

\* The verdict of a variant says what its observations prove.
LEMMA VerdictEvidence ==
  ASSUME ReportData, stage # "new", NEW v
  PROVE  /\ VariantHonor(v, SeenBy(v)) = "match" <=> Proven(v)
         /\ VariantHonor(v, SeenBy(v)) # "unknown" <=> Proven(v) \/ Refuted(v)
<1> DEFINE keys == SeenBy(v)
           C == Dominant(keys, "country")
           I == Dominant(keys, "isp")
           isp == wanted[v].isp
           goal == Goal(v)
<1>1. keys \in SUBSET Rows
  BY DEF SeenBy, ReportData
<1>2. /\ \A x \in Values(keys, "country") : Leads(keys, "country", x) => C = x
      /\ C # Nil => C \in Values(keys, "country") /\ Leads(keys, "country", C)
  BY <1>1, DominantLeads
<1>3. /\ \A x \in Values(keys, "isp") : Leads(keys, "isp", x) => I = x
      /\ I # Nil => I \in Values(keys, "isp") /\ Leads(keys, "isp", I)
  BY <1>1, DominantLeads
<1>4. \A f : Nil \notin Values(keys, f)
  BY DEF Values
<1>5. VariantHonor(v, keys) =
        CASE goal = Nil /\ isp = Nil -> "unknown"
          [] goal # Nil /\ C # Nil /\ C # goal -> "mismatch"
          [] isp # Nil /\ I # Nil /\ ~IspMatches(isp, I) -> "mismatch"
          [] OTHER -> IF (goal # Nil /\ C = Nil) \/ (isp # Nil /\ I = Nil) THEN "unknown" ELSE "match"
  BY DEF VariantHonor, Goal
<1>6. Proven(v) <=> /\ goal # Nil \/ isp # Nil
                    /\ goal # Nil => C # Nil /\ C = goal
                    /\ isp # Nil => I # Nil /\ IspMatches(isp, I)
  <2> HIDE DEF C, I, keys, isp, goal
  <2>1. goal # Nil => (goal \in Values(keys, "country") /\ Leads(keys, "country", goal) <=> C # Nil /\ C = goal)
    BY <1>2, <1>4
  <2>2. (\E x \in Values(keys, "isp") : Leads(keys, "isp", x) /\ IspMatches(isp, x)) <=> I # Nil /\ IspMatches(isp, I)
    BY <1>3, <1>4
  <2> QED
    BY <2>1, <2>2 DEF Proven, keys, isp, goal
<1>7. Refuted(v) <=> \/ goal # Nil /\ C # Nil /\ C # goal
                     \/ isp # Nil /\ I # Nil /\ ~IspMatches(isp, I)
  <2> HIDE DEF C, I, keys, isp, goal
  <2>1. (\E x \in Values(keys, "country") \ {goal} : Leads(keys, "country", x)) <=> C # Nil /\ C # goal
    BY <1>2, <1>4
  <2>2. (\E x \in Values(keys, "isp") : Leads(keys, "isp", x) /\ ~IspMatches(isp, x)) <=> I # Nil /\ ~IspMatches(isp, I)
    BY <1>3, <1>4
  <2> QED
    BY <2>1, <2>2 DEF Refuted, keys, isp, goal
<1> HIDE DEF C, I, isp, goal, keys
<1>8. VariantHonor(v, keys) = "match" <=> Proven(v)
  BY <1>5, <1>6
<1>9. VariantHonor(v, keys) # "unknown" <=> Proven(v) \/ Refuted(v)
  BY <1>5, <1>6, <1>7
<1> QED
  BY <1>8, <1>9 DEF keys

\* The honor rate counts exactly the variants whose observations prove, or
\* refute, what they asked for, and the rates of the cells add up to it, for
\* every set of variants and every weight (variantHonor, dominant).
THEOREM HonorNeedsEvidenceHolds == ReportSpec => []HonorNeedsEvidence
<1>1. ReportInv => HonorNeedsEvidence
  <2> SUFFICES ASSUME ReportInv, stage = "built" PROVE HonorNeedsEvidence
    BY DEF HonorNeedsEvidence
  <2>1. PICK details \in SUBSET PoolRows(loaded) : pool = BuildPoolReport(loaded, details)
    BY DEF ReportInv, ReportBuilt
  <2>2. ReportData /\ stage # "new"
    BY DEF ReportInv
  <2>3. pool.honor = HonorRate(Variants, loaded) /\ pool.cells = [c \in Cells |-> Cell(c, loaded)]
    BY <2>1 DEF BuildPoolReport
  <2>4. ASSUME NEW vs
        PROVE  /\ HonorRate(vs, loaded).honored = Cardinality({v \in vs : Proven(v)})
               /\ HonorRate(vs, loaded).sampled = Cardinality({v \in vs : Proven(v) \/ Refuted(v)})
    <3> DEFINE verdict == [v \in vs |-> VariantHonor(v, {k \in loaded : k[1] = v})]
    <3>1. /\ HonorRate(vs, loaded).honored = Cardinality({v \in vs : verdict[v] = "match"})
          /\ HonorRate(vs, loaded).sampled = Cardinality({v \in vs : verdict[v] # "unknown"})
      BY DEF HonorRate
    <3>2. \A v \in vs : verdict[v] = VariantHonor(v, SeenBy(v))
      BY DEF SeenBy
    <3> HIDE DEF verdict
    <3>3. /\ {v \in vs : verdict[v] = "match"} = {v \in vs : Proven(v)}
          /\ {v \in vs : verdict[v] # "unknown"} = {v \in vs : Proven(v) \/ Refuted(v)}
      BY <2>2, <3>2, VerdictEvidence
    <3> QED
      BY <3>1, <3>3
  <2>5. /\ pool.honor.honored = Cardinality({v \in Variants : Proven(v)})
        /\ pool.honor.sampled = Cardinality({v \in Variants : Proven(v) \/ Refuted(v)})
    BY <2>3, <2>4
  <2> DEFINE known(v) == Proven(v) \/ Refuted(v)
             B == [c \in Cells |-> {v \in {w \in Variants : wanted[w].cell = c} : known(v)}]
             f == [c \in Cells |-> pool.cells[c].honor.sampled]
  <2>6. ASSUME NEW c \in Cells PROVE IsFiniteSet(B[c]) /\ f[c] = Cardinality(B[c])
    <3>1. Cell(c, loaded).honor = HonorRate({w \in Variants : wanted[w].cell = c}, loaded)
      BY DEF Cell
    <3>2. f[c] = Cell(c, loaded).honor.sampled
      BY <2>3
    <3>3. f[c] = Cardinality({v \in {w \in Variants : wanted[w].cell = c} : known(v)})
      BY <2>4, <3>1, <3>2
    <3>4. B[c] \in SUBSET Variants
      OBVIOUS
    <3> QED
      BY <3>3, <3>4, PoolReportAssumption, FS_Subset
  <2>7. UNION {B[c] : c \in Cells} = {v \in Variants : known(v)}
    <3> HIDE DEF known
    <3>1. \A c \in Cells : B[c] \subseteq {v \in Variants : known(v)}
      OBVIOUS
    <3>2. ASSUME NEW v \in Variants, known(v) PROVE \E c \in Cells : v \in B[c]
      <4>1. wanted[v].cell \in Cells
        BY DEF Cells
      <4> QED
        BY <3>2, <4>1
    <3> HIDE DEF B
    <3> QED
      BY <3>1, <3>2
  <2>8. \A c, d \in Cells : c # d => B[c] \cap B[d] = {}
    OBVIOUS
  <2> HIDE DEF B, f, known
  <2>9. Cardinality(UNION {B[c] : c \in Cells}) = Total(f, Cells)
    BY <2>6, <2>8, CellsFinite, TotalCovers
  <2>10. pool.honor.sampled = Total(f, Cells)
    BY <2>5, <2>7, <2>9 DEF known
  <2> QED
    BY <2>5, <2>10 DEF HonorNeedsEvidence, f
<1> QED BY <1>1, ReportInitEstablishes, ReportingKeeps, PTL DEF ReportSpec

-----------------------------------------------------------------------------
(* Reading samples: the pages and the reports of a session, while samples  *)
(* are stored.                                                             *)

\* A table of samples in the order of time.
SampleType == [at : Instants, ip : SampleIPs \cup {Nil}, new : {0, 1}]
StoredInv ==
  /\ stored \in Seq(SampleType)
  /\ \A i, j \in 1 .. Len(stored) : i <= j => stored[i].at <= stored[j].at

\* The requests of one client, and the writer that goes on storing.
QuerySpec == QueryInit /\ [][Querying]_queryVars

QueryTypes ==
  /\ range \in [from : Instants \cup {Nil}, to : Instants \cup {Nil}]
  /\ reading \in [op : {"none", "samples", "report"}, page : Int, total : Nat,
                  pc : {"ready", "invalid", "count", "rows", "series", "stickiness", "growth", "done"}]
  /\ reading.op = "none" => reading.pc = "ready"
  /\ reading.op = "samples" => reading.pc \in {"invalid", "count", "rows", "done"}
  /\ reading.op = "report" => reading.pc \in {"invalid", "series", "stickiness", "growth", "done"}
  /\ report = [series |-> report.series, holds |-> report.holds, growth |-> report.growth]

ShownSoFar == UNION {shown[p] : p \in DOMAIN shown}
Turning == reading.op = "samples" /\ reading.pc \in {"count", "rows"}
(***************************************************************************)
(* The inductive invariant.  A walk misses nothing because the places of the *)
(* samples only grow: what was there at the start and has not been shown has *)
(* its place on the current page or beyond, and a page that is not full is *)
(* the last one.  The parts of a report agree because each was equal to a  *)
(* count of the samples that matched when it was read, and those only grow. *)
(***************************************************************************)
PagesInv ==
  /\ reading.op = "none" => DOMAIN shown = {}
  /\ \A p \in DOMAIN shown : p \in Nat \ {0} /\ (shown[p] # {} => (p - 1) * PageSize < Len(stored))
  /\ reading.op = "samples" => atStart \subseteq Matching
  /\ Turning => reading.page \in Nat \ {0} /\ \A p \in DOMAIN shown : p < reading.page
  /\ Turning /\ (reading.page = 1 \/ 1 \in DOMAIN shown) =>
       \A i \in atStart \ ShownSoFar : Place(i, Matching) >= (reading.page - 1) * PageSize
  /\ Turning /\ reading.pc = "rows" => CheckedPageOffset(reading.page) # Nil
  /\ reading.op = "samples" /\ reading.pc = "done" /\ 1 \in DOMAIN shown => atStart \subseteq ShownSoFar

PartsInv ==
  reading.op = "report" =>
    /\ reading.pc = "stickiness" =>
         /\ Charted(report.series, "ok") \in 0 .. Cardinality(Successful(Matching))
         /\ Charted(report.series, "attempted") \in 0 .. Cardinality(Matching)
    /\ reading.pc = "growth" =>
         /\ HoldsFollow(report.holds) /\ Held(report.holds) \in 0 .. Cardinality(Matching)
         /\ Charted(report.series, "ok") <= Held(report.holds)
         /\ Charted(report.series, "attempted") \in 0 .. Cardinality(Matching)
    /\ reading.pc = "done" => ReportCoherent

QueryInv == StoredInv /\ QueryTypes /\ PagesInv /\ PartsInv

\* The place of a sample on the pages: every newer sample pushes it on by one.
LEMMA PlaceNat ==
  ASSUME NEW M, IsFiniteSet(M), NEW i
  PROVE  /\ IsFiniteSet({j \in M : j > i})
         /\ Place(i, M) \in Nat /\ Place(i, M) <= Cardinality(M) /\ Cardinality(M) \in Nat
         /\ i \in M /\ M \subseteq Nat => Place(i, M) < Cardinality(M)
<1> DEFINE N == {j \in M : j > i}
<1>1. IsFiniteSet(N) /\ Cardinality(N) <= Cardinality(M) /\ (Cardinality(N) = Cardinality(M) => N = M)
  BY FS_Subset
<1>2. Cardinality(N) \in Nat /\ Cardinality(M) \in Nat
  BY <1>1, FS_CardinalityType
<1>3. i \in M /\ M \subseteq Nat => N # M
  OBVIOUS
<1> QED
  BY <1>1, <1>2, <1>3 DEF Place

LEMMA PlaceGrows ==
  ASSUME NEW M, IsFiniteSet(M), NEW L \in SUBSET M, NEW i
  PROVE  Place(i, L) <= Place(i, M)
<1> DEFINE A == {j \in L : j > i}
           B == {j \in M : j > i}
<1>1. IsFiniteSet(B)
  BY PlaceNat
<1>2. A \in SUBSET B
  OBVIOUS
<1> HIDE DEF A, B
<1>3. Cardinality(A) <= Cardinality(B)
  BY <1>1, <1>2, FS_Subset, Zenon
<1> QED
  BY <1>3 DEF Place, A, B

\* Every place up to that of a sample is taken by some sample.
LEMMA PlaceTaken ==
  ASSUME NEW M \in SUBSET Nat, IsFiniteSet(M), NEW i \in M, NEW k \in Nat, k <= Place(i, M)
  PROVE  \E j \in M : Place(j, M) = k
<1> DEFINE far == {Place(j, M) : j \in {l \in M : k <= Place(l, M)}}
<1>1. far \in SUBSET Nat /\ far # {}
  BY PlaceNat
<1>2. PICK x \in far : \A y \in far : x <= y
  <2> HIDE DEF far
  <2> QED
    BY <1>1, LeastNatural
<1>3. PICK j \in M : x = Place(j, M) /\ k <= Place(j, M)
  BY <1>2
<1>4. \A l \in M : k <= Place(l, M) => Place(j, M) <= Place(l, M)
  BY <1>2, <1>3
<1> HIDE DEF far
<1>5. Place(j, M) \in Nat
  BY PlaceNat
<1>6. ASSUME Place(j, M) > k PROVE FALSE
  <2> DEFINE newer == {y \in M : y > j}
  <2>1. IsFiniteSet(newer) /\ Cardinality(newer) = Place(j, M)
    BY PlaceNat DEF Place
  <2>2. newer # {} /\ newer \in SUBSET Nat
    <3>1. Cardinality(newer) # 0
      BY <1>5, <1>6, <2>1
    <3> QED
      BY <3>1, FS_EmptySet
  <2>3. PICK l \in newer : \A y \in newer : l <= y
    <3> HIDE DEF newer
    <3> QED
      BY <2>2, LeastNatural
  <2> DEFINE rest == {y \in M : y > l}
  <2>4. newer = rest \cup {l} /\ l \notin rest /\ l \in M
    <3>1. l \in M /\ l > j /\ l \in Nat /\ j \in Nat
      BY <2>3
    <3>2. ASSUME NEW y \in M PROVE y > j <=> y > l \/ y = l
      BY <2>3, <3>1
    <3>3. \A y : y \in newer <=> y \in rest \cup {l}
      BY <3>1, <3>2
    <3>4. l \notin rest
      BY <3>1
    <3> QED
      BY <3>1, <3>3, <3>4, Zenon
  <2>5. IsFiniteSet(rest) /\ Cardinality(rest) = Place(l, M) /\ Place(l, M) \in Nat
    BY PlaceNat DEF Place
  <2> HIDE DEF rest, newer
  <2>6. Cardinality(newer) = Cardinality(rest) + 1
    BY <2>4, <2>5, FS_AddElement
  <2> QED
    BY <1>4, <1>5, <1>6, <2>1, <2>4, <2>5, <2>6
<1> QED
  BY <1>3, <1>5, <1>6

\* A page is full if there is a sample beyond it.
LEMMA FullPage ==
  ASSUME NEW M \in SUBSET Nat, IsFiniteSet(M), NEW i \in M, NEW offset \in Nat,
         Place(i, M) >= offset + PageSize
  PROVE  Cardinality(PageOf(M, offset)) >= PageSize
<1> DEFINE P == PageOf(M, offset)
           span == offset .. offset + PageSize - 1
           f == [j \in P |-> Place(j, M)]
<1>0. PageSize \in Nat \ {0} /\ Place(i, M) \in Nat
  BY SampleQueriesAssumption, PlaceNat
<1>1. P \in SUBSET M /\ f \in [P -> span]
  BY DEF PageOf
<1>2. IsFiniteSet(P)
  BY <1>1, FS_Subset, Zenon
<1>3. ASSUME NEW k \in span PROVE \E j \in P : f[j] = k
  <2>1. k \in Nat /\ k <= Place(i, M)
    BY <1>0
  <2>2. PICK j \in M : Place(j, M) = k
    BY <2>1, PlaceTaken
  <2>3. j \in P
    BY <1>0, <2>2 DEF PageOf
  <2> QED
    BY <2>2, <2>3
<1>4. f \in Surjection(P, span)
  BY <1>1, <1>3, Zenon DEF Surjection
<1> HIDE DEF P, f
<1>5. Cardinality(span) <= Cardinality(P)
  BY <1>2, <1>4, FS_Surjection, Zenon
<1>6. Cardinality(span) = PageSize
  <2>1. offset \in Int /\ offset + PageSize - 1 \in Int /\ offset <= offset + PageSize - 1
    BY <1>0
  <2>2. Cardinality(span) = (offset + PageSize - 1) - offset + 1
    <3>1. Cardinality(offset .. offset + PageSize - 1)
            = IF offset > offset + PageSize - 1 THEN 0 ELSE (offset + PageSize - 1) - offset + 1
      BY <2>1, FS_Interval, Zenon
    <3> QED
      BY <1>0, <2>1, <3>1
  <2> QED
    BY <1>0, <2>2
<1>7. Cardinality(P) \in Nat
  BY <1>2, FS_CardinalityType
<1> QED
  BY <1>0, <1>5, <1>6, <1>7 DEF P

LEMMA StoredFacts ==
  ASSUME StoredInv
  PROVE  /\ Len(stored) \in Nat /\ DOMAIN stored = 1 .. Len(stored)
         /\ \A i \in 1 .. Len(stored) : stored[i] \in SampleType
         /\ \A from, to : SampleWhere(from, to) \in SUBSET (1 .. Len(stored))
         /\ \A S \in SUBSET (1 .. Len(stored)) : IsFiniteSet(S) /\ Cardinality(S) \in Nat /\ S \in SUBSET Nat
                                                 /\ Cardinality(S) <= Len(stored)
<1>1. Len(stored) \in Nat /\ DOMAIN stored = 1 .. Len(stored)
  BY LenProperties DEF StoredInv
<1>2. \A i \in 1 .. Len(stored) : stored[i] \in SampleType
  BY ElementOfSeq DEF StoredInv
<1>3. \A from, to : SampleWhere(from, to) \in SUBSET (1 .. Len(stored))
  BY <1>1 DEF SampleWhere
<1>4. ASSUME NEW S \in SUBSET (1 .. Len(stored))
      PROVE  IsFiniteSet(S) /\ Cardinality(S) \in Nat /\ S \in SUBSET Nat /\ Cardinality(S) <= Len(stored)
  <2>1. IsFiniteSet(1 .. Len(stored)) /\ Cardinality(1 .. Len(stored)) = Len(stored)
    <3>1. 1 \in Int /\ Len(stored) \in Int
      BY <1>1
    <3>2. /\ IsFiniteSet(1 .. Len(stored))
          /\ Cardinality(1 .. Len(stored)) = IF 1 > Len(stored) THEN 0 ELSE Len(stored) - 1 + 1
      BY <3>1, FS_Interval, Zenon
    <3> QED
      BY <1>1, <3>2
  <2>2. IsFiniteSet(S) /\ Cardinality(S) <= Cardinality(1 .. Len(stored))
    BY <2>1, FS_Subset, Zenon
  <2>3. S \in SUBSET Nat
    OBVIOUS
  <2> QED
    BY <2>1, <2>2, <2>3, FS_CardinalityType
<1> QED
  BY <1>1, <1>2, <1>3, <1>4

\* The points of a series count every sample once.
LEMMA SeriesSums ==
  ASSUME NEW S, IsFiniteSet(S), NEW w
  PROVE  /\ Charted(Series(S, w), "attempted") = Cardinality(S)
         /\ Charted(Series(S, w), "ok") = Cardinality(Successful(S))
<1> DEFINE P == {StartOfInterval(i, w) : i \in S}
           A == [b \in P |-> Members(S, w, b)]
           K == [b \in P |-> Successful(Members(S, w, b))]
           f == [b \in P |-> Series(S, w)[b]["attempted"]]
           g == [b \in P |-> Series(S, w)[b]["ok"]]
<1>1. DOMAIN Series(S, w) = P
  BY DEF Series
<1>2. IsFiniteSet(P)
  <2>1. [i \in S |-> StartOfInterval(i, w)] \in Surjection(S, P)
    BY DEF Surjection
  <2> QED
    BY <2>1, FS_Surjection
<1>3. ASSUME NEW b \in P PROVE IsFiniteSet(A[b]) /\ f[b] = Cardinality(A[b])
  <2>1. A[b] \in SUBSET S
    BY DEF Members
  <2>2. f[b] = Cardinality(A[b])
    BY DEF Series
  <2> QED
    BY <2>1, <2>2, FS_Subset
<1>4. ASSUME NEW b \in P PROVE IsFiniteSet(K[b]) /\ g[b] = Cardinality(K[b])
  <2>1. K[b] \in SUBSET S
    BY DEF Members, Successful
  <2>2. g[b] = Cardinality(K[b])
    BY DEF Series
  <2> QED
    BY <2>1, <2>2, FS_Subset
<1>5. \A i \in S : StartOfInterval(i, w) \in P
  OBVIOUS
<1>6. \A b \in P : \A i : i \in A[b] <=> i \in S /\ StartOfInterval(i, w) = b
  BY DEF Members
<1>7. \A b \in P : \A i : i \in K[b] <=> i \in Successful(S) /\ StartOfInterval(i, w) = b
  BY DEF Members, Successful
<1>8. \A i : i \in Successful(S) => i \in S
  BY DEF Successful
<1> HIDE DEF A, K, P
<1>9. UNION {A[b] : b \in P} = S /\ \A b, c \in P : b # c => A[b] \cap A[c] = {}
  BY <1>5, <1>6
<1>10. UNION {K[b] : b \in P} = Successful(S) /\ \A b, c \in P : b # c => K[b] \cap K[c] = {}
  BY <1>5, <1>7, <1>8
<1> HIDE DEF A, K, f, g, P
<1>11. Total(f, P) = Cardinality(S)
  BY <1>2, <1>3, <1>9, TotalCovers
<1>12. Total(g, P) = Cardinality(Successful(S))
  BY <1>2, <1>4, <1>10, TotalCovers
<1> QED
  BY <1>1, <1>11, <1>12 DEF Charted, f, g

\* The curve of the pool never falls.
LEMMA GrowthRises ==
  ASSUME StoredInv, NEW S \in SUBSET (1 .. Len(stored)), NEW i \in S, NEW j \in S, i <= j
  PROVE  PoolGrowth(S)[i] <= PoolGrowth(S)[j]
<1> DEFINE f == [k \in S |-> stored[k].new]
           A == {k \in S : k <= i}
           B == {k \in S : k <= j}
<1>1. IsFiniteSet(B) /\ \A k \in B : f[k] \in Nat
  <2>1. B \in SUBSET (1 .. Len(stored))
    OBVIOUS
  <2>2. \A k \in B : stored[k] \in SampleType
    BY StoredFacts
  <2> QED
    BY <2>1, <2>2, StoredFacts DEF SampleType
<1>2. A \in SUBSET B
  <2>1. S \in SUBSET Nat
    BY StoredFacts
  <2>2. ASSUME NEW k \in S, k <= i PROVE k <= j
    BY <2>1, <2>2
  <2> QED
    BY <2>2
<1>3. PoolGrowth(S)[i] = Total(f, A) /\ PoolGrowth(S)[j] = Total(f, B)
  BY DEF PoolGrowth
<1> HIDE DEF f, A, B
<1> QED
  BY <1>1, <1>2, <1>3, TotalMonotonic

\* The loop of DeriveStickiness, one sample further, and as far as sample m.
Further(acc, S, n) == IF n \in S THEN ExtendHold(acc, stored[n]) ELSE acc
LoopUpTo(l, S, m) == l = [n \in 0 .. m |-> IF n = 0 THEN NoHolds
                                           ELSE IF n \in S THEN ExtendHold(l[n - 1], stored[n])
                                           ELSE l[n - 1]]

\* The loop of DeriveStickiness is defined: it exists as a function of the
\* samples seen so far, one step after the other.
LEMMA LoopSteps ==
  ASSUME NEW m \in Nat, NEW S, NEW l, LoopUpTo(l, S, m)
  PROVE  /\ l[0] = NoHolds /\ DOMAIN l = 0 .. m
         /\ \A n \in 1 .. m : l[n] = Further(l[n - 1], S, n)
<1> DEFINE g == [n \in 0 .. m |-> IF n = 0 THEN NoHolds
                                  ELSE IF n \in S THEN ExtendHold(l[n - 1], stored[n])
                                  ELSE l[n - 1]]
<1>1. l = g
  BY DEF LoopUpTo
<1>2. DOMAIN g = 0 .. m /\ g[0] = NoHolds
  OBVIOUS
<1>3. ASSUME NEW n \in 1 .. m PROVE g[n] = Further(l[n - 1], S, n)
  <2>1. n \in 0 .. m /\ n # 0
    OBVIOUS
  <2> QED
    BY <2>1 DEF Further
<1> HIDE DEF g
<1> QED
  BY <1>1, <1>2, <1>3

LEMMA LoopExists ==
  ASSUME NEW N \in Nat, NEW S
  PROVE  \E l : LoopUpTo(l, S, N)
<1> DEFINE Good == {m \in 0 .. N : \E l : LoopUpTo(l, S, m)}
<1>1. 0 \in Good
  <2>1. LoopUpTo([n \in 0 .. 0 |-> NoHolds], S, 0)
    BY DEF LoopUpTo
  <2> QED
    BY <2>1
<1>2. ASSUME NEW m \in 0 .. N, m < N, m \in Good PROVE m + 1 \in Good
  <2>1. PICK l : LoopUpTo(l, S, m)
    BY <1>2
  <2>2. /\ l[0] = NoHolds /\ DOMAIN l = 0 .. m
        /\ \A n \in 1 .. m : l[n] = Further(l[n - 1], S, n)
    BY <2>1, LoopSteps
  <2> DEFINE k == [n \in 0 .. m + 1 |-> IF n = m + 1 THEN Further(l[m], S, m + 1) ELSE l[n]]
             g == [n \in 0 .. m + 1 |-> IF n = 0 THEN NoHolds
                                        ELSE IF n \in S THEN ExtendHold(k[n - 1], stored[n])
                                        ELSE k[n - 1]]
  <2>3. \A n \in 0 .. m : k[n] = l[n]
    OBVIOUS
  <2>4. ASSUME NEW n \in 0 .. m + 1 PROVE k[n] = g[n]
    <3>1. CASE n = 0
      BY <2>2, <3>1
    <3>2. CASE n \in 1 .. m
      <4>1. n - 1 \in 0 .. m /\ n # 0
        BY <3>2
      <4>2. k[n] = Further(k[n - 1], S, n)
        BY <2>2, <2>3, <3>2, <4>1
      <4>3. g[n] = Further(k[n - 1], S, n)
        BY <4>1 DEF Further
      <4> QED
        BY <4>2, <4>3
    <3>3. CASE n = m + 1
      <4>1. m \in 0 .. m /\ n # 0 /\ n - 1 = m
        BY <3>3
      <4>2. k[n] = Further(k[n - 1], S, n)
        BY <2>3, <3>3, <4>1
      <4>3. g[n] = Further(k[n - 1], S, n)
        BY <4>1 DEF Further
      <4> QED
        BY <4>2, <4>3
    <3> QED
      BY <3>1, <3>2, <3>3
  <2>5. k = [n \in 0 .. m + 1 |-> k[n]] /\ g = [n \in 0 .. m + 1 |-> g[n]]
    OBVIOUS
  <2>6. k = g
    <3> HIDE DEF k, g
    <3> QED
      BY <2>4, <2>5
  <2>7. LoopUpTo(k, S, m + 1)
    BY <2>6, Zenon DEF LoopUpTo
  <2> QED
    BY <1>2, <2>7
<1> HIDE DEF Good
<1>3. 0 .. N \subseteq Good
  BY <1>1, <1>2, UpTo
<1> QED
  BY <1>3 DEF Good

LEMMA LoopRuns ==
  ASSUME NEW S, Len(stored) \in Nat
  PROVE  \E l : LoopUpTo(l, S, Len(stored)) /\ DeriveStickiness(S) = l[Len(stored)]
<1> DEFINE loop == CHOOSE l : LoopUpTo(l, S, Len(stored))
<1>1. LoopUpTo(loop, S, Len(stored))
  BY LoopExists, Zenon
<1>2. DeriveStickiness(S) = loop[Len(stored)]
  BY Zenon DEF DeriveStickiness, LoopUpTo
<1> QED
  BY <1>1, <1>2

Hold == [ip : SampleIPs, started : Instants, ended : Instants, samples : Nat]
Turn == [at : Instants, from : SampleIPs, to : SampleIPs]
Sticky == [holds : Seq(Hold), rotations : Seq(Turn)]

\* What the loop keeps: the samples up to n are counted in holds that end
\* before the samples still to come.
LoopInv(acc, S, n) ==
  /\ acc \in Sticky /\ HoldsFollow(acc)
  /\ \A i \in 1 .. Len(acc.holds) :
       /\ acc.holds[i].started <= acc.holds[i].ended
       /\ \A j \in n + 1 .. Len(stored) : acc.holds[i].ended <= stored[j].at
  /\ Held(acc) = Cardinality({i \in S : i <= n})

\* The samples up to n.
LEMMA CountFurther ==
  ASSUME NEW S \in SUBSET Nat, IsFiniteSet(S), NEW n \in Nat \ {0}
  PROVE  LET count(m) == Cardinality({i \in S : i <= m})
         IN count(n - 1) \in Nat /\ count(n) = IF n \in S THEN count(n - 1) + 1 ELSE count(n - 1)
<1> DEFINE A == {i \in S : i <= n - 1}
           B == {i \in S : i <= n}
<1>1. A \in SUBSET S /\ n \notin A
  OBVIOUS
<1>2. IsFiniteSet(A)
  BY <1>1, FS_Subset, Zenon
<1>3. \A i \in S : i <= n <=> i <= n - 1 \/ i = n
  OBVIOUS
<1>4. B = IF n \in S THEN A \cup {n} ELSE A
  <2> SUFFICES ASSUME NEW i PROVE i \in B <=> i \in IF n \in S THEN A \cup {n} ELSE A
    OBVIOUS
  <2> QED
    BY <1>3
<1> HIDE DEF A, B
<1>5. Cardinality(A) \in Nat /\ Cardinality(A \cup {n}) = Cardinality(A) + 1
  BY <1>1, <1>2, FS_AddElement, FS_CardinalityType
<1> QED
  BY <1>4, <1>5 DEF A, B

\* One more hold of one sample.
LEMMA HeldOneMore ==
  ASSUME NEW acc \in Sticky, NEW fresh \in Hold, fresh.samples = 1, NEW turns
  PROVE  Held([holds |-> Append(acc.holds, fresh), rotations |-> turns]) = Held(acc) + 1
<1> DEFINE h == acc.holds
           n == Len(h)
           k == Append(h, fresh)
           f == [i \in 1 .. n |-> h[i].samples]
           g == [i \in 1 .. n + 1 |-> k[i].samples]
<1>1. h \in Seq(Hold)
  BY DEF Sticky
<1>2. n \in Nat /\ DOMAIN h = 1 .. n /\ IsFiniteSet(1 .. n) /\ \A i \in 1 .. n : h[i] \in Hold
  <2> HIDE DEF h
  <2> QED
    BY <1>1, IndexSet
<1>3. DOMAIN k = 1 .. n + 1 /\ \A i \in 1 .. n + 1 : k[i] = IF i = n + 1 THEN fresh ELSE h[i]
  <2> HIDE DEF h
  <2> QED
    BY <1>1, <1>2, AppendProperties
<1> HIDE DEF h, k, n
<1>4. /\ 1 .. n + 1 = (1 .. n) \cup {n + 1} /\ n + 1 \notin 1 .. n
      /\ \A i \in 1 .. n : g[i] = f[i] /\ g[i] \in Nat /\ f[i] \in Nat
      /\ g[n + 1] = 1
  BY <1>2, <1>3 DEF Hold
<1>5. Held([holds |-> k, rotations |-> turns]) = Total(g, 1 .. n + 1)
  BY <1>3 DEF Held
<1>6. Held(acc) = Total(f, 1 .. n)
  BY <1>2 DEF Held, h
<1> HIDE DEF f, g
<1>7. Total(g, 1 .. n + 1) = Total(f, 1 .. n) + g[n + 1]
  <2>1. n \in Nat /\ \A i \in 1 .. n : f[i] \in Nat /\ g[i] = f[i]
    BY <1>2, <1>4
  <2>2. g[n + 1] \in Nat
    BY <1>4
  <2> QED
    BY <2>1, <2>2, TotalNext
<1> QED
  BY <1>4, <1>5, <1>6, <1>7 DEF k, h

LEMMA LoopStarts ==
  ASSUME NEW S \in SUBSET Nat, StoredInv, \A i \in S : i > 0
  PROVE  LoopInv(NoHolds, S, 0)
<1>1. NoHolds \in Sticky
  BY DEF NoHolds, Sticky
<1>2. NoHolds.holds = <<>> /\ NoHolds.rotations = <<>> /\ Len(NoHolds.holds) = 0 /\ Len(NoHolds.rotations) = 0
  BY DEF NoHolds
<1>3. HoldsFollow(NoHolds)
  BY <1>2 DEF HoldsFollow
<1>4. Held(NoHolds) = 0
  <2>1. DOMAIN NoHolds.holds = {}
    BY <1>2
  <2> QED
    BY <2>1, TotalEmpty DEF Held
<1>5. {i \in S : i <= 0} = {}
  <2>1. ASSUME NEW i \in S PROVE ~(i <= 0)
    <3>1. i \in Nat /\ i > 0
      OBVIOUS
    <3> QED
      BY <3>1
  <2> QED
    BY <2>1
<1>6. Cardinality({i \in S : i <= 0}) = 0
  BY <1>5, FS_EmptySet
<1> QED
  BY <1>1, <1>2, <1>3, <1>4, <1>6 DEF LoopInv

\* A sample that begins a hold.
LEMMA HoldBegins ==
  ASSUME StoredInv, NEW S \in SUBSET Successful(1 .. Len(stored)), NEW n \in S, NEW acc,
         LoopInv(acc, S, n - 1), Held(Further(acc, S, n)) = Held(acc) + 1,
         ~(Len(acc.holds) > 0 /\ acc.holds[Len(acc.holds)].ip = stored[n].ip)
  PROVE  LoopInv(Further(acc, S, n), S, n)
<1> DEFINE h == acc.holds
           t == acc.rotations
           k == Len(h)
           e == stored[n]
           fresh == [ip |-> e.ip, started |-> e.at, ended |-> e.at, samples |-> 1]
           turn == [at |-> e.at, from |-> h[k].ip, to |-> e.ip]
           after == Further(acc, S, n)
           h2 == Append(h, fresh)
           t2 == IF k = 0 THEN t ELSE Append(t, turn)
<1>1. after = [holds |-> h2, rotations |-> t2]
  BY DEF Further, ExtendHold
<1>2. /\ acc \in Sticky /\ HoldsFollow(acc) /\ h \in Seq(Hold) /\ t \in Seq(Turn)
      /\ \A i \in 1 .. k : h[i].started <= h[i].ended
      /\ \A i \in 1 .. k, j \in n .. Len(stored) : h[i].ended <= stored[j].at
      /\ Held(acc) = Cardinality({i \in S : i <= n - 1})
  <2>1. n \in 1 .. Len(stored) /\ Len(stored) \in Nat
    BY StoredFacts DEF Successful
  <2>2. n - 1 + 1 = n
    BY <2>1
  <2> QED
    BY <2>2 DEF LoopInv, Sticky
<1>3. /\ n \in 1 .. Len(stored) /\ Len(stored) \in Nat /\ n \in Nat \ {0}
      /\ e \in SampleType /\ e.ip \in SampleIPs /\ e.at \in Instants
      /\ \A j \in n .. Len(stored) : e.at <= stored[j].at
      /\ S \in SUBSET Nat /\ IsFiniteSet(S)
  <2>1. n \in 1 .. Len(stored) /\ e.ip # Nil /\ S \in SUBSET (1 .. Len(stored))
    BY DEF Successful
  <2>2. Len(stored) \in Nat /\ e \in SampleType /\ S \in SUBSET Nat /\ IsFiniteSet(S)
    BY <2>1, StoredFacts
  <2>3. \A j \in n .. Len(stored) : e.at <= stored[j].at
    BY <2>1, <2>2 DEF StoredInv
  <2> QED
    BY <2>1, <2>2, <2>3 DEF SampleType
<1>4. fresh \in Hold
  BY <1>3 DEF Hold
<1> HIDE DEF h, t, e, fresh, after
<1>5. /\ k \in Nat /\ \A i \in 1 .. k : h[i] \in Hold
      /\ h = <<>> <=> k = 0
  BY <1>2, IndexSet
<1>6. /\ h2 \in Seq(Hold) /\ Len(h2) = k + 1 /\ h2 # <<>>
      /\ \A i \in 1 .. k + 1 : h2[i] = IF i = k + 1 THEN fresh ELSE h[i]
  <2>1. h2 \in Seq(Hold) /\ Len(h2) = k + 1 /\ \A i \in 1 .. k + 1 : h2[i] = IF i = k + 1 THEN fresh ELSE h[i]
    BY <1>2, <1>4, <1>5, AppendProperties
  <2>2. h2 # <<>>
    <3>1. k + 1 # 0
      BY <1>5
    <3> QED
      BY <2>1, <3>1, EmptySeq
  <2> QED
    BY <2>1, <2>2
<1>7. /\ Len(t) \in Nat /\ DOMAIN t = 1 .. Len(t) /\ Len(t) = IF k = 0 THEN 0 ELSE k - 1
      /\ \A i \in 1 .. Len(t) : /\ t[i].from = h[i].ip /\ t[i].to = h[i + 1].ip /\ h[i].ip # h[i + 1].ip
                                /\ h[i].started <= h[i].ended /\ h[i].ended <= h[i + 1].started
                                /\ t[i].at = h[i + 1].started
  <2>1. Len(t) \in Nat /\ DOMAIN t = 1 .. Len(t)
    BY <1>2, IndexSet
  <2> QED
    BY <1>2, <1>5, <2>1 DEF HoldsFollow, h, t
<1>8. k > 0 => h[k].ip # e.ip
  BY DEF h, e
<1>9. k > 0 => turn \in Turn
  BY <1>3, <1>5 DEF Turn, Hold
<1> HIDE DEF turn, k, h2
<1>10. /\ t2 \in Seq(Turn) /\ DOMAIN t2 = 1 .. Len(t2) /\ Len(t2) = k
       /\ k > 0 => \A i \in 1 .. k : t2[i] = IF i = k THEN turn ELSE t[i]
  <2>1. CASE k = 0
    BY <1>2, <1>7, <2>1
  <2>2. CASE k > 0
    <3>1. t2 = Append(t, turn) /\ Len(t) = k - 1 /\ turn \in Turn
      BY <1>7, <1>9, <2>2
    <3>2. /\ Append(t, turn) \in Seq(Turn) /\ Len(Append(t, turn)) = Len(t) + 1
          /\ \A i \in 1 .. Len(t) + 1 : Append(t, turn)[i] = IF i = Len(t) + 1 THEN turn ELSE t[i]
      BY <1>2, <3>1, AppendProperties
    <3> HIDE DEF t2
    <3>3. DOMAIN t2 = 1 .. Len(t2)
      BY <3>1, <3>2, IndexSet
    <3>4. Len(t) + 1 = k
      BY <1>5, <3>1
    <3> QED
      BY <3>1, <3>2, <3>3, <3>4
  <2> QED
    BY <1>5, <2>1, <2>2
<1> HIDE DEF t2
<1>11. HoldsFollow(after)
  <2>1. Len(t2) = IF h2 = <<>> THEN 0 ELSE Len(h2) - 1
    BY <1>5, <1>6, <1>10
  <2>2. ASSUME NEW i \in DOMAIN t2
        PROVE  /\ t2[i].from = h2[i].ip /\ t2[i].to = h2[i + 1].ip /\ h2[i].ip # h2[i + 1].ip
               /\ h2[i].started <= h2[i].ended /\ h2[i].ended <= h2[i + 1].started
               /\ t2[i].at = h2[i + 1].started
    <3>1. i \in 1 .. k /\ k > 0
      BY <1>5, <1>10
    <3>2. CASE i = k
      <4>1. h2[i] = h[k] /\ h2[i + 1] = fresh /\ t2[i] = turn
        BY <1>5, <1>6, <1>10, <3>1, <3>2
      <4>2. h[k].started <= h[k].ended /\ h[k].ended <= e.at /\ h[k].ip # e.ip
        BY <1>2, <1>3, <1>8, <3>1, <3>2 DEF e
      <4> QED
        BY <4>1, <4>2 DEF fresh, turn
    <3>3. CASE i < k
      <4>1. h2[i] = h[i] /\ h2[i + 1] = h[i + 1] /\ t2[i] = t[i] /\ i \in 1 .. Len(t)
        BY <1>5, <1>6, <1>7, <1>10, <3>1, <3>3
      <4> QED
        BY <1>7, <4>1
    <3> QED
      BY <1>5, <3>1, <3>2, <3>3
  <2>3. after.holds = h2 /\ after.rotations = t2
    BY <1>1
  <2> QED
    BY <2>1, <2>2, <2>3 DEF HoldsFollow
<1>12. ASSUME NEW i \in 1 .. k + 1
       PROVE  h2[i].started <= h2[i].ended /\ \A j \in n + 1 .. Len(stored) : h2[i].ended <= stored[j].at
  <2>1. CASE i = k + 1
    <3>1. h2[i] = fresh
      BY <1>6, <2>1
    <3>2. fresh.started = e.at /\ fresh.ended = e.at /\ e.at \in Int
      BY <1>3 DEF fresh, Instants
    <3> QED
      BY <1>3, <3>1, <3>2
  <2>2. CASE i # k + 1
    <3>1. i \in 1 .. k /\ h2[i] = h[i]
      BY <1>5, <1>6, <2>2
    <3> QED
      BY <1>2, <1>3, <3>1
  <2> QED
    BY <2>1, <2>2
<1>13. Held(after) = Cardinality({i \in S : i <= n})
  BY <1>2, <1>3, CountFurther DEF after
<1>14. after \in Sticky
  BY <1>1, <1>6, <1>10 DEF Sticky
<1> QED
  BY <1>1, <1>6, <1>11, <1>12, <1>13, <1>14 DEF LoopInv, after

\* A sample that extends the last hold.
LEMMA HoldGrows ==
  ASSUME StoredInv, NEW S \in SUBSET Successful(1 .. Len(stored)), NEW n \in S, NEW acc,
         LoopInv(acc, S, n - 1),
         Len(acc.holds) > 0, acc.holds[Len(acc.holds)].ip = stored[n].ip
  PROVE  LoopInv(Further(acc, S, n), S, n)
<1> DEFINE h == acc.holds
           t == acc.rotations
           k == Len(h)
           e == stored[n]
           widened == [h[k] EXCEPT !.ended = e.at, !.samples = h[k].samples + 1]
           after == Further(acc, S, n)
           h2 == [h EXCEPT ![k] = widened]
<1>1. /\ acc \in Sticky /\ HoldsFollow(acc) /\ h \in Seq(Hold) /\ t \in Seq(Turn)
      /\ \A i \in 1 .. k : h[i].started <= h[i].ended
      /\ \A i \in 1 .. k, j \in n .. Len(stored) : h[i].ended <= stored[j].at
      /\ Held(acc) = Cardinality({i \in S : i <= n - 1})
  <2>1. n \in 1 .. Len(stored) /\ Len(stored) \in Nat
    BY StoredFacts DEF Successful
  <2>2. n - 1 + 1 = n
    BY <2>1
  <2> QED
    BY <2>2 DEF LoopInv, Sticky
<1>2. after = [holds |-> h2, rotations |-> t]
  BY <1>1 DEF Further, ExtendHold, Sticky
<1>3. /\ n \in 1 .. Len(stored) /\ Len(stored) \in Nat /\ n \in Nat \ {0}
      /\ e.ip \in SampleIPs /\ e.at \in Instants
      /\ \A j \in n .. Len(stored) : e.at <= stored[j].at
      /\ S \in SUBSET Nat /\ IsFiniteSet(S)
  <2>1. n \in 1 .. Len(stored) /\ e.ip # Nil /\ S \in SUBSET (1 .. Len(stored))
    BY DEF Successful
  <2>2. Len(stored) \in Nat /\ e \in SampleType /\ S \in SUBSET Nat /\ IsFiniteSet(S)
    BY <2>1, StoredFacts
  <2>3. \A j \in n .. Len(stored) : e.at <= stored[j].at
    BY <2>1, <2>2 DEF StoredInv
  <2> QED
    BY <2>1, <2>2, <2>3 DEF SampleType
<1>4. k > 0
  OBVIOUS
<1> HIDE DEF h, t, e, after
<1>5. /\ k \in Nat /\ k \in 1 .. k /\ DOMAIN h = 1 .. k /\ \A i \in 1 .. k : h[i] \in Hold
      /\ h # <<>> /\ IsFiniteSet(1 .. k)
  BY <1>1, <1>4, IndexSet
<1>6. h[k] \in Hold /\ e.at \in Instants /\ h[k].ended <= e.at /\ h[k].started <= h[k].ended
  BY <1>1, <1>3, <1>5 DEF e
<1>7. /\ widened \in Hold /\ widened.ip = h[k].ip /\ widened.started = h[k].started /\ widened.ended = e.at
      /\ widened.samples = h[k].samples + 1
  <2> DEFINE x == h[k]
  <2>1. x \in [ip : SampleIPs, started : Instants, ended : Instants, samples : Nat]
    BY <1>6 DEF Hold
  <2>2. x.samples \in Nat /\ x.samples + 1 \in Nat
    BY <2>1
  <2> HIDE DEF x
  <2> DEFINE y == [x EXCEPT !.ended = e.at, !.samples = x.samples + 1]
  <2>3. /\ y \in Hold /\ y.ip = x.ip /\ y.started = x.started /\ y.ended = e.at /\ y.samples = x.samples + 1
    BY <1>6, <2>1, <2>2 DEF Hold
  <2> QED
    BY <2>3 DEF x
<1>8. widened.started <= e.at
  BY <1>6, <1>7 DEF Hold, Instants
<1> HIDE DEF widened, k
<1>9. /\ DOMAIN h2 = 1 .. k /\ \A i \in 1 .. k : h2[i] = IF i = k THEN widened ELSE h[i]
  BY <1>5
<1>10. h2 \in Seq(Hold) /\ Len(h2) = k /\ h2 # <<>>
  <2>1. h2 \in Seq(Hold) /\ Len(h2) = Len(h)
    BY <1>1, <1>5, <1>7, ExceptSeq DEF k
  <2>2. Len(h) = k
    BY DEF k
  <2> QED
    BY <1>4, <1>5, <2>1, <2>2, EmptySeq
<1> HIDE DEF h2
<1>11. /\ Len(t) \in Nat /\ DOMAIN t = 1 .. Len(t) /\ Len(t) = k - 1
       /\ \A i \in 1 .. Len(t) : /\ t[i].from = h[i].ip /\ t[i].to = h[i + 1].ip /\ h[i].ip # h[i + 1].ip
                                 /\ h[i].started <= h[i].ended /\ h[i].ended <= h[i + 1].started
                                 /\ t[i].at = h[i + 1].started
  <2>1. Len(t) \in Nat /\ DOMAIN t = 1 .. Len(t)
    BY <1>1, IndexSet
  <2> QED
    BY <1>1, <1>5, <2>1 DEF HoldsFollow, h, t, k
<1>12. HoldsFollow(after)
  <2>1. Len(t) = IF h2 = <<>> THEN 0 ELSE Len(h2) - 1
    BY <1>10, <1>11
  <2>2. ASSUME NEW i \in DOMAIN t
        PROVE  /\ t[i].from = h2[i].ip /\ t[i].to = h2[i + 1].ip /\ h2[i].ip # h2[i + 1].ip
               /\ h2[i].started <= h2[i].ended /\ h2[i].ended <= h2[i + 1].started
               /\ t[i].at = h2[i + 1].started
    <3>1. i \in 1 .. k /\ i < k /\ i + 1 \in 1 .. k /\ i \in 1 .. Len(t)
      BY <1>5, <1>11
    <3>2. h2[i] = h[i] /\ h2[i + 1].ip = h[i + 1].ip /\ h2[i + 1].started = h[i + 1].started
      BY <1>7, <1>9, <3>1
    <3> QED
      BY <1>11, <3>1, <3>2
  <2>3. after.holds = h2 /\ after.rotations = t
    BY <1>2
  <2> QED
    BY <2>1, <2>2, <2>3 DEF HoldsFollow
<1>13. ASSUME NEW i \in 1 .. k
       PROVE  h2[i].started <= h2[i].ended /\ \A j \in n + 1 .. Len(stored) : h2[i].ended <= stored[j].at
  <2>1. CASE i = k
    BY <1>3, <1>7, <1>8, <1>9, <2>1
  <2>2. CASE i # k
    BY <1>1, <1>3, <1>9, <2>2 DEF k
  <2> QED
    BY <2>1, <2>2
<1>14. Held(after) = Held(acc) + 1
  <2> DEFINE f == [i \in 1 .. k |-> h[i].samples]
             g == [i \in 1 .. k |-> h2[i].samples]
  <2>1. Held(acc) = Total(f, 1 .. k)
    BY <1>5 DEF Held, h
  <2>2. Held(after) = Total(g, 1 .. k)
    BY <1>2, <1>9 DEF Held
  <2>3. \A i \in (1 .. k) \ {k} : f[i] \in Nat /\ g[i] = f[i]
    BY <1>5, <1>9 DEF Hold
  <2>4. f[k] \in Nat /\ g[k] = f[k] + 1 /\ k \in 1 .. k /\ IsFiniteSet(1 .. k)
    BY <1>5, <1>6, <1>7, <1>9 DEF Hold
  <2> DEFINE I == 1 .. k
  <2> HIDE DEF f, g, I
  <2>5. Total(g, I) = Total(f, I) + 1
    <3>1. (\A i \in I \ {k} : f[i] \in Nat /\ g[i] = f[i]) /\ k \in I /\ IsFiniteSet(I)
      BY <2>3, <2>4 DEF I
    <3> QED
      BY <2>4, <3>1, TotalBump
  <2> QED
    BY <2>1, <2>2, <2>5 DEF I
<1>15. Held(after) = Cardinality({i \in S : i <= n})
  BY <1>1, <1>3, <1>14, CountFurther
<1>16. after \in Sticky
  BY <1>1, <1>2, <1>10 DEF Sticky
<1> QED
  BY <1>2, <1>10, <1>12, <1>13, <1>15, <1>16 DEF LoopInv, after

\* Whatever the next sample is, the loop keeps its invariant.
LEMMA LoopKeeps ==
  ASSUME StoredInv, NEW S \in SUBSET Successful(1 .. Len(stored)), NEW n \in 1 .. Len(stored), NEW acc,
         LoopInv(acc, S, n - 1)
  PROVE  LoopInv(Further(acc, S, n), S, n)
<1>1. Len(stored) \in Nat /\ S \in SUBSET Nat /\ IsFiniteSet(S) /\ n \in Nat \ {0} /\ acc \in Sticky
  <2>1. S \in SUBSET (1 .. Len(stored))
    BY DEF Successful
  <2> QED
    BY <2>1, StoredFacts DEF LoopInv
<1>2. CASE n \notin S
  <2>1. Cardinality({i \in S : i <= n}) = Cardinality({i \in S : i <= n - 1})
    BY <1>1, <1>2, CountFurther
  <2>2. Further(acc, S, n) = acc
    BY <1>2 DEF Further
  <2>3. \A j \in n + 1 .. Len(stored) : j \in n - 1 + 1 .. Len(stored)
    BY <1>1
  <2> QED
    BY <2>1, <2>2, <2>3 DEF LoopInv
<1>3. CASE n \in S /\ Len(acc.holds) > 0 /\ acc.holds[Len(acc.holds)].ip = stored[n].ip
  BY <1>3, HoldGrows
<1>4. CASE n \in S /\ ~(Len(acc.holds) > 0 /\ acc.holds[Len(acc.holds)].ip = stored[n].ip)
  <2> DEFINE fresh == [ip |-> stored[n].ip, started |-> stored[n].at, ended |-> stored[n].at, samples |-> 1]
             turns == Further(acc, S, n).rotations
  <2>1. stored[n] \in SampleType /\ stored[n].ip # Nil
    BY <1>4, StoredFacts DEF Successful
  <2>2. fresh \in Hold /\ fresh.samples = 1
    BY <2>1 DEF Hold, SampleType
  <2>3. Further(acc, S, n) = [holds |-> Append(acc.holds, fresh), rotations |-> turns]
    BY <1>4 DEF Further, ExtendHold
  <2> HIDE DEF fresh, turns
  <2>4. Held(Further(acc, S, n)) = Held(acc) + 1
    BY <1>1, <2>2, <2>3, HeldOneMore
  <2> QED
    BY <1>4, <2>4, HoldBegins
<1> QED
  BY <1>2, <1>3, <1>4

\* What the loop makes of any set of samples.
LEMMA StickinessCoherent ==
  ASSUME StoredInv, NEW M \in SUBSET (1 .. Len(stored))
  PROVE  /\ HoldsFollow(Stickiness(M)) /\ Stickiness(M) \in Sticky
         /\ Held(Stickiness(M)) = Cardinality(Successful(M))
<1> DEFINE S == Successful(M)
           N == Len(stored)
<1>1. /\ N \in Nat /\ S \in SUBSET Successful(1 .. N) /\ S \in SUBSET Nat /\ S \in SUBSET (1 .. N)
      /\ \A i \in S : i > 0
  <2>1. N \in Nat /\ S \in SUBSET (1 .. N)
    BY StoredFacts DEF Successful
  <2>2. S \in SUBSET Successful(1 .. N)
    BY DEF Successful
  <2> QED
    BY <2>1, <2>2
<1>2. PICK l : LoopUpTo(l, S, N) /\ DeriveStickiness(S) = l[N]
  BY <1>1, LoopRuns
<1>3. l[0] = NoHolds /\ \A n \in 1 .. N : l[n] = Further(l[n - 1], S, n)
  BY <1>1, <1>2, LoopSteps
<1> DEFINE Kept == {m \in 0 .. N : LoopInv(l[m], S, m)}
<1>4. 0 \in Kept
  BY <1>1, <1>3, LoopStarts
<1>5. ASSUME NEW m \in 0 .. N, m < N, m \in Kept PROVE m + 1 \in Kept
  <2> HIDE DEF S
  <2>1. m + 1 \in 1 .. N /\ m + 1 - 1 = m /\ m + 1 \in 0 .. N
    BY <1>1, <1>5
  <2>2. l[m + 1] = Further(l[m], S, m + 1)
    BY <1>3, <2>1
  <2>3. LoopInv(l[m], S, m + 1 - 1)
    BY <1>5, <2>1
  <2>4. LoopInv(Further(l[m], S, m + 1), S, m + 1)
    BY <1>1, <2>1, <2>3, LoopKeeps
  <2> QED
    BY <2>1, <2>2, <2>4
<1> HIDE DEF Kept
<1>6. 0 .. N \subseteq Kept
  BY <1>1, <1>4, <1>5, UpTo
<1>7. LoopInv(l[N], S, N)
  BY <1>1, <1>6 DEF Kept
<1>8. {i \in S : i <= N} = S
  BY <1>1
<1> QED
  BY <1>2, <1>7, <1>8 DEF LoopInv, Stickiness

LEMMA QueryInitEstablishes == QueryInit => QueryInv
<1> SUFFICES ASSUME QueryInit PROVE QueryInv
  OBVIOUS
<1>1. StoredInv
  BY DEF QueryInit, StoredInv
<1>2. QueryTypes
  BY DEF QueryInit, QueryFresh, QueryTypes, NoReading, NoReport
<1>3. reading.op = "none" /\ DOMAIN shown = {}
  BY DEF QueryInit, QueryFresh, NoReading
<1>4. PagesInv /\ PartsInv
  BY <1>3 DEF PagesInv, PartsInv, Turning
<1> QED
  BY <1>1, <1>2, <1>4 DEF QueryInv

\* What the samples stored so far say is not changed by a further one.
LEMMA StoreGrows ==
  ASSUME QueryInv, NEW at \in Instants, NEW ip \in SampleIPs \cup {Nil}, Store(at, ip)
  PROVE  /\ StoredInv' /\ Len(stored') = Len(stored) + 1
         /\ Matching \subseteq Matching' /\ Successful(Matching) \subseteq Successful(Matching)'
         /\ Matching' \in SUBSET (1 .. Len(stored) + 1) /\ Successful(Matching)' \in SUBSET (1 .. Len(stored) + 1)
         /\ Len(stored) \in Nat
<1> DEFINE n == Len(stored)
           new == [at |-> at, ip |-> ip,
                   new |-> IF ip # Nil /\ \A i \in DOMAIN stored : stored[i].ip # ip THEN 1 ELSE 0]
<1>1. stored' = Append(stored, new) /\ range' = range /\ \A i \in DOMAIN stored : stored[i].at <= at
  BY DEF Store
<1>2. new \in SampleType /\ new.at = at
  BY DEF SampleType
<1>3. StoredInv /\ stored \in Seq(SampleType) /\ n \in Nat /\ DOMAIN stored = 1 .. n
  BY StoredFacts DEF QueryInv, StoredInv
<1> HIDE DEF new
<1>4. /\ stored' \in Seq(SampleType) /\ Len(stored') = n + 1
      /\ \A i \in 1 .. n + 1 : stored'[i] = IF i = n + 1 THEN new ELSE stored[i]
  BY <1>1, <1>2, <1>3, AppendProperties
<1>5. DOMAIN stored' = 1 .. n + 1
  BY <1>4, IndexSet
<1>6. StoredInv'
  <2> SUFFICES ASSUME NEW i \in 1 .. n + 1, NEW j \in 1 .. n + 1, i <= j
               PROVE  stored'[i].at <= stored'[j].at
    BY <1>4 DEF StoredInv
  <2>1. CASE j = n + 1
    <3>1. stored'[j].at = at /\ at \in Int
      BY <1>2, <1>4, <2>1 DEF Instants
    <3> QED
      BY <1>1, <1>2, <1>3, <1>4, <2>1, <3>1
  <2>2. CASE j # n + 1
    <3>1. i \in 1 .. n /\ j \in 1 .. n
      BY <1>3, <2>2
    <3> QED
      BY <1>3, <1>4, <3>1 DEF StoredInv
  <2> QED
    BY <2>1, <2>2
<1>7. \A i \in 1 .. n : i \in 1 .. n + 1 /\ stored'[i] = stored[i]
  BY <1>3, <1>4
<1>8. Matching \subseteq Matching'
  BY <1>1, <1>3, <1>5, <1>7 DEF Matching, SampleWhere
<1>9. Successful(Matching) \subseteq Successful(Matching)'
  <2> SUFFICES ASSUME NEW i \in Successful(Matching) PROVE i \in Successful(Matching)'
    OBVIOUS
  <2>1. i \in Matching /\ stored[i].ip # Nil /\ i \in 1 .. n
    BY <1>3 DEF Successful, Matching, SampleWhere
  <2>2. i \in Matching' /\ stored'[i].ip # Nil
    BY <1>7, <1>8, <2>1
  <2> QED
    BY <2>2 DEF Successful
<1>10. Matching' \in SUBSET (1 .. n + 1) /\ Successful(Matching)' \in SUBSET (1 .. n + 1)
  BY <1>5 DEF Matching, SampleWhere, Successful
<1> QED
  BY <1>3, <1>4, <1>6, <1>8, <1>9, <1>10

\* Samples are only added, and in front of all others.
LEMMA StoreKeeps ==
  ASSUME QueryInv, NEW at \in Instants, NEW ip \in SampleIPs \cup {Nil}, Store(at, ip)
  PROVE  QueryInv'
<1>1. /\ StoredInv' /\ Len(stored') = Len(stored) + 1
      /\ Matching \subseteq Matching' /\ Successful(Matching) \subseteq Successful(Matching)'
      /\ Matching' \in SUBSET (1 .. Len(stored) + 1) /\ Successful(Matching)' \in SUBSET (1 .. Len(stored) + 1)
      /\ Len(stored) \in Nat
  BY StoreGrows
<1>2. /\ range' = range /\ reading' = reading /\ shown' = shown /\ atStart' = atStart /\ report' = report
  BY DEF Store
<1>3. QueryTypes'
  BY <1>2 DEF QueryInv, QueryTypes
<1>4. Len(stored) + 1 \in Nat
  BY <1>1
<1>5. ASSUME NEW i PROVE Place(i, Matching) \in Nat /\ Place(i, Matching) <= Place(i, Matching)' /\ Place(i, Matching)' \in Nat
  <2> DEFINE M == Matching
             N == Matching'
  <2>1. M \in SUBSET N /\ IsFiniteSet(N) /\ N \in SUBSET Nat
    BY <1>1, <1>4, IndexSubsets
  <2>2. IsFiniteSet(M)
    BY <2>1, FS_Subset, Zenon
  <2> HIDE DEF M, N
  <2>3. Place(i, M) \in Nat /\ Place(i, N) \in Nat /\ Place(i, M) <= Place(i, N)
    BY <2>1, <2>2, PlaceNat, PlaceGrows
  <2>4. Place(i, Matching)' = Place(i, N)
    BY DEF Place, N
  <2> QED
    BY <2>3, <2>4 DEF M
<1>6. PagesInv'
  <2>1. PagesInv
    BY DEF QueryInv
  <2>2. (Turning <=> Turning') /\ ShownSoFar' = ShownSoFar
    BY <1>2 DEF Turning, ShownSoFar
  <2>3. \A p \in DOMAIN shown' : p \in Nat \ {0} /\ (shown'[p] # {} => (p - 1) * PageSize < Len(stored'))
    <3> SUFFICES ASSUME NEW p \in DOMAIN shown, shown[p] # {} PROVE (p - 1) * PageSize < Len(stored')
      BY <1>2, <2>1 DEF PagesInv
    <3>1. (p - 1) * PageSize < Len(stored) /\ p \in Nat \ {0}
      BY <2>1 DEF PagesInv
    <3>2. (p - 1) * PageSize \in Int
      BY <3>1, SampleQueriesAssumption
    <3> QED
      BY <1>1, <3>1, <3>2
  <2>4. ASSUME Turning, reading.page = 1 \/ 1 \in DOMAIN shown, NEW i \in atStart \ ShownSoFar
        PROVE  Place(i, Matching)' >= (reading.page - 1) * PageSize
    <3>1. Place(i, Matching) >= (reading.page - 1) * PageSize /\ reading.page \in Nat \ {0}
      BY <2>1, <2>4 DEF PagesInv
    <3>2. (reading.page - 1) * PageSize \in Int
      BY <3>1, SampleQueriesAssumption
    <3> QED
      BY <1>5, <3>1, <3>2
  <2>5. reading.op = "samples" => atStart \subseteq Matching'
    BY <1>1, <2>1 DEF PagesInv
  <2>6. CheckedPageOffset(reading.page)' = CheckedPageOffset(reading.page)
    BY <1>2 DEF CheckedPageOffset
  <2>7. ASSUME Turning, reading.page = 1 \/ 1 \in DOMAIN shown
        PROVE  \A i \in atStart \ ShownSoFar : Place(i, Matching)' >= (reading.page - 1) * PageSize
    BY <2>4, <2>7
  <2> QED
    BY <1>2, <2>1, <2>2, <2>3, <2>5, <2>6, <2>7 DEF PagesInv
<1>7. PartsInv'
  <2>1. Cardinality(Matching) \in Nat /\ Cardinality(Matching') \in Nat /\ Cardinality(Matching) <= Cardinality(Matching')
    BY <1>1, <1>4, CountGrows
  <2>2. /\ Cardinality(Successful(Matching)) \in Nat /\ Cardinality(Successful(Matching)') \in Nat
        /\ Cardinality(Successful(Matching)) <= Cardinality(Successful(Matching)')
    BY <1>1, <1>4, CountGrows
  <2>3. /\ HoldsFollow(report.holds)' <=> HoldsFollow(report.holds)
        /\ Held(report.holds)' = Held(report.holds)
        /\ Charted(report.series, "ok")' = Charted(report.series, "ok")
        /\ Charted(report.series, "attempted")' = Charted(report.series, "attempted")
        /\ ReportCoherent' <=> ReportCoherent
    BY <1>2 DEF HoldsFollow, Held, Charted, ReportCoherent
  <2>4. PartsInv
    BY DEF QueryInv
  <2>5. /\ Cardinality(Matching)' = Cardinality(Matching')
        /\ Cardinality(Successful(Matching))' = Cardinality(Successful(Matching)')
    OBVIOUS
  <2>6. \A x \in 0 .. Cardinality(Matching) : x \in 0 .. Cardinality(Matching')
    BY <2>1
  <2>7. \A x \in 0 .. Cardinality(Successful(Matching)) : x \in 0 .. Cardinality(Successful(Matching)')
    BY <2>2
  <2> QED
    BY <1>2, <2>3, <2>4, <2>5, <2>6, <2>7 DEF PartsInv
<1> QED
  BY <1>1, <1>3, <1>6, <1>7 DEF QueryInv

LEMMA MatchingFacts ==
  ASSUME QueryInv
  PROVE  /\ Matching \in SUBSET (1 .. Len(stored)) /\ IsFiniteSet(Matching) /\ Matching \in SUBSET Nat
         /\ Cardinality(Matching) \in Nat /\ Cardinality(Matching) <= Len(stored) /\ Len(stored) \in Nat
         /\ Successful(Matching) \in SUBSET Matching /\ Cardinality(Successful(Matching)) \in Nat
         /\ Cardinality(Successful(Matching)) <= Cardinality(Matching)
<1>1. StoredInv
  BY DEF QueryInv
<1>2. Matching \in SUBSET (1 .. Len(stored)) /\ Len(stored) \in Nat
  BY <1>1, StoredFacts DEF Matching
<1>3. Successful(Matching) \in SUBSET Matching
  BY DEF Successful
<1>4. Cardinality(Successful(Matching)) \in Nat /\ Cardinality(Successful(Matching)) <= Cardinality(Matching)
  BY <1>2, <1>3, CountGrows
<1>5. IsFiniteSet(Matching) /\ Matching \in SUBSET Nat /\ Cardinality(Matching) \in Nat /\ Cardinality(Matching) <= Len(stored)
  BY <1>1, <1>2, StoredFacts
<1> QED
  BY <1>2, <1>3, <1>4, <1>5

LEMMA SessionSamplesKeeps ==
  ASSUME QueryInv, NEW page \in Pages, SessionSamples(page) PROVE QueryInv'
<1>1. /\ stored' = stored /\ range' = range /\ shown' = shown /\ report' = report /\ atStart' = Matching
      /\ Matching' = Matching /\ DOMAIN shown = {} /\ page \in Int
  BY SampleQueriesAssumption DEF SessionSamples, QueryInv, PagesInv, Matching, SampleWhere
<1>2. /\ reading'.op = "samples" /\ reading'.page = page /\ reading'.total = 0
      /\ reading' = [op |-> "samples", page |-> page, total |-> 0, pc |-> reading'.pc]
      /\ \/ reading'.pc = "invalid"
         \/ reading'.pc = "count" /\ page \in Nat \ {0}
  <2>1. CASE InvalidRange(range.from, range.to) \/ page < 1
    BY <1>1, <2>1 DEF SessionSamples
  <2>2. CASE ~(InvalidRange(range.from, range.to) \/ page < 1)
    <3>1. page \in Nat \ {0}
      BY <1>1, <2>2
    <3> QED
      BY <3>1, <2>2 DEF SessionSamples
  <2> QED
    BY <2>1, <2>2
<1>3. StoredInv'
  BY <1>1 DEF QueryInv, StoredInv
<1>4. QueryTypes'
  BY <1>1, <1>2 DEF QueryInv, QueryTypes
<1>5. ASSUME NEW i, page = 1 PROVE Place(i, Matching)' >= (page - 1) * PageSize
  <2>1. Place(i, Matching)' = Place(i, Matching) /\ Place(i, Matching) \in Nat
    BY <1>1, MatchingFacts, PlaceNat DEF Place
  <2>2. (page - 1) * PageSize = 0
    <3>1. page - 1 = 0 /\ PageSize \in Nat
      BY <1>5, SampleQueriesAssumption
    <3>2. 0 * PageSize = 0
      BY <3>1
    <3> QED
      BY <3>1, <3>2
  <2> QED
    BY <2>1, <2>2
<1>6. PagesInv'
  BY <1>1, <1>2, <1>5 DEF PagesInv, Turning
<1>7. PartsInv'
  BY <1>2 DEF PartsInv
<1> QED
  BY <1>3, <1>4, <1>6, <1>7 DEF QueryInv

LEMMA CountSamplesKeeps == ASSUME QueryInv, CountSamples PROVE QueryInv'
<1>1. /\ stored' = stored /\ range' = range /\ shown' = shown /\ report' = report /\ atStart' = atStart
      /\ Matching' = Matching /\ ShownSoFar' = ShownSoFar
      /\ reading.op = "samples" /\ reading.pc = "count" /\ Turning
  BY DEF CountSamples, Matching, SampleWhere, ShownSoFar, Turning
<1>2. /\ reading'.op = "samples" /\ reading'.page = reading.page
      /\ \/ reading'.pc = "invalid"
         \/ reading'.pc = "rows" /\ CheckedPageOffset(reading.page) # Nil
      /\ reading' \in [op : {"none", "samples", "report"}, page : Int, total : Nat,
                       pc : {"ready", "invalid", "count", "rows", "series", "stickiness", "growth", "done"}]
  <2>1. Cardinality(Matching) \in Nat
    BY MatchingFacts
  <2>2. reading \in [op : {"none", "samples", "report"}, page : Int, total : Nat,
                     pc : {"ready", "invalid", "count", "rows", "series", "stickiness", "growth", "done"}]
    BY DEF QueryInv, QueryTypes
  <2>3. CASE CheckedPageOffset(reading.page) = Nil
    BY <1>1, <2>2, <2>3 DEF CountSamples
  <2>4. CASE CheckedPageOffset(reading.page) # Nil
    BY <1>1, <2>1, <2>2, <2>4 DEF CountSamples
  <2> QED
    BY <2>3, <2>4
<1>3. StoredInv'
  BY <1>1 DEF QueryInv, StoredInv
<1>4. QueryTypes'
  BY <1>1, <1>2 DEF QueryInv, QueryTypes
<1>5. PagesInv'
  <2>1. \A i : Place(i, Matching)' = Place(i, Matching)
    BY <1>1 DEF Place
  <2>2. CheckedPageOffset(reading.page)' = CheckedPageOffset(reading.page)
    BY <1>2 DEF CheckedPageOffset
  <2>3. PagesInv
    BY DEF QueryInv
  <2>4. Turning' <=> reading'.pc = "rows"
    BY <1>2 DEF Turning
  <2> QED
    BY <1>1, <1>2, <2>1, <2>2, <2>3, <2>4 DEF PagesInv
<1>6. PartsInv'
  BY <1>2 DEF PartsInv
<1> QED
  BY <1>3, <1>4, <1>5, <1>6 DEF QueryInv

\* A page shows what has its place; what it leaves lies beyond it.
LEMMA QueryPageKeeps == ASSUME QueryInv, QueryPage PROVE QueryInv'
<1> DEFINE M == Matching
           p == reading.page
           o == (p - 1) * PageSize
           P == PageOf(M, o)
<1>1. /\ stored' = stored /\ range' = range /\ report' = report /\ atStart' = atStart /\ Matching' = M
      /\ reading.op = "samples" /\ reading.pc = "rows" /\ Turning
  BY DEF QueryPage, Matching, SampleWhere, Turning
<1>2. PagesInv /\ p \in Nat \ {0} /\ PageSize \in Nat \ {0} /\ (\A q \in DOMAIN shown : q < p /\ q \in Nat \ {0})
  BY <1>1, SampleQueriesAssumption DEF QueryInv, PagesInv
<1>3. o \in Nat /\ p * PageSize = o + PageSize /\ p + 1 - 1 = p
  <2>1. p - 1 \in Nat
    BY <1>2
  <2> QED
    BY <1>2, <2>1
<1>4. CheckedPageOffset(p) = o
  BY <1>1, <1>2 DEF CheckedPageOffset, PagesInv
<1>5. M \in SUBSET Nat /\ IsFiniteSet(M) /\ Cardinality(M) \in Nat /\ Cardinality(M) <= Len(stored) /\ Len(stored) \in Nat
  BY MatchingFacts
<1>6. p \notin DOMAIN shown
  BY <1>2
<1>7. /\ DOMAIN shown' = DOMAIN shown \cup {p} /\ shown'[p] = P
      /\ \A q \in DOMAIN shown : shown'[q] = shown[q]
  <2>1. shown' = [q \in DOMAIN shown \cup {p} |-> IF q = p THEN PageOf(M, CheckedPageOffset(q)) ELSE shown[q]]
    BY DEF QueryPage
  <2> HIDE DEF M, P, p, o
  <2>2. DOMAIN shown' = DOMAIN shown \cup {p} /\ shown'[p] = PageOf(M, CheckedPageOffset(p))
    BY <2>1
  <2>3. \A q \in DOMAIN shown : shown'[q] = shown[q]
    BY <1>6, <2>1
  <2> QED
    BY <1>4, <2>2, <2>3 DEF P
<1>8. ShownSoFar' = ShownSoFar \cup P
  <2> HIDE DEF P, p
  <2> QED
    BY <1>7 DEF ShownSoFar
<1>9. reading' = IF Cardinality(P) < PageSize THEN [reading EXCEPT !.pc = "done"]
                 ELSE [reading EXCEPT !.pc = "count", !.page = p + 1]
  BY <1>7 DEF QueryPage
<1>10. /\ reading'.op = "samples"
       /\ \/ Cardinality(P) < PageSize /\ reading'.pc = "done" /\ reading'.page = p
          \/ ~(Cardinality(P) < PageSize) /\ reading'.pc = "count" /\ reading'.page = p + 1
       /\ reading' \in [op : {"none", "samples", "report"}, page : Int, total : Nat,
                        pc : {"ready", "invalid", "count", "rows", "series", "stickiness", "growth", "done"}]
  <2>1. reading \in [op : {"none", "samples", "report"}, page : Int, total : Nat,
                     pc : {"ready", "invalid", "count", "rows", "series", "stickiness", "growth", "done"}]
    BY DEF QueryInv, QueryTypes
  <2>2. p + 1 \in Int
    BY <1>2
  <2> HIDE DEF P, p
  <2>3. CASE Cardinality(P) < PageSize
    BY <1>1, <1>9, <2>1, <2>3 DEF p
  <2>4. CASE ~(Cardinality(P) < PageSize)
    BY <1>1, <1>9, <2>1, <2>2, <2>4
  <2> QED
    BY <2>3, <2>4
<1>11. P # {} => o < Len(stored)
  <2> SUFFICES ASSUME NEW i \in P PROVE o < Len(stored)
    OBVIOUS
  <2>1. i \in M /\ Place(i, M) \in o .. o + PageSize - 1
    BY DEF PageOf
  <2>2. Place(i, M) < Cardinality(M) /\ Place(i, M) \in Nat
    BY <1>5, <2>1, PlaceNat
  <2> HIDE DEF M, o
  <2> QED
    BY <1>3, <1>5, <2>1, <2>2
\* What the walk has not shown yet lies beyond this page.
<1>12. ASSUME p = 1 \/ 1 \in DOMAIN shown, NEW i \in atStart \ (ShownSoFar \cup P)
       PROVE  Place(i, M) \in Nat /\ Place(i, M) >= o + PageSize /\ i \in M
  <2>1. Place(i, M) >= o /\ i \in M
    BY <1>1, <1>2, <1>12 DEF PagesInv
  <2>2. Place(i, M) \in Nat
    BY <1>5, PlaceNat
  <2>3. ~(Place(i, M) \in o .. o + PageSize - 1)
    BY <1>3, <1>12, <2>1 DEF PageOf
  <2> HIDE DEF M, o
  <2> QED
    BY <1>2, <1>3, <2>1, <2>2, <2>3
<1>13. ASSUME p = 1 \/ 1 \in DOMAIN shown, Cardinality(P) < PageSize
       PROVE  atStart \subseteq ShownSoFar \cup P
  <2> SUFFICES ASSUME NEW i \in atStart \ (ShownSoFar \cup P) PROVE FALSE
    OBVIOUS
  <2>1. Place(i, M) >= o + PageSize /\ i \in M
    BY <1>12, <1>13
  <2>2. P \in SUBSET M
    BY DEF PageOf
  <2>3. IsFiniteSet(P)
    BY <1>5, <2>2, FS_Subset, Zenon
  <2>4. Cardinality(P) \in Nat
    BY <2>3, FS_CardinalityType
  <2> HIDE DEF M, o
  <2>5. Cardinality(P) >= PageSize
    BY <1>3, <1>5, <2>1, FullPage
  <2> QED
    BY <1>2, <1>13, <2>4, <2>5
<1> HIDE DEF P
<1>14. StoredInv'
  BY <1>1 DEF QueryInv, StoredInv
<1>15. QueryTypes'
  BY <1>1, <1>10 DEF QueryInv, QueryTypes
<1>16. PagesInv'
  <2>1. \A i : Place(i, Matching)' = Place(i, M)
    BY <1>1 DEF Place
  <2>2. \A q \in DOMAIN shown' : q \in Nat \ {0} /\ (shown'[q] # {} => (q - 1) * PageSize < Len(stored'))
    <3> SUFFICES ASSUME NEW q \in DOMAIN shown'
                 PROVE  q \in Nat \ {0} /\ (shown'[q] # {} => (q - 1) * PageSize < Len(stored))
      BY <1>1
    <3>1. CASE q = p
      BY <1>2, <1>7, <1>11, <3>1
    <3>2. CASE q \in DOMAIN shown
      BY <1>2, <1>7, <3>2 DEF PagesInv
    <3> QED
      BY <1>7, <3>1, <3>2
  <2>3. atStart \subseteq M
    BY <1>1, <1>2 DEF PagesInv
  <2>4. 1 \in DOMAIN shown' => p = 1 \/ 1 \in DOMAIN shown
    BY <1>7
  <2>5. Turning' <=> reading'.pc = "count"
    BY <1>10 DEF Turning
  <2>6. CASE reading'.pc = "done"
    <3>1. 1 \in DOMAIN shown' => atStart \subseteq ShownSoFar'
      BY <1>8, <1>10, <1>13, <2>4, <2>6
    <3> QED
      BY <1>1, <1>10, <2>2, <2>3, <2>5, <2>6, <3>1 DEF PagesInv
  <2>7. CASE reading'.pc = "count"
    <3>1. reading'.page = p + 1 /\ p + 1 \in Nat \ {0} /\ \A q \in DOMAIN shown' : q < p + 1
      BY <1>2, <1>7, <1>10, <2>7
    <3>2. reading'.page = 1 \/ 1 \in DOMAIN shown' => p = 1 \/ 1 \in DOMAIN shown
      BY <1>2, <2>4, <3>1
    <3>3. ASSUME reading'.page = 1 \/ 1 \in DOMAIN shown', NEW i \in atStart \ ShownSoFar'
          PROVE  Place(i, M) >= (reading'.page - 1) * PageSize
      <4>1. Place(i, M) >= o + PageSize
        BY <1>8, <1>12, <3>2, <3>3
      <4>2. (reading'.page - 1) * PageSize = o + PageSize
        <5> HIDE DEF o, p
        <5>1. reading'.page - 1 = p
          BY <1>2, <3>1
        <5> QED
          BY <1>3, <5>1
      <4> QED
        BY <4>1, <4>2
    <3>4. reading'.page = 1 \/ 1 \in DOMAIN shown' =>
            \A i \in atStart \ ShownSoFar' : Place(i, M) >= (reading'.page - 1) * PageSize
      BY <3>3
    <3> QED
      BY <1>1, <1>10, <2>1, <2>2, <2>3, <2>5, <2>7, <3>1, <3>4 DEF PagesInv
  <2> QED
    BY <1>10, <2>6, <2>7
<1>17. PartsInv'
  BY <1>10 DEF PartsInv
<1> QED
  BY <1>14, <1>15, <1>16, <1>17 DEF QueryInv

LEMMA SessionReportKeeps == ASSUME QueryInv, SessionReport PROVE QueryInv'
<1>1. /\ stored' = stored /\ shown' = shown /\ report' = report /\ atStart' = atStart
      /\ stored # <<>> /\ DOMAIN shown = {}
      /\ reading'.op = "report" /\ reading'.page = 1 /\ reading'.total = 0 /\ reading'.pc \in {"invalid", "series"}
      /\ reading' = [op |-> "report", page |-> 1, total |-> 0, pc |-> reading'.pc]
  BY DEF SessionReport, NoReading, QueryInv, PagesInv
<1>2. stored[Len(stored)].at \in Instants
  <2>1. StoredInv /\ Len(stored) \in Nat /\ Len(stored) # 0
    BY <1>1, IndexSet DEF QueryInv, StoredInv
  <2>2. Len(stored) \in 1 .. Len(stored)
    BY <2>1
  <2>3. stored[Len(stored)] \in SampleType
    BY <2>1, <2>2, StoredFacts
  <2> QED
    BY <2>3 DEF SampleType
<1>3. range' \in [from : Instants \cup {Nil}, to : Instants \cup {Nil}]
  <2>1. range \in [from : Instants \cup {Nil}, to : Instants \cup {Nil}] /\ 0 \in Instants
    BY SampleQueriesAssumption DEF QueryInv, QueryTypes, Instants
  <2>2. range' = [from |-> IF range.from = Nil THEN 0 ELSE range.from,
                  to   |-> IF range.to = Nil THEN stored[Len(stored)].at ELSE range.to]
    BY DEF SessionReport
  <2> QED
    BY <1>2, <2>1, <2>2
<1>4. StoredInv'
  BY <1>1 DEF QueryInv, StoredInv
<1>5. QueryTypes'
  BY <1>1, <1>3 DEF QueryInv, QueryTypes
<1>6. PagesInv'
  BY <1>1 DEF PagesInv, Turning
<1>7. PartsInv'
  BY <1>1 DEF PartsInv
<1> QED
  BY <1>4, <1>5, <1>6, <1>7 DEF QueryInv

\* A query of a report: what it leaves alone, and the part it adds.
LEMMA PartKeeps ==
  ASSUME QueryInv, reading.op = "report", PartsInv',
         UNCHANGED <<stored, range, shown, atStart>>,
         NEW next \in {"stickiness", "growth", "done"}, reading' = [reading EXCEPT !.pc = next],
         NEW d \in {"series", "holds", "growth"}, NEW part, report' = [report EXCEPT ![d] = part]
  PROVE  QueryInv'
<1>1. StoredInv'
  BY DEF QueryInv, StoredInv
<1>2. /\ reading'.op = "report" /\ reading'.pc = next
      /\ reading' \in [op : {"none", "samples", "report"}, page : Int, total : Nat,
                       pc : {"ready", "invalid", "count", "rows", "series", "stickiness", "growth", "done"}]
  BY DEF QueryInv, QueryTypes
<1>3. report' = [series |-> report'.series, holds |-> report'.holds, growth |-> report'.growth]
  <2>1. report = [series |-> report.series, holds |-> report.holds, growth |-> report.growth]
    BY DEF QueryInv, QueryTypes
  <2> QED
    BY <2>1
<1>4. QueryTypes'
  BY <1>2, <1>3 DEF QueryInv, QueryTypes
<1>5. PagesInv'
  BY <1>2 DEF QueryInv, PagesInv, Turning
<1> QED
  BY <1>1, <1>4, <1>5 DEF QueryInv

LEMMA QuerySeriesKeeps == ASSUME QueryInv, QuerySeries PROVE QueryInv'
<1> DEFINE w == Bucket(range.from, range.to)
           s == Series(Matching, w)
<1>1. /\ reading.op = "report" /\ UNCHANGED <<stored, range, shown, atStart>>
      /\ report' = [report EXCEPT !["series"] = s] /\ reading' = [reading EXCEPT !.pc = "stickiness"]
  BY DEF QuerySeries
<1>2. IsFiniteSet(Matching) /\ Cardinality(Matching) \in Nat /\ Cardinality(Successful(Matching)) \in Nat
  BY MatchingFacts
<1> HIDE DEF w
<1>3. Charted(s, "attempted") = Cardinality(Matching) /\ Charted(s, "ok") = Cardinality(Successful(Matching))
  BY <1>2, SeriesSums
<1> HIDE DEF s
<1>4. report'.series = s /\ reading'.op = "report" /\ reading'.pc = "stickiness"
  <2>1. "series" \in DOMAIN report /\ reading \in [op : {"none", "samples", "report"}, page : Int, total : Nat,
                     pc : {"ready", "invalid", "count", "rows", "series", "stickiness", "growth", "done"}]
    BY DEF QueryInv, QueryTypes
  <2> QED
    BY <1>1, <2>1
<1>5. Matching' = Matching /\ Successful(Matching)' = Successful(Matching)
  BY <1>1 DEF Matching, SampleWhere, Successful
<1>6. /\ Charted(report.series, "attempted")' = Cardinality(Matching)'
      /\ Charted(report.series, "ok")' = Cardinality(Successful(Matching))'
  BY <1>3, <1>4, <1>5 DEF Charted
<1>7. PartsInv'
  BY <1>2, <1>4, <1>5, <1>6 DEF PartsInv
<1> QED
  BY <1>1, <1>7, PartKeeps

LEMMA QueryStickinessKeeps == ASSUME QueryInv, QueryStickiness PROVE QueryInv'
<1> DEFINE h == Stickiness(Matching)
<1>1. /\ reading.op = "report" /\ reading.pc = "stickiness" /\ UNCHANGED <<stored, range, shown, atStart>>
      /\ report' = [report EXCEPT !["holds"] = h] /\ reading' = [reading EXCEPT !.pc = "growth"]
  BY DEF QueryStickiness
<1>2. /\ Matching \in SUBSET (1 .. Len(stored)) /\ Cardinality(Matching) \in Nat
      /\ Cardinality(Successful(Matching)) \in Nat /\ Cardinality(Successful(Matching)) <= Cardinality(Matching)
      /\ StoredInv
  BY MatchingFacts DEF QueryInv
<1>3. HoldsFollow(h) /\ Held(h) = Cardinality(Successful(Matching))
  BY <1>2, StickinessCoherent
<1> HIDE DEF h
<1>4. report'.holds = h /\ report'.series = report.series /\ reading'.op = "report" /\ reading'.pc = "growth"
  <2>1. report = [series |-> report.series, holds |-> report.holds, growth |-> report.growth]
        /\ reading \in [op : {"none", "samples", "report"}, page : Int, total : Nat,
                     pc : {"ready", "invalid", "count", "rows", "series", "stickiness", "growth", "done"}]
    BY DEF QueryInv, QueryTypes
  <2> QED
    BY <1>1, <2>1
<1>5. Matching' = Matching
  BY <1>1 DEF Matching, SampleWhere
<1>6. /\ Charted(report.series, "ok") \in 0 .. Cardinality(Successful(Matching))
      /\ Charted(report.series, "attempted") \in 0 .. Cardinality(Matching)
  BY <1>1 DEF QueryInv, PartsInv
<1>7. /\ Charted(report.series, "ok")' = Charted(report.series, "ok")
      /\ Charted(report.series, "attempted")' = Charted(report.series, "attempted")
      /\ Held(report.holds)' = Held(h)
      /\ HoldsFollow(report.holds)'
  BY <1>3, <1>4 DEF Charted, Held, HoldsFollow
<1>8. PartsInv'
  BY <1>2, <1>3, <1>4, <1>5, <1>6, <1>7 DEF PartsInv
<1> QED
  BY <1>1, <1>8, PartKeeps

LEMMA QueryGrowthKeeps == ASSUME QueryInv, QueryGrowth PROVE QueryInv'
<1> DEFINE g == PoolGrowth(Matching)
<1>1. /\ reading.op = "report" /\ reading.pc = "growth" /\ UNCHANGED <<stored, range, shown, atStart>>
      /\ report' = [report EXCEPT !["growth"] = g] /\ reading' = [reading EXCEPT !.pc = "done"]
  BY DEF QueryGrowth
<1>2. /\ Matching \in SUBSET (1 .. Len(stored)) /\ Cardinality(Matching) \in Nat /\ StoredInv
  BY MatchingFacts DEF QueryInv
<1>3. DOMAIN g = Matching /\ \A i, j \in Matching : i <= j => g[i] <= g[j]
  BY <1>2, GrowthRises DEF PoolGrowth
<1> HIDE DEF g
<1>4. /\ report'.growth = g /\ report'.series = report.series /\ report'.holds = report.holds
      /\ reading'.op = "report" /\ reading'.pc = "done"
  <2>1. report = [series |-> report.series, holds |-> report.holds, growth |-> report.growth]
        /\ reading \in [op : {"none", "samples", "report"}, page : Int, total : Nat,
                     pc : {"ready", "invalid", "count", "rows", "series", "stickiness", "growth", "done"}]
    BY DEF QueryInv, QueryTypes
  <2> QED
    BY <1>1, <2>1
<1>5. /\ HoldsFollow(report.holds) /\ Held(report.holds) \in 0 .. Cardinality(Matching)
      /\ Charted(report.series, "ok") <= Held(report.holds)
      /\ Charted(report.series, "attempted") \in 0 .. Cardinality(Matching)
  BY <1>1 DEF QueryInv, PartsInv
<1>6. /\ Charted(report.series, "ok")' = Charted(report.series, "ok")
      /\ Charted(report.series, "attempted")' = Charted(report.series, "attempted")
      /\ Held(report.holds)' = Held(report.holds)
      /\ HoldsFollow(report.holds)'
  BY <1>4, <1>5 DEF Charted, Held, HoldsFollow
<1>7. ReportCoherent'
  <2>1. Charted(report.series, "ok")' <= Held(report.holds)'
    BY <1>5, <1>6
  <2>2. DOMAIN report'.growth = Matching
    BY <1>3, <1>4
  <2>3. /\ Charted(report.series, "attempted")' <= Cardinality(DOMAIN report'.growth)
        /\ Held(report.holds)' <= Cardinality(DOMAIN report'.growth)
    BY <1>2, <1>5, <1>6, <2>2
  <2>4. \A i, j \in DOMAIN report'.growth : i <= j => report'.growth[i] <= report'.growth[j]
    BY <1>3, <1>4
  <2> QED
    BY <1>6, <2>1, <2>3, <2>4 DEF ReportCoherent
<1>8. PartsInv'
  BY <1>4, <1>7 DEF PartsInv
<1> QED
  BY <1>1, <1>8, PartKeeps

LEMMA QueryingKeeps == QueryInv /\ [Querying]_queryVars => QueryInv'
<1> SUFFICES ASSUME QueryInv, [Querying]_queryVars PROVE QueryInv'
  OBVIOUS
<1>1. CASE \E at \in Instants, ip \in SampleIPs \cup {Nil} : Store(at, ip)
  BY <1>1, StoreKeeps
<1>2. CASE \E page \in Pages : SessionSamples(page)
  BY <1>2, SessionSamplesKeeps
<1>3. CASE CountSamples
  BY <1>3, CountSamplesKeeps
<1>4. CASE QueryPage
  BY <1>4, QueryPageKeeps
<1>5. CASE SessionReport
  BY <1>5, SessionReportKeeps
<1>6. CASE QuerySeries
  BY <1>6, QuerySeriesKeeps
<1>7. CASE QueryStickiness
  BY <1>7, QueryStickinessKeeps
<1>8. CASE QueryGrowth
  BY <1>8, QueryGrowthKeeps
<1>9. CASE UNCHANGED queryVars
  <2>1. /\ stored' = stored /\ range' = range /\ reading' = reading
        /\ shown' = shown /\ atStart' = atStart /\ report' = report
    BY <1>9 DEF queryVars
  <2>2. StoredInv' /\ QueryTypes'
    BY <2>1 DEF QueryInv, StoredInv, QueryTypes
  <2>3. PagesInv'
    BY <2>1 DEF QueryInv, PagesInv, Turning, ShownSoFar, Matching, SampleWhere, Place, CheckedPageOffset
  <2>4. PartsInv'
    BY <2>1 DEF QueryInv, PartsInv, Matching, SampleWhere, Successful, ReportCoherent, Charted, Held, HoldsFollow
  <2> QED
    BY <2>2, <2>3, <2>4 DEF QueryInv
<1> QED
  BY <1>1, <1>2, <1>3, <1>4, <1>5, <1>6, <1>7, <1>8, <1>9 DEF Querying

\* Reading while the writer stores further samples shows a consistent picture,
\* for every page size, range, bucket and number of samples: a walk over the
\* pages misses no sample, a page too far out is empty or refused, and the
\* parts of a report agree (Samples, Series, Stickiness, PoolGrowth).
THEOREM ReadsCoherentHolds == QuerySpec => []ReadsCoherent
<1>1. QueryInv => ReadsCoherent
  <2> SUFFICES ASSUME QueryInv PROVE ReadsCoherent
    OBVIOUS
  <2>1. PagesInv /\ QueryTypes /\ PartsInv /\ Len(stored) \in Nat
    BY MatchingFacts DEF QueryInv
  <2>2. ASSUME NEW p \in DOMAIN shown, (p - 1) * PageSize >= Len(stored) PROVE shown[p] = {}
    <3>1. p \in Nat \ {0} /\ (shown[p] # {} => (p - 1) * PageSize < Len(stored))
      BY <2>1 DEF PagesInv
    <3>2. (p - 1) * PageSize \in Int
      BY <3>1, SampleQueriesAssumption
    <3> QED
      BY <2>1, <2>2, <3>1, <3>2
  <2>3. PagesMissNothing
    BY <2>1, <2>2 DEF PagesInv, PagesMissNothing, ShownSoFar
  <2>4. ReportCoherent
    <3>1. CASE reading.op = "report" /\ reading.pc = "done"
      BY <2>1, <3>1 DEF PartsInv
    <3>2. CASE ~(reading.op = "report" /\ reading.pc = "done")
      BY <3>2 DEF ReportCoherent
    <3> QED
      BY <3>1, <3>2
  <2> QED
    BY <2>3, <2>4 DEF ReadsCoherent
<1> QED
  BY <1>1, QueryInitEstablishes, QueryingKeeps, PTL DEF QuerySpec

-----------------------------------------------------------------------------
(* From the axes of a run to its variants: a count that is planned with    *)
(* integers that wrap, and two products that are made one base at a time.  *)

\* One expansion on its own.
ExpandSpec == ExpandInit /\ [][Expand]_expansionVars

\* The axes that mapAxes returns, and where an expansion that was planned stands.
Mapped == [kind : STRING, values : Seq(Int), from : MinInt .. MaxInt, to : MinInt .. MaxInt,
           count : MinInt .. MaxInt, length : MinInt .. MaxInt, unsafe : BOOLEAN]
Extending == {"values", "cross", "cell", "draw", "done"}
Visiting  == {"cell", "draw", "done"}

(***************************************************************************)
(* The inductive invariant.  That the number of variants is the planned    *)
(* one says nothing before the end, and the parts that say it all along    *)
(* are these: what is planned is the product of the sizes of the axes that *)
(* were multiplied (PlanInv); the loop over a fixed axis has its first     *)
(* values (ValuesInv); a product half made has as many combinations as its *)
(* bases had, times the size of each axis, and no combination continues    *)
(* one of the bases that are still to be extended (Producing, of the fixed *)
(* axes and then, in every cell, of the random ones); and the variants are *)
(* those of the cells that were visited (Visited).                         *)
(***************************************************************************)
ExpandTypes ==
  /\ placeholders \in SUBSET Names /\ DOMAIN axes \in SUBSET Names /\ maxVariants \in Limits
  /\ step \in {"map", "match", "plan", "error"} \cup Extending
  /\ axes \in [DOMAIN axes -> AxisSpec \cup Mapped]
  /\ step \notin {"map", "error"} \/ total # Nil => axes \in [DOMAIN axes -> Mapped]

\* What plannedCount has multiplied is exact, and positive, as long as it goes
\* on; it refuses only what is empty or beyond the limit.  An expansion that fails
\* later has stayed within the plan.
Usable(S) == \A n \in S : Sizes[n] >= 1
PlanAccepted  == placeholders = DOMAIN axes /\ total = TrueProduct /\ total \in 1 .. maxVariants /\ Usable(placeholders)
PlanRefused   == placeholders = DOMAIN axes /\ total = 0 /\ TrueProduct \notin 1 .. maxVariants
PlanInv ==
  /\ step \in {"map", "match"} => total = Nil /\ planned = {}
  /\ step = "plan" => /\ placeholders = DOMAIN axes /\ planned \subseteq placeholders
                      /\ total = Product(Sizes, planned) /\ total \in 1 .. maxVariants /\ Usable(planned)
  /\ step \in Extending => PlanAccepted
  /\ step = "error" => (total = Nil \/ PlanRefused \/ PlanAccepted) /\ LoopsBounded

\* The values of a fixed axis: all of a list, or a range up to where the loop is.
ListSoFar(list, atEnd, spec) ==
  /\ list \in Seq(Int) /\ atEnd \in BOOLEAN
  /\ spec.kind = "list" => list = IF atEnd THEN spec.values ELSE <<>>
  /\ spec.kind = "range" => /\ Len(list) <= spec.to - spec.from + 1
                            /\ \A i \in 1 .. Len(list) : list[i] = spec.from + i - 1
                            /\ atEnd <=> Len(list) = spec.to - spec.from + 1
ValuesInv ==
  /\ step \in {"map", "match", "plan"} => values = <<>>
  /\ step \in Extending => DOMAIN values = Fixed /\ \A n \in Fixed : ListSoFar(values[n].list, values[n].closed, axes[n])
  /\ step \in Extending \ {"values"} => \A n \in Fixed : values[n].closed

\* A product half made.  The combinations are distinct, and what has grown
\* extends no base that is still to be extended, except the first one by the
\* values drawn for it.
Points(D) == [D -> Int]
Extends(p, base) == \A x \in DOMAIN base : p[x] = base[x]
Halfway(bases, longer, n, drawn) ==
  /\ Distinct(bases) /\ Distinct(longer)
  /\ \A i \in DOMAIN longer, j \in DOMAIN bases :
       Extends(longer[i], bases[j]) => j = 1 /\ longer[i][n] \in drawn
Made(bases, longer, D, n) ==
  /\ bases \in Seq(Points(D)) /\ bases # <<>>
  /\ longer \in Seq(Points(D \cup {n}))

\* The product of the axes All, of sizes f, on top of the parameters B; D are
\* the parameters that the bases have by now.
NextAxis(D, All) == Min(All \ D)
Producing(f, bases, longer, drawn, B, D, All, distinct) ==
  /\ bases \in Seq(Points(D)) /\ bases # <<>> /\ B \subseteq D /\ D \subseteq All
  /\ D = All => /\ longer = <<>> /\ drawn = {} /\ Len(bases) = Product(f, All \ B)
                /\ distinct => Distinct(bases)
  /\ D # All =>
       LET n == NextAxis(D, All)
       IN /\ Made(bases, longer, D, n)
          /\ IsFiniteSet(drawn) /\ Cardinality(drawn) < f[n]
          /\ Len(longer) + Len(bases) * f[n] = Product(f, D \ B) * f[n] + Cardinality(drawn)
          /\ distinct => Halfway(bases, longer, n, drawn)

\* cartesian: the fixed axes, from no parameter at all.
CrossInv ==
  step = "cross" =>
    /\ variants = <<>> /\ combos = <<>> /\ seen = {}
    /\ Producing(Sizes, cells, grown, {}, {}, DOMAIN cells[1], Fixed, ListsDistinct)

\* randomCartesian: the random axes, from one cell.
DrawInv ==
  step = "draw" =>
    /\ cells # <<>>
    /\ Producing(Sizes, combos, grown, seen, Fixed, DOMAIN combos[1], DOMAIN axes, TRUE)
    /\ \A i \in DOMAIN combos : Extends(combos[i], cells[1])
    /\ \A i \in DOMAIN grown : Extends(grown[i], cells[1])

\* The cells that were visited, and those still to be.
Visited ==
  /\ cells \in Seq(Points(Fixed)) /\ variants \in Seq(Points(DOMAIN axes))
  /\ Len(variants) + Len(cells) * Product(Sizes, Random) = total
  /\ ListsDistinct =>
       /\ Distinct(cells) /\ Distinct(variants)
       /\ \A y \in DOMAIN variants, j \in DOMAIN cells : ~Extends(variants[y], cells[j])
       /\ \A y \in DOMAIN variants : Cardinality(SameCell(y)) = Product(Sizes, Random)
VariantsInv ==
  /\ step \in {"map", "match", "plan", "values"} => cells = <<>> /\ variants = <<>> /\ NothingDrawn
  /\ step \in {"cell", "done"} => combos = <<>> /\ grown = <<>> /\ seen = {}
  /\ step = "done" => cells = <<>>
  /\ step \in Visiting => Visited

ExpandInv == ExpandTypes /\ PlanInv /\ ValuesInv /\ CrossInv /\ DrawInv /\ VariantsInv

-----------------------------------------------------------------------------
(* Products, as numbers of choices.                                        *)

\* The ways to choose are finitely many.
LEMMA PicksFinite ==
  ASSUME NEW f, NEW S, IsFiniteSet(S), \A x \in S : f[x] \in Nat
  PROVE  IsFiniteSet(Picks(f, S)) /\ Product(f, S) \in Nat
<1> DEFINE all == {1 .. f[x] : x \in S}
           some == UNION all
           slice == [x \in S |-> 1 .. f[x]]
           graph == [p \in Picks(f, S) |-> {<<x, p[x]>> : x \in S}]
<1>1. slice \in Surjection(S, all)
  BY DEF Surjection
<1>2. IsFiniteSet(all)
  BY <1>1, FS_Surjection, Zenon
<1>3. ASSUME NEW T \in all PROVE IsFiniteSet(T)
  <2>1. PICK x \in S : T = 1 .. f[x]
    OBVIOUS
  <2>2. 1 \in Int /\ f[x] \in Int
    OBVIOUS
  <2> QED
    BY <2>1, <2>2, FS_Interval
<1>4. IsFiniteSet(some)
  BY <1>2, <1>3, FS_UNION, Zenon
<1>5. IsFiniteSet(SUBSET (S \X some))
  <2>1. IsFiniteSet(S \X some)
    <3> HIDE DEF some
    <3> QED BY <1>4, FS_Product
  <2> QED
    BY <2>1, FS_SUBSET, Zenon
<1>6. ASSUME NEW p \in Picks(f, S) PROVE p \in [S -> some] /\ \A x \in S : p[x] \in 1 .. f[x]
  BY DEF Picks
<1>7. ASSUME NEW p \in Picks(f, S) PROVE graph[p] \in SUBSET (S \X some)
  BY <1>6
<1>8. ASSUME NEW p \in Picks(f, S), NEW q \in Picks(f, S), graph[p] = graph[q] PROVE p = q
  <2>1. ASSUME NEW x \in S PROVE p[x] = q[x]
    <3>1. <<x, p[x]>> \in graph[q]
      BY <1>8
    <3> QED
      BY <3>1
  <2> HIDE DEF graph, some
  <2> QED
    BY <1>6, <2>1
<1>9. graph \in Injection(Picks(f, S), SUBSET (S \X some))
  <2>1. graph \in [Picks(f, S) -> SUBSET (S \X some)]
    BY <1>7
  <2> HIDE DEF graph, some
  <2> QED
    BY <1>8, <2>1 DEF Injection, IsInjective
<1>10. IsFiniteSet(Picks(f, S))
  <2> HIDE DEF graph, some
  <2> QED
    BY <1>5, <1>9, FS_Injection, Zenon
<1> QED
  BY <1>10, FS_CardinalityType DEF Product

\* One way to choose nothing.
LEMMA ProductEmpty == ASSUME NEW f PROVE Product(f, {}) = 1
<1> DEFINE none == [x \in {} |-> 0]
<1>1. Picks(f, {}) = {none}
  BY DEF Picks
<1> QED
  BY <1>1, FS_Singleton DEF Product

\* What is chosen for two sets is chosen for each.
LEMMA ProductSplit ==
  ASSUME NEW f, NEW S, IsFiniteSet(S), NEW T, IsFiniteSet(T), S \cap T = {},
         \A x \in S \cup T : f[x] \in Nat
  PROVE  Product(f, S \cup T) = Product(f, S) * Product(f, T)
<1> DEFINE U == S \cup T
           cut == [p \in Picks(f, U) |-> <<[x \in S |-> p[x]], [x \in T |-> p[x]]>>]
           pairs == Picks(f, S) \X Picks(f, T)
<1>1. ASSUME NEW R, NEW p PROVE p \in Picks(f, R) <=> p = [x \in R |-> p[x]] /\ \A x \in R : p[x] \in 1 .. f[x]
  <2>1. p \in Picks(f, R) => p = [x \in R |-> p[x]] /\ \A x \in R : p[x] \in 1 .. f[x]
    BY DEF Picks
  <2>2. ASSUME p = [x \in R |-> p[x]], \A x \in R : p[x] \in 1 .. f[x] PROVE p \in Picks(f, R)
    <3>1. \A x \in R : p[x] \in UNION {1 .. f[y] : y \in R}
      BY <2>2
    <3>2. p \in [R -> UNION {1 .. f[y] : y \in R}]
      BY <2>2, <3>1
    <3> QED
      BY <2>2, <3>2 DEF Picks
  <2> QED
    BY <2>1, <2>2
<1>2. ASSUME NEW p \in Picks(f, U)
      PROVE  [x \in S |-> p[x]] \in Picks(f, S) /\ [x \in T |-> p[x]] \in Picks(f, T)
  <2>1. \A x \in U : p[x] \in 1 .. f[x]
    BY <1>1
  <2> DEFINE left == [x \in S |-> p[x]]
             right == [x \in T |-> p[x]]
  <2>2. left = [x \in S |-> left[x]] /\ \A x \in S : left[x] \in 1 .. f[x]
    BY <2>1
  <2>3. right = [x \in T |-> right[x]] /\ \A x \in T : right[x] \in 1 .. f[x]
    BY <2>1
  <2> HIDE DEF left, right
  <2>4. left \in Picks(f, S) /\ right \in Picks(f, T)
    BY <1>1, <2>2, <2>3
  <2> QED
    BY <2>4 DEF left, right
<1>3. cut \in [Picks(f, U) -> pairs]
  BY <1>2
<1>4. ASSUME NEW p \in Picks(f, U), NEW q \in Picks(f, U), cut[p] = cut[q] PROVE p = q
  <2>1. [x \in S |-> p[x]] = [x \in S |-> q[x]] /\ [x \in T |-> p[x]] = [x \in T |-> q[x]]
    BY <1>4
  <2>2. ASSUME NEW x \in S PROVE p[x] = q[x]
    <3>1. [y \in S |-> p[y]][x] = p[x] /\ [y \in S |-> q[y]][x] = q[x]
      OBVIOUS
    <3> QED BY <2>1, <3>1
  <2>3. ASSUME NEW x \in T PROVE p[x] = q[x]
    <3>1. [y \in T |-> p[y]][x] = p[x] /\ [y \in T |-> q[y]][x] = q[x]
      OBVIOUS
    <3> QED BY <2>1, <3>1
  <2>4. \A x \in U : p[x] = q[x]
    BY <2>2, <2>3
  <2>5. p = [x \in U |-> p[x]] /\ q = [x \in U |-> q[x]]
    BY <1>1
  <2>6. [x \in U |-> p[x]] = [x \in U |-> q[x]]
    BY <2>4
  <2> QED
    BY <2>5, <2>6
<1>5. ASSUME NEW left \in Picks(f, S), NEW right \in Picks(f, T)
      PROVE  \E p \in Picks(f, U) : cut[p] = <<left, right>>
  <2> DEFINE p == [x \in U |-> IF x \in S THEN left[x] ELSE right[x]]
  <2>1. /\ left = [x \in S |-> left[x]] /\ \A x \in S : left[x] \in 1 .. f[x]
        /\ right = [x \in T |-> right[x]] /\ \A x \in T : right[x] \in 1 .. f[x]
    BY <1>1
  <2>2. (\A x \in S : p[x] = left[x]) /\ (\A x \in T : p[x] = right[x])
    OBVIOUS
  <2>3. p = [x \in U |-> p[x]] /\ \A x \in U : p[x] \in 1 .. f[x]
    BY <2>1, <2>2
  <2> HIDE DEF p
  <2>4. p \in Picks(f, U)
    BY <1>1, <2>3
  <2>5. [x \in S |-> p[x]] = [x \in S |-> left[x]] /\ [x \in T |-> p[x]] = [x \in T |-> right[x]]
    BY <2>2
  <2>6. cut[p] = <<left, right>>
    BY <2>1, <2>4, <2>5
  <2> QED
    BY <2>4, <2>6
<1>6. cut \in Bijection(Picks(f, U), pairs)
  <2>1. ASSUME NEW z \in pairs PROVE \E p \in Picks(f, U) : cut[p] = z
    <3>1. z[1] \in Picks(f, S) /\ z[2] \in Picks(f, T) /\ z = <<z[1], z[2]>>
      OBVIOUS
    <3> HIDE DEF cut, pairs
    <3> QED
      BY <1>5, <3>1
  <2> HIDE DEF cut, pairs
  <2> QED
    BY <1>3, <1>4, <2>1 DEF Bijection, Injection, Surjection, IsInjective
<1>7. IsFiniteSet(U)
  BY FS_Union
<1>8. IsFiniteSet(Picks(f, S)) /\ IsFiniteSet(Picks(f, T)) /\ IsFiniteSet(Picks(f, U))
  <2> HIDE DEF U
  <2>1. \A x \in U : f[x] \in Nat
    BY DEF U
  <2> QED
    BY <1>7, <2>1, PicksFinite
<1>9. Cardinality(pairs) = Cardinality(Picks(f, S)) * Cardinality(Picks(f, T))
  BY <1>8, FS_Product
<1>10. Cardinality(pairs) = Cardinality(Picks(f, U))
  <2>1. ExistsBijection(Picks(f, U), pairs)
    BY <1>6 DEF ExistsBijection
  <2> HIDE DEF pairs, U
  <2> QED
    BY <1>8, <2>1, FS_Bijection
<1> QED
  BY <1>9, <1>10 DEF Product

\* One factor alone.
LEMMA ProductOne ==
  ASSUME NEW f, NEW y, f[y] \in Nat
  PROVE  Product(f, {y}) = f[y]
<1> DEFINE only == [i \in 1 .. f[y] |-> [x \in {y} |-> i]]
<1>1. ASSUME NEW i \in 1 .. f[y] PROVE only[i] \in Picks(f, {y})
  BY DEF Picks
<1>2. ASSUME NEW i \in 1 .. f[y], NEW j \in 1 .. f[y], only[i] = only[j] PROVE i = j
  <2>1. only[i][y] = i /\ only[j][y] = j
    OBVIOUS
  <2> QED BY <1>2, <2>1
<1>3. ASSUME NEW p \in Picks(f, {y}) PROVE \E i \in 1 .. f[y] : only[i] = p
  <2>1. p[y] \in 1 .. f[y] /\ p = [x \in {y} |-> p[x]]
    BY DEF Picks
  <2>2. [x \in {y} |-> p[x]] = [x \in {y} |-> p[y]]
    OBVIOUS
  <2> QED
    BY <2>1, <2>2
<1>4. only \in Bijection(1 .. f[y], Picks(f, {y}))
  <2>1. only \in [1 .. f[y] -> Picks(f, {y})]
    BY <1>1
  <2> HIDE DEF only
  <2> QED
    BY <1>2, <1>3, <2>1 DEF Bijection, Injection, Surjection, IsInjective
<1>5. ExistsBijection(1 .. f[y], Picks(f, {y}))
  BY <1>4 DEF ExistsBijection
<1>6. IsFiniteSet(1 .. f[y]) /\ Cardinality(1 .. f[y]) = f[y]
  <2>1. 1 \in Int /\ f[y] \in Int
    OBVIOUS
  <2> QED
    BY <2>1, FS_Interval
<1> QED
  BY <1>5, <1>6, FS_Bijection DEF Product

\* One factor more.
LEMMA ProductAdd ==
  ASSUME NEW f, NEW S, IsFiniteSet(S), NEW y, y \notin S, \A x \in S \cup {y} : f[x] \in Nat
  PROVE  Product(f, S \cup {y}) = Product(f, S) * f[y]
<1>1. IsFiniteSet({y}) /\ S \cap {y} = {}
  BY FS_Singleton
<1>2. Product(f, S \cup {y}) = Product(f, S) * Product(f, {y})
  BY <1>1, ProductSplit
<1> QED
  BY <1>2, ProductOne

\* A product depends on its factors only.
LEMMA ProductSame ==
  ASSUME NEW f, NEW g, NEW S, \A x \in S : f[x] = g[x]
  PROVE  Product(f, S) = Product(g, S)
<1>1. Picks(f, S) = Picks(g, S)
  BY DEF Picks
<1> QED
  BY <1>1 DEF Product

\* No factor is zero, and so the product is not.
LEMMA ProductPositive ==
  ASSUME NEW f, NEW S, IsFiniteSet(S), \A x \in S : f[x] \in Nat /\ f[x] >= 1
  PROVE  Product(f, S) \in Nat /\ Product(f, S) >= 1
<1> DEFINE first == [x \in S |-> 1]
<1>1. first \in Picks(f, S)
  BY DEF Picks
<1>2. IsFiniteSet(Picks(f, S)) /\ Product(f, S) \in Nat
  BY PicksFinite
<1>3. Product(f, S) # 0
  <2>1. Picks(f, S) # {}
    BY <1>1
  <2> QED
    BY <1>2, <2>1, FS_EmptySet DEF Product
<1> QED
  BY <1>2, <1>3

\* A positive factor makes no number smaller.
LEMMA TimesGrows ==
  ASSUME NEW x \in Nat, NEW a \in Nat, a >= 1
  PROVE  x <= x * a /\ x * a \in Nat
<1>1. 1 * x <= a * x /\ a * x \in Nat
  <2>1. 1 \in Nat /\ 1 <= a
    OBVIOUS
  <2> QED
    BY <2>1, ProductGrows
<1>2. 1 * x = x /\ a * x = x * a
  OBVIOUS
<1> QED
  BY <1>1, <1>2

\* What lies within one turn beyond the integers.
LEMMA ModOfNext ==
  ASSUME NEW k \in Nat \ {0}, NEW x \in Nat, x < k
  PROVE  (k + x) % k = x
<1> DEFINE q == (k + x) \div k
           r == (k + x) % k
<1>1. q \in Int /\ r \in Nat /\ r < k /\ k + x = k * q + r
  OBVIOUS
<1> HIDE DEF q, r
<1>2. CASE q <= 0
  <2>1. k * q <= 0
    BY <1>1, <1>2
  <2> QED
    BY <1>1, <2>1
<1>3. CASE q = 1
  BY <1>1, <1>3 DEF r
<1>4. CASE q >= 2
  <2>1. k * q >= k * 2
    BY <1>1, <1>4
  <2> QED
    BY <1>1, <2>1
<1> QED
  BY <1>1, <1>2, <1>3, <1>4

-----------------------------------------------------------------------------
(* The number of strings and the sizes of the axes, in arithmetic that     *)
(* wraps.                                                                  *)

\* One letter more multiplies the strings.
LEMMA StringsNext ==
  ASSUME NEW l \in Nat
  PROVE  Strings(l) \in Nat /\ Strings(l + 1) = Strings(l) * AlphabetSize
<1> DEFINE f == [i \in 1 .. l |-> AlphabetSize]
           g == [i \in 1 .. l + 1 |-> AlphabetSize]
           I == 1 .. l
           y == l + 1
<1>1. AlphabetSize \in Nat
  BY ExpansionAssumption
<1>2. IsFiniteSet(I)
  <2>1. 1 \in Int /\ l \in Int
    OBVIOUS
  <2> QED
    BY <2>1, FS_Interval, Zenon
<1>3. (\A i \in I : f[i] = AlphabetSize /\ g[i] = f[i]) /\ g[y] = AlphabetSize
  OBVIOUS
<1>4. y \notin I /\ 1 .. l + 1 = I \cup {y}
  OBVIOUS
<1>5. Strings(l) = Product(f, I) /\ Strings(l + 1) = Product(g, I \cup {y})
  BY <1>4 DEF Strings
<1> HIDE DEF f, g, I, y
<1>6. Product(f, I) \in Nat /\ Product(f, I) = Product(g, I)
  BY <1>1, <1>2, <1>3, PicksFinite, ProductSame
<1>7. \A i \in I \cup {y} : g[i] \in Nat
  BY <1>1, <1>3
<1>8. Product(g, I \cup {y}) = Product(g, I) * g[y]
  BY <1>2, <1>4, <1>7, ProductAdd
<1> QED
  BY <1>3, <1>5, <1>6, <1>8

\* One string has no letters.
LEMMA StringsOfNone == Strings(0) = 1
<1>1. 1 .. 0 = {}
  OBVIOUS
<1> QED
  BY <1>1, ProductEmpty DEF Strings

\* Longer strings are no fewer.
LEMMA StringsGrow ==
  ASSUME NEW i \in Nat, NEW j \in Nat, i <= j
  PROVE  Strings(i) \in Nat /\ Strings(j) \in Nat /\ Strings(i) <= Strings(j)
<1> DEFINE S == {d \in 0 .. j - i : Strings(i) <= Strings(i + d)}
           n == j - i
<1>1. Strings(i) \in Nat /\ Strings(j) \in Nat
  BY StringsNext
<1>2. 0 \in S
  BY <1>1
<1>3. ASSUME NEW d \in 0 .. n, d < n, d \in S PROVE d + 1 \in S
  <2>1. i + d \in Nat /\ i + (d + 1) = (i + d) + 1
    OBVIOUS
  <2>2. Strings(i + d) \in Nat /\ Strings(i + (d + 1)) = Strings(i + d) * AlphabetSize
    BY <2>1, StringsNext
  <2>3. AlphabetSize \in Nat /\ AlphabetSize >= 1
    BY ExpansionAssumption
  <2>5. Strings(i + d) <= Strings(i + (d + 1)) /\ Strings(i + (d + 1)) \in Nat
    BY <2>2, <2>3, TimesGrows
  <2>6. Strings(i) <= Strings(i + d)
    BY <1>3
  <2>7. Strings(i) <= Strings(i + (d + 1))
    BY <1>1, <2>2, <2>5, <2>6
  <2> QED
    BY <1>3, <2>7
<1>4. n \in Nat
  OBVIOUS
<1>5. n \in S
  <2> HIDE DEF S, n
  <2>1. 0 .. n \subseteq S
    BY <1>2, <1>3, <1>4, UpTo
  <2> QED
    BY <1>4, <2>1
<1>6. i + n = j
  OBVIOUS
<1> QED
  BY <1>1, <1>5, <1>6

\* The arithmetic of int never makes a natural number larger.
LEMMA WrapBelow ==
  ASSUME NEW x \in Nat
  PROVE  Wrap(x) \in Int /\ Wrap(x) <= x
<1>1. CASE x <= MaxInt
  <2>1. x \in MinInt .. MaxInt
    BY <1>1, GoIntAssumption
  <2> QED
    BY <2>1, WrapIsIdentity, GoIntAssumption
<1>2. CASE x > MaxInt
  <2> DEFINE m == MaxInt - MinInt + 1
  <2>1. m \in Nat \ {0} /\ x - MinInt \in Nat /\ MaxInt \in Nat /\ MinInt \in Int
    BY GoIntAssumption
  <2>2. ASSUME NEW y \in Nat, NEW k \in Nat \ {0} PROVE y % k \in Nat /\ y % k < k
    OBVIOUS
  <2>3. (x - MinInt) % m \in Nat /\ (x - MinInt) % m < m
    <3> HIDE DEF m
    <3> QED BY <2>1, <2>2
  <2>4. Wrap(x) = ((x - MinInt) % m) + MinInt
    BY DEF Wrap
  <2> DEFINE r == (x - MinInt) % m
  <2>5. r \in Nat /\ r < MaxInt - MinInt + 1 /\ Wrap(x) = r + MinInt
    BY <2>3, <2>4
  <2> HIDE DEF r, m
  <2> QED
    BY <1>2, <2>1, <2>5
<1> QED
  BY <1>1, <1>2, GoIntAssumption

\* randomSpace never accepts a count beyond the strings of the length, and
\* accepts every other one up to the limit: until the product reaches such a
\* count it does not wrap.
LEMMA RandomSpaceSound ==
  ASSUME NEW l \in Nat, NEW c \in Int, RandomSpace(l, c)
  PROVE  c <= Strings(l)
<1>1. PICK i \in 1 .. l : Wrap(Strings(i)) >= c
  BY DEF RandomSpace
<1>2. Strings(i) \in Nat /\ Strings(l) \in Nat /\ Strings(i) <= Strings(l)
  <2>1. i \in Nat /\ i <= l
    OBVIOUS
  <2> QED
    BY <2>1, StringsGrow
<1>3. Wrap(Strings(i)) \in Int /\ Wrap(Strings(i)) <= Strings(i)
  BY <1>2, WrapBelow
<1> QED
  BY <1>1, <1>2, <1>3

\* The first length with enough strings is found before the product wraps: with
\* one letter less there were fewer than the limit.
LEMMA RandomSpaceComplete ==
  ASSUME NEW l \in Nat, l >= 1, NEW c \in Nat, NEW limit \in Limits, c <= limit, c <= Strings(l)
  PROVE  RandomSpace(l, c)
<1> DEFINE S == {i \in 1 .. l : c <= Strings(i)}
<1>1. S \in SUBSET Nat /\ l \in S
  OBVIOUS
<1>2. PICK i \in S : \A j \in S : i <= j
  <2> HIDE DEF S
  <2> QED BY <1>1, LeastNatural
<1>3. i \in 1 .. l /\ i - 1 \in Nat /\ c <= Strings(i)
  BY <1>2
<1>4. limit \in Nat /\ limit >= 1 /\ AlphabetSize \in Nat /\ limit * AlphabetSize <= MaxInt
  BY ExpansionAssumption
<1>5. Strings(i - 1) \in Nat /\ Strings(i) = Strings(i - 1) * AlphabetSize
  <2> DEFINE k == i - 1
  <2>1. k \in Nat /\ k + 1 = i
    BY <1>3
  <2> HIDE DEF k
  <2>2. Strings(k) \in Nat /\ Strings(k + 1) = Strings(k) * AlphabetSize
    BY <2>1, StringsNext
  <2> QED
    BY <2>1, <2>2 DEF k
<1>6. Strings(i - 1) <= limit
  <2>1. CASE i = 1
    BY <2>1, <1>4, StringsOfNone
  <2>2. CASE i # 1
    <3>1. i - 1 \in 1 .. l /\ i - 1 \notin S
      BY <1>2, <1>3, <2>2
    <3>2. ~(c <= Strings(i - 1))
      BY <3>1
    <3> QED
      BY <1>4, <1>5, <3>2
  <2> QED
    BY <2>1, <2>2
<1>7. Strings(i) \in Nat /\ Strings(i) <= MaxInt
  <2>1. Strings(i - 1) * AlphabetSize <= limit * AlphabetSize /\ Strings(i - 1) * AlphabetSize \in Nat
    BY <1>4, <1>5, <1>6, ProductGrows
  <2>2. limit * AlphabetSize \in Nat
    BY <1>4, ProductGrows
  <2> QED
    BY <1>4, <1>5, <2>1, <2>2, GoIntAssumption
<1>8. Wrap(Strings(i)) = Strings(i)
  <2>1. Strings(i) \in MinInt .. MaxInt
    BY <1>7, GoIntAssumption
  <2> QED
    BY <2>1, WrapIsIdentity
<1>9. Wrap(Strings(i)) >= c
  BY <1>3, <1>7, <1>8
<1> QED
  BY <1>3, <1>9 DEF RandomSpace

\* The size that plannedCount computes for an axis: right if it is within the
\* limit, and refused where it is not.
LEMMA AxisSizeExact ==
  ASSUME maxVariants \in Limits, NEW spec \in Mapped
  PROVE  /\ AxisSize(spec) \in Nat /\ TrueSize(spec) \in Nat
         /\ AxisSize(spec) \in 1 .. maxVariants => AxisSize(spec) = TrueSize(spec)
         /\ AxisSize(spec) \notin 1 .. maxVariants => TrueSize(spec) = 0 \/ TrueSize(spec) > maxVariants
<1>1. maxVariants \in Nat /\ maxVariants >= 1 /\ maxVariants <= MaxInt
  <2>1. /\ maxVariants \in Nat /\ maxVariants >= 1 /\ AlphabetSize \in Nat /\ AlphabetSize >= 1
        /\ maxVariants * AlphabetSize <= MaxInt
    BY ExpansionAssumption
  <2>2. maxVariants <= maxVariants * AlphabetSize /\ maxVariants * AlphabetSize \in Nat
    BY <2>1, TimesGrows
  <2> QED
    BY <2>1, <2>2, GoIntAssumption
<1>2. /\ spec.values \in Seq(Int) /\ spec.from \in MinInt .. MaxInt /\ spec.to \in MinInt .. MaxInt
      /\ spec.count \in MinInt .. MaxInt /\ spec.length \in MinInt .. MaxInt
  BY DEF Mapped
<1>3. MinInt \in Int /\ MaxInt \in Nat /\ MinInt = -(MaxInt + 1)
  BY GoIntAssumption
<1>4. CASE spec.kind = "list"
  <2>1. AxisSize(spec) = Len(spec.values) /\ TrueSize(spec) = Len(spec.values)
    BY <1>4 DEF AxisSize, TrueSize
  <2>2. Len(spec.values) \in Nat
    BY <1>2, LenProperties
  <2> QED
    BY <1>1, <2>1, <2>2
<1>5. CASE spec.kind = "range"
  <2> DEFINE from == spec.from
             to == spec.to
             width == Wrap(to - from)
  <2>1. /\ AxisSize(spec) = IF from > to \/ width < 0 \/ width >= maxVariants THEN 0 ELSE width + 1
        /\ TrueSize(spec) = IF from > to THEN 0 ELSE to - from + 1
    BY <1>5 DEF AxisSize, TrueSize, RangeSize
  <2>2. CASE from > to
    BY <1>1, <2>1, <2>2
  <2>3. CASE ~(from > to) /\ to - from <= MaxInt
    <3>1. to - from \in MinInt .. MaxInt /\ to - from \in Nat
      BY <1>2, <1>3, <2>3
    <3>2. width = to - from
      <4> DEFINE w == to - from
      <4> HIDE DEF w
      <4>1. w \in MinInt .. MaxInt
        BY <3>1 DEF w
      <4> QED
        BY <4>1, WrapIsIdentity DEF w
    <3> QED
      BY <1>1, <1>2, <1>3, <2>1, <2>3, <3>1, <3>2
  <2>4. CASE ~(from > to) /\ to - from > MaxInt
    <3>1. width < 0
      <4> DEFINE w == to - from
                 m == MaxInt - MinInt + 1
      <4>1. w - MinInt \in Nat /\ w - MinInt >= m /\ w - MinInt < m + MaxInt + 1 /\ m = MaxInt + MaxInt + 2
        BY <1>2, <1>3, <2>4
      <4>3. w - MinInt - m \in Nat /\ w - MinInt - m < m /\ m + (w - MinInt - m) = w - MinInt /\ m \in Nat \ {0}
        BY <1>2, <1>3, <4>1
      <4>4. (w - MinInt) % m = w - MinInt - m
        <5> DEFINE x == w - MinInt - m
        <5>1. x \in Nat /\ x < m /\ m + x = w - MinInt /\ m \in Nat \ {0}
          BY <4>3
        <5> HIDE DEF x, m, w
        <5>2. (m + x) % m = x
          BY <5>1, ModOfNext
        <5> QED
          BY <5>1, <5>2 DEF x
      <4>5. width = ((w - MinInt) % m) + MinInt
        BY DEF Wrap
      <4>6. width = w - m
        BY <1>2, <1>3, <4>4, <4>5
      <4> QED
        BY <1>2, <1>3, <4>1, <4>6
    <3> QED
      BY <1>1, <1>2, <1>3, <2>1, <2>4, <3>1
  <2> QED
    BY <1>2, <1>3, <2>2, <2>3, <2>4
<1>6. CASE spec.kind = "random"
  <2> DEFINE c == spec.count
             l == LengthOf(spec)
             fits == c >= 1 /\ spec.length \in 0 .. MaxRandomLength
  <2>1. l \in Nat /\ l >= 1
    BY <1>2, ExpansionAssumption, GoIntAssumption DEF LengthOf
  <2>2. c \in Int /\ spec.length \in Int
    BY <1>2, <1>3
  <2>4. /\ AxisSize(spec) = RandomSize(spec)
        /\ TrueSize(spec) = IF fits /\ c <= Strings(l) THEN c ELSE 0
    BY <1>6 DEF AxisSize, TrueSize
  <2>5. Strings(l) \in Nat
    BY <2>1, StringsNext
  <2>6. RandomSize(spec) = IF fits /\ RandomSpace(l, c) THEN c ELSE 0
    BY <2>2, ExpansionAssumption DEF RandomSize
  <2>7. RandomSpace(l, c) => c <= Strings(l)
    BY <2>1, <2>2, RandomSpaceSound
  <2>8. fits /\ c <= maxVariants /\ c <= Strings(l) => RandomSpace(l, c)
    <3>1. fits => c \in Nat
      BY <2>2
    <3> HIDE DEF c, l, fits
    <3> QED
      BY <2>1, <3>1, RandomSpaceComplete
  <2> HIDE DEF l
  <2> QED
    BY <1>1, <2>2, <2>4, <2>5, <2>6, <2>7, <2>8
<1>7. CASE spec.kind \notin {"list", "range", "random"}
  <2>1. AxisSize(spec) = 0 /\ TrueSize(spec) = 0
    BY <1>7 DEF AxisSize, TrueSize
  <2> QED
    BY <1>1, <2>1
<1> QED
  BY <1>4, <1>5, <1>6, <1>7

Lengthened(longer, base, n, list) == longer \o Extend(base, n, list)

-----------------------------------------------------------------------------
(* A product that is made one base at a time.                              *)

\* One parameter more.
LEMMA WithTyped ==
  ASSUME NEW D, NEW n, n \notin D, NEW base \in Points(D), NEW v \in Int
  PROVE  With(base, n, v) \in Points(D \cup {n})
BY DEF With, Points

\* Its value.
LEMMA WithValue ==
  ASSUME NEW D, NEW n, n \notin D, NEW base \in Points(D), NEW v \in Int
  PROVE  With(base, n, v)[n] = v
BY DEF With, Points

\* The other parameters.
LEMMA WithRest ==
  ASSUME NEW D, NEW n, n \notin D, NEW base \in Points(D), NEW v \in Int
  PROVE  \A x \in D : With(base, n, v)[x] = base[x]
BY DEF With, Points

\* The first element of a sequence.
LEMMA HeadIsFirst ==
  ASSUME NEW T, NEW s \in Seq(T), s # <<>>
  PROVE  Head(s) = s[1] /\ s[1] \in T /\ Len(s) \in Nat /\ Len(s) >= 1 /\ DOMAIN s = 1 .. Len(s)
<1>1. Len(s) \in Nat /\ Len(s) >= 1 /\ DOMAIN s = 1 .. Len(s) /\ \A i \in 1 .. Len(s) : s[i] \in T
  BY IndexSet
<1> QED
  BY <1>1

\* more is longer and then base with every value of a list.
Extension(more, longer, base, n, D, list) ==
  /\ Len(longer) \in Nat /\ Len(list) \in Nat
  /\ DOMAIN longer = 1 .. Len(longer) /\ DOMAIN list = 1 .. Len(list) /\ DOMAIN more = 1 .. Len(longer) + Len(list)
  /\ Len(more) = Len(longer) + Len(list)
  /\ \A i \in 1 .. Len(longer) : more[i] = longer[i]
  /\ \A i \in 1 .. Len(list) : /\ more[Len(longer) + i][n] = list[i]
                               /\ \A x \in D : more[Len(longer) + i][x] = base[x]
\* Values that were not drawn, and now are.
Fresh(list, drawn, all) ==
  drawn \subseteq all /\ \A i \in DOMAIN list : list[i] \in all /\ list[i] \notin drawn

\* Every value of a list, one parameter more.
LEMMA WithAll ==
  ASSUME NEW D, NEW n, n \notin D, NEW base \in Points(D), NEW list \in Seq(Int)
  PROVE  \A i \in 1 .. Len(list) : With(base, n, list[i])[n] = list[i] /\ \A x \in D : With(base, n, list[i])[x] = base[x]
<1>1. \A i \in 1 .. Len(list) : list[i] \in Int
  BY IndexSet
<1>2. ASSUME NEW i \in 1 .. Len(list)
      PROVE  With(base, n, list[i])[n] = list[i] /\ \A x \in D : With(base, n, list[i])[x] = base[x]
  <2>1. With(base, n, list[i])[n] = list[i]
    BY <1>1, WithValue
  <2>2. \A x \in D : With(base, n, list[i])[x] = base[x]
    BY <1>1, WithRest
  <2> QED
    BY <2>1, <2>2
<1> QED
  BY <1>2

\* Combinations that are added to others.
LEMMA ConcatExtends ==
  ASSUME NEW G, NEW longer \in Seq(G), NEW ext \in Seq(G), NEW D, NEW n, NEW base, NEW list \in Seq(Int),
         Len(ext) = Len(list),
         \A i \in 1 .. Len(list) : ext[i][n] = list[i] /\ \A x \in D : ext[i][x] = base[x]
  PROVE  longer \o ext \in Seq(G) /\ Extension(longer \o ext, longer, base, n, D, list)
<1> DEFINE more == longer \o ext
<1>1. /\ Len(longer) \in Nat /\ Len(list) \in Nat /\ DOMAIN longer = 1 .. Len(longer)
      /\ DOMAIN list = 1 .. Len(list)
  BY LenProperties
<1>2. more \in Seq(G) /\ Len(more) = Len(longer) + Len(list)
  <2>1. more \in Seq(G) /\ Len(more) = Len(longer) + Len(ext)
    BY ConcatProperties, Zenon
  <2> QED
    BY <2>1
<1>3. \A i \in 1 .. Len(longer) + Len(list) : more[i] = IF i <= Len(longer) THEN longer[i] ELSE ext[i - Len(longer)]
  BY ConcatProperties
<1> HIDE DEF more
<1>4. DOMAIN more = 1 .. Len(longer) + Len(list)
  BY <1>2, LenProperties
<1>5. ASSUME NEW i \in 1 .. Len(list) PROVE more[Len(longer) + i] = ext[i]
  <2>1. Len(longer) + i \in 1 .. Len(longer) + Len(list) /\ ~(Len(longer) + i <= Len(longer))
        /\ (Len(longer) + i) - Len(longer) = i
    BY <1>1
  <2> QED
    BY <1>3, <2>1
<1>6. \A i \in 1 .. Len(longer) : more[i] = longer[i]
  BY <1>1, <1>3
<1>7. Extension(more, longer, base, n, D, list)
  BY <1>1, <1>2, <1>4, <1>5, <1>6 DEF Extension
<1> QED
  BY <1>2, <1>7 DEF more

\* What Cross adds.
LEMMA LengthenedExtends ==
  ASSUME NEW D, NEW n, n \notin D, NEW base \in Points(D), NEW list \in Seq(Int),
         NEW longer \in Seq(Points(D \cup {n}))
  PROVE  /\ longer \o Extend(base, n, list) \in Seq(Points(D \cup {n}))
         /\ Extension(longer \o Extend(base, n, list), longer, base, n, D, list)
<1> DEFINE ext == Extend(base, n, list)
           G == Points(D \cup {n})
<1>1. Len(list) \in Nat /\ \A i \in 1 .. Len(list) : list[i] \in Int
  BY IndexSet
<1>2. \A i \in 1 .. Len(list) : With(base, n, list[i]) \in G
  BY <1>1, WithTyped
<1>3. ext = [i \in 1 .. Len(list) |-> With(base, n, list[i])]
  BY DEF Extend
<1>4. longer \in Seq(G)
  OBVIOUS
<1> HIDE DEF G, ext
<1>5. ext \in Seq(G) /\ Len(ext) = Len(list) /\ \A i \in 1 .. Len(list) : ext[i] = With(base, n, list[i])
  BY <1>1, <1>2, <1>3
<1>6. \A i \in 1 .. Len(list) : ext[i][n] = list[i] /\ \A x \in D : ext[i][x] = base[x]
  BY <1>5, WithAll
<1>7. longer \o ext \in Seq(G) /\ Extension(longer \o ext, longer, base, n, D, list)
  BY <1>4, <1>5, <1>6, ConcatExtends
<1> QED
  BY <1>7 DEF G, ext

\* What Draw adds.
LEMMA AppendExtends ==
  ASSUME NEW D, NEW n, n \notin D, NEW base \in Points(D), NEW v \in Int,
         NEW longer \in Seq(Points(D \cup {n}))
  PROVE  /\ Append(longer, With(base, n, v)) \in Seq(Points(D \cup {n}))
         /\ Extension(Append(longer, With(base, n, v)), longer, base, n, D, <<v>>)
<1> DEFINE G == Points(D \cup {n})
           p == With(base, n, v)
           more == Append(longer, p)
<1>1. p \in G /\ p[n] = v /\ \A x \in D : p[x] = base[x]
  <2>1. p \in G
    BY WithTyped
  <2>2. p[n] = v
    BY WithValue
  <2>3. \A x \in D : p[x] = base[x]
    BY WithRest
  <2> QED
    BY <2>1, <2>2, <2>3
<1>2. longer \in Seq(G)
  OBVIOUS
<1> HIDE DEF G, p
<1>3. /\ more \in Seq(G) /\ Len(more) = Len(longer) + 1 /\ more[Len(longer) + 1] = p
      /\ \A i \in 1 .. Len(longer) : more[i] = longer[i]
  BY <1>1, <1>2, AppendProperties
<1> HIDE DEF more
<1>4. /\ Len(longer) \in Nat /\ DOMAIN longer = 1 .. Len(longer) /\ DOMAIN more = 1 .. Len(longer) + 1
      /\ Len(<<v>>) = 1 /\ DOMAIN <<v>> = 1 .. 1 /\ <<v>>[1] = v
  BY <1>2, <1>3, LenProperties
<1>5. \A i \in 1 .. 1 : more[Len(longer) + i][n] = <<v>>[i] /\ \A x \in D : more[Len(longer) + i][x] = base[x]
  <2>1. ASSUME NEW i \in 1 .. 1 PROVE i = 1
    OBVIOUS
  <2>2. more[Len(longer) + 1][n] = <<v>>[1] /\ \A x \in D : more[Len(longer) + 1][x] = base[x]
    BY <1>1, <1>3, <1>4
  <2> QED
    BY <2>1, <2>2, Zenon
<1>6. Extension(more, longer, base, n, D, <<v>>)
  BY <1>3, <1>4, <1>5 DEF Extension
<1> QED
  BY <1>3, <1>6 DEF more, p, G

\* A base extended by values that were not drawn for it yet: what has grown
\* stays distinct, and extends no other base.
LEMMA ExtensionKeeps ==
  ASSUME NEW D, NEW n, NEW bases, NEW longer, Made(bases, longer, D, n),
         NEW list, NEW more, Extension(more, longer, bases[1], n, D, list),
         NEW drawn, NEW all, Fresh(list, drawn, all), Distinct(list), Halfway(bases, longer, n, drawn)
  PROVE  Halfway(bases, more, n, all)
<1> DEFINE L == Len(longer)
           K == Len(list)
<1>1. L \in Nat /\ K \in Nat /\ DOMAIN longer = 1 .. L /\ DOMAIN list = 1 .. K /\ DOMAIN more = 1 .. L + K
  BY DEF Extension
<1>2. 1 \in DOMAIN bases /\ \A j \in DOMAIN bases : bases[j] \in Points(D)
  <2>1. bases \in Seq(Points(D)) /\ bases # <<>>
    BY DEF Made
  <2> QED
    BY <2>1, HeadIsFirst, IndexSet
<1>3. /\ \A i \in 1 .. L : more[i] = longer[i]
      /\ \A i \in 1 .. K : more[L + i][n] = list[i] /\ \A x \in D : more[L + i][x] = bases[1][x]
  BY DEF Extension
<1>4. drawn \subseteq all /\ \A i \in 1 .. K : list[i] \in all /\ list[i] \notin drawn
  BY <1>1 DEF Fresh
<1> HIDE DEF L, K
<1>6. ASSUME NEW k \in 1 .. L + K PROVE k \in 1 .. L \/ \E i \in 1 .. K : k = L + i
  <2>1. CASE k > L
    <3>1. k - L \in 1 .. K /\ k = L + (k - L)
      BY <1>1, <2>1
    <3> QED
      BY <3>1
  <2> QED
    BY <1>1, <2>1
<1>7. ASSUME NEW i \in 1 .. L, NEW j \in 1 .. K PROVE more[i] # more[L + j]
  <2>1. SUFFICES ASSUME more[i] = more[L + j] PROVE FALSE
    OBVIOUS
  <2>2. more[i] = longer[i]
    BY <1>3
  <2>3. \A x \in D : longer[i][x] = bases[1][x]
    <3>1. \A x \in D : more[L + j][x] = bases[1][x]
      BY <1>3
    <3> QED
      BY <2>1, <2>2, <3>1, Zenon
  <2>4. Extends(longer[i], bases[1])
    <3>1. DOMAIN bases[1] = D
      BY <1>2 DEF Points
    <3> QED
      BY <2>3, <3>1 DEF Extends
  <2>5. longer[i][n] \in drawn
    BY <1>1, <1>2, <2>4 DEF Halfway
  <2>6. longer[i][n] = list[j] /\ list[j] \notin drawn
    BY <1>3, <1>4, <2>1, <2>2
  <2> QED
    BY <2>5, <2>6
<1>8. Distinct(more)
  <2>1. ASSUME NEW i \in 1 .. L + K, NEW j \in 1 .. L + K, more[i] = more[j] PROVE i = j
    <3>1. CASE i \in 1 .. L /\ j \in 1 .. L
      <4>1. longer[i] = longer[j]
        BY <1>3, <2>1, <3>1
      <4> QED
        BY <1>1, <3>1, <4>1 DEF Halfway, Distinct
    <3>2. CASE \E x \in 1 .. K : i = L + x
      <4>1. PICK x \in 1 .. K : i = L + x
        BY <3>2
      <4>2. j \notin 1 .. L
        BY <1>7, <2>1, <4>1
      <4>3. PICK y \in 1 .. K : j = L + y
        BY <1>6, <4>2
      <4>4. list[x] = list[y]
        BY <1>3, <2>1, <4>1, <4>3
      <4>5. x = y
        BY <1>1, <4>4 DEF Distinct
      <4> QED
        BY <4>1, <4>3, <4>5
    <3>3. CASE i \in 1 .. L /\ \E y \in 1 .. K : j = L + y
      BY <1>7, <2>1, <3>3
    <3> QED
      BY <1>6, <3>1, <3>2, <3>3
  <2> QED
    BY <1>1, <2>1 DEF Distinct
<1>9. ASSUME NEW i \in 1 .. L + K, NEW j \in DOMAIN bases, Extends(more[i], bases[j])
      PROVE  j = 1 /\ more[i][n] \in all
  <2>1. CASE i \in 1 .. L
    <3>1. more[i] = longer[i]
      BY <1>3, <2>1
    <3>2. j = 1 /\ longer[i][n] \in drawn
      BY <1>1, <1>9, <2>1, <3>1 DEF Halfway
    <3> QED
      BY <1>4, <3>1, <3>2
  <2>2. CASE \E x \in 1 .. K : i = L + x
    <3>1. PICK x \in 1 .. K : i = L + x
      BY <2>2
    <3>2. bases[j] \in [D -> Int] /\ bases[1] \in [D -> Int] /\ DOMAIN bases[j] = D
      BY <1>2 DEF Points
    <3>3. \A y \in D : bases[j][y] = bases[1][y]
      BY <1>3, <1>9, <3>1, <3>2 DEF Extends
    <3>4. bases[j] = bases[1]
      BY <3>2, <3>3
    <3>5. j = 1
      BY <1>2, <3>4 DEF Halfway, Distinct
    <3> QED
      BY <1>3, <1>4, <3>1, <3>5
  <2> QED
    BY <1>6, <2>1, <2>2
<1> QED
  <2>1. Distinct(bases)
    BY DEF Halfway
  <2> QED
    BY <1>1, <1>8, <1>9, <2>1 DEF Halfway

\* The next base has had nothing drawn for it.
LEMMA NextBase ==
  ASSUME NEW D, NEW n, NEW bases, NEW longer, Made(bases, longer, D, n), Len(bases) # 1
  PROVE  /\ Made(Tail(bases), longer, D, n) /\ Len(Tail(bases)) = Len(bases) - 1
         /\ \A i \in 1 .. Len(bases) - 1 : Tail(bases)[i] = bases[i + 1]
         /\ \A drawn : Halfway(bases, longer, n, drawn) => Halfway(Tail(bases), longer, n, {})
<1> DEFINE F == Points(D)
           rest == Tail(bases)
<1>1. bases \in Seq(F) /\ bases # <<>>
  BY DEF Made
<1>2. rest \in Seq(F) /\ Len(rest) = Len(bases) - 1 /\ \A i \in 1 .. Len(rest) : rest[i] = bases[i + 1]
  <2> HIDE DEF F
  <2> QED
    BY <1>1, HeadTailProperties
<1>3. Len(bases) \in Nat /\ Len(bases) >= 1 /\ DOMAIN bases = 1 .. Len(bases) /\ DOMAIN rest = 1 .. Len(rest)
  <2> HIDE DEF F, rest
  <2> QED
    BY <1>1, <1>2, HeadIsFirst, IndexSet
<1>4. rest # <<>>
  <2> HIDE DEF F, rest
  <2> QED
    BY <1>2, <1>3, EmptySeq
<1>5. Made(rest, longer, D, n)
  BY <1>2, <1>4 DEF Made
<1>6. ASSUME NEW drawn, Halfway(bases, longer, n, drawn) PROVE Halfway(rest, longer, n, {})
  <2>1. \A i \in DOMAIN rest : i + 1 \in DOMAIN bases /\ i + 1 # 1 /\ rest[i] = bases[i + 1]
    BY <1>2, <1>3
  <2> HIDE DEF rest
  <2>2. Distinct(rest)
    <3>1. ASSUME NEW i \in DOMAIN rest, NEW j \in DOMAIN rest, rest[i] = rest[j] PROVE i = j
      <4>1. i + 1 = j + 1
        BY <1>6, <2>1, <3>1 DEF Halfway, Distinct
      <4> QED
        BY <1>3, <4>1
    <3> QED
      BY <3>1 DEF Distinct
  <2>3. ASSUME NEW i \in DOMAIN longer, NEW j \in DOMAIN rest, Extends(longer[i], rest[j]) PROVE FALSE
    BY <1>6, <2>1, <2>3 DEF Halfway
  <2> QED
    BY <1>6, <2>2, <2>3 DEF Halfway
<1> QED
  BY <1>2, <1>3, <1>5, <1>6

\* The bases of the next axis.
LEMMA FreshBases ==
  ASSUME NEW longer, Distinct(longer), NEW n
  PROVE  Halfway(longer, <<>>, n, {})
BY DEF Halfway, Distinct

\* The axes of a product, and the number of values of each.
SizesFit(f, All) == IsFiniteSet(All) /\ All \subseteq Nat /\ \A n \in All : f[n] \in Nat /\ f[n] >= 1

\* An axis that is still to be multiplied.
LEMMA NextAxisIsNext ==
  ASSUME NEW All, All \subseteq Nat, NEW D, D \subseteq All, D # All
  PROVE  NextAxis(D, All) \in All \ D
<1> DEFINE S == All \ D
<1>1. S \subseteq Nat /\ S # {}
  OBVIOUS
<1> HIDE DEF S
<1>2. \E x \in S : \A y \in S : x <= y
  BY <1>1, LeastNatural
<1>3. Min(S) \in S
  BY <1>2 DEF Min
<1> QED
  BY <1>3 DEF S, NextAxis

\* Part of a product is positive, and no larger than the whole.
LEMMA ProductPart ==
  ASSUME NEW f, NEW All, SizesFit(f, All), NEW S, S \subseteq All
  PROVE  /\ IsFiniteSet(S) /\ Product(f, S) \in Nat /\ Product(f, S) >= 1
         /\ Product(f, S) <= Product(f, All)
         /\ Product(f, All) = Product(f, S) * Product(f, All \ S)
<1> DEFINE T == All \ S
<1>1. IsFiniteSet(S) /\ IsFiniteSet(T) /\ S \cap T = {} /\ S \cup T = All
  BY FS_Subset DEF SizesFit
<1>2. (\A x \in S : f[x] \in Nat /\ f[x] >= 1) /\ (\A x \in T : f[x] \in Nat /\ f[x] >= 1)
      /\ \A x \in S \cup T : f[x] \in Nat
  BY DEF SizesFit
<1> HIDE DEF T
<1>3. Product(f, S) \in Nat /\ Product(f, S) >= 1
  BY <1>1, <1>2, ProductPositive
<1>4. Product(f, T) \in Nat /\ Product(f, T) >= 1
  BY <1>1, <1>2, ProductPositive
<1>5. Product(f, S \cup T) = Product(f, S) * Product(f, T)
  BY <1>1, <1>2, ProductSplit
<1>6. Product(f, S) <= Product(f, S) * Product(f, T)
  BY <1>3, <1>4, TimesGrows
<1> QED
  BY <1>1, <1>3, <1>5, <1>6 DEF T

\* One axis more in the product.
LEMMA ProductNext ==
  ASSUME NEW f, NEW All, SizesFit(f, All), NEW S, S \subseteq All, NEW n \in All \ S
  PROVE  Product(f, S \cup {n}) = Product(f, S) * f[n]
<1>1. IsFiniteSet(S)
  BY FS_Subset DEF SizesFit
<1>2. n \notin S /\ \A x \in S \cup {n} : f[x] \in Nat
  BY DEF SizesFit
<1> QED
  BY <1>1, <1>2, ProductAdd

\* Fewer than one more, by a common factor.
LEMMA FactorSmaller ==
  ASSUME NEW c \in Nat, NEW p \in Nat, NEW k \in Nat, k >= 1, c * k < (p + 1) * k
  PROVE  c <= p
<1>1. SUFFICES ASSUME p + 1 <= c PROVE FALSE
  OBVIOUS
<1>2. (p + 1) * k <= c * k
  <2>1. p + 1 \in Nat
    OBVIOUS
  <2> QED
    BY <1>1, <2>1, ProductGrows
<1>3. c * k \in Nat /\ (p + 1) * k \in Nat
  OBVIOUS
<1> QED
  BY <1>2, <1>3

\* The bases of an axis that nothing has been drawn for.
LEMMA ProducingFresh ==
  ASSUME NEW f, NEW All, SizesFit(f, All), NEW D, D \subseteq All, NEW B, B \subseteq D, NEW distinct,
         NEW bases \in Seq(Points(D)), bases # <<>>, Len(bases) = Product(f, D \ B),
         distinct => Distinct(bases)
  PROVE  Producing(f, bases, <<>>, {}, B, D, All, distinct)
<1>1. CASE D = All
  BY <1>1 DEF Producing
<1>2. CASE D # All
  <2> DEFINE n == NextAxis(D, All)
  <2>1. n \in All \ D /\ f[n] \in Nat /\ f[n] >= 1
    BY <1>2, NextAxisIsNext DEF SizesFit
  <2> HIDE DEF n
  <2>2. Made(bases, <<>>, D, n)
    BY DEF Made
  <2>3. IsFiniteSet({}) /\ Cardinality({}) = 0
    BY FS_EmptySet
  <2>4. Len(<<>>) + Len(bases) * f[n] = Product(f, D \ B) * f[n] + Cardinality({})
    <3>1. Len(bases) \in Nat /\ Len(<<>>) = 0
      BY LenProperties
    <3>2. Len(bases) * f[n] \in Nat
      BY <2>1, <3>1
    <3> QED
      BY <2>3, <3>1, <3>2
  <2>5. distinct => Halfway(bases, <<>>, n, {})
    BY FreshBases
  <2> QED
    BY <1>2, <2>1, <2>2, <2>3, <2>4, <2>5 DEF Producing, n
<1> QED
  BY <1>1, <1>2

\* One value more for the first base.
LEMMA ProducingDraws ==
  ASSUME NEW f, NEW All, SizesFit(f, All), NEW D, NEW B, NEW distinct, NEW bases, NEW longer, NEW drawn,
         Producing(f, bases, longer, drawn, B, D, All, distinct), D # All,
         NEW v \in Int, v \notin drawn, Cardinality(drawn) + 1 # f[NextAxis(D, All)]
  PROVE  Producing(f, bases, Append(longer, With(bases[1], NextAxis(D, All), v)), drawn \cup {v}, B, D, All, distinct)
<1> DEFINE n == NextAxis(D, All)
           more == Append(longer, With(bases[1], n, v))
<1>1. /\ B \subseteq D /\ D \subseteq All /\ Made(bases, longer, D, n) /\ IsFiniteSet(drawn) /\ Cardinality(drawn) < f[n]
      /\ Len(longer) + Len(bases) * f[n] = Product(f, D \ B) * f[n] + Cardinality(drawn)
      /\ distinct => Halfway(bases, longer, n, drawn)
  BY DEF Producing
<1>2. n \in All \ D /\ f[n] \in Nat /\ f[n] >= 1
  BY <1>1, NextAxisIsNext DEF SizesFit
<1>3. Cardinality(drawn) \in Nat /\ IsFiniteSet(drawn \cup {v}) /\ Cardinality(drawn \cup {v}) = Cardinality(drawn) + 1
  BY <1>1, FS_AddElement, FS_CardinalityType
<1> HIDE DEF n
<1>4. /\ bases \in Seq(Points(D)) /\ bases # <<>> /\ longer \in Seq(Points(D \cup {n}))
  BY <1>1 DEF Made
<1>5. bases[1] \in Points(D)
  BY <1>4, HeadIsFirst
<1>6. more \in Seq(Points(D \cup {n})) /\ Extension(more, longer, bases[1], n, D, <<v>>)
  BY <1>2, <1>4, <1>5, AppendExtends
<1> HIDE DEF more
<1>7. Len(longer) \in Nat /\ Len(bases) \in Nat /\ Len(more) = Len(longer) + 1
  BY <1>4, <1>6, LenProperties DEF Extension
<1>8. Made(bases, more, D, n)
  BY <1>4, <1>6 DEF Made
<1>9. Cardinality(drawn \cup {v}) < f[n]
  BY <1>1, <1>2, <1>3 DEF n
<1>10. Len(more) + Len(bases) * f[n] = Product(f, D \ B) * f[n] + Cardinality(drawn \cup {v})
  <2>1. Len(bases) * f[n] \in Nat /\ Product(f, D \ B) * f[n] \in Nat
    <3>1. D \ B \subseteq All
      BY <1>1
    <3>2. Product(f, D \ B) \in Nat
      BY <3>1, ProductPart
    <3> QED
      BY <1>2, <1>7, <3>2
  <2> QED
    BY <1>1, <1>3, <1>7, <2>1
<1>11. ASSUME distinct PROVE Halfway(bases, more, n, drawn \cup {v})
  <2>1. Fresh(<<v>>, drawn, drawn \cup {v})
    BY DEF Fresh
  <2>2. Distinct(<<v>>)
    BY DEF Distinct
  <2>3. Halfway(bases, longer, n, drawn)
    BY <1>1, <1>11
  <2> QED
    BY <1>1, <1>6, <2>1, <2>2, <2>3, ExtensionKeeps
<1>12. Producing(f, bases, more, drawn \cup {v}, B, D, All, distinct)
  BY <1>1, <1>3, <1>4, <1>8, <1>9, <1>10, <1>11 DEF Producing, n
<1> QED
  BY <1>12 DEF more, n

\* All values of the first base: it is the next base's turn, or the next axis's.
LEMMA ProducingAdvances ==
  ASSUME NEW f, NEW All, SizesFit(f, All), NEW D, NEW B, NEW distinct, NEW bases, NEW longer, NEW drawn,
         Producing(f, bases, longer, drawn, B, D, All, distinct), D # All,
         NEW more \in Seq(Points(D \cup {NextAxis(D, All)})), NEW list, NEW all,
         Extension(more, longer, bases[1], NextAxis(D, All), D, list),
         Len(list) + Cardinality(drawn) = f[NextAxis(D, All)],
         distinct => Distinct(list) /\ Fresh(list, drawn, all)
  PROVE  /\ Len(bases) = 1 => Producing(f, more, <<>>, {}, B, D \cup {NextAxis(D, All)}, All, distinct)
         /\ Len(bases) # 1 => Producing(f, Tail(bases), more, {}, B, D, All, distinct)
<1> DEFINE n == NextAxis(D, All)
           p == Product(f, D \ B)
<1>1. /\ B \subseteq D /\ D \subseteq All /\ Made(bases, longer, D, n) /\ IsFiniteSet(drawn) /\ Cardinality(drawn) < f[n]
      /\ Len(longer) + Len(bases) * f[n] = p * f[n] + Cardinality(drawn)
      /\ distinct => Halfway(bases, longer, n, drawn)
  BY DEF Producing
<1>2. n \in All \ D /\ f[n] \in Nat /\ f[n] >= 1
  BY <1>1, NextAxisIsNext DEF SizesFit
<1>3. more \in Seq(Points(D \cup {n})) /\ Extension(more, longer, bases[1], n, D, list)
      /\ Len(list) + Cardinality(drawn) = f[n]
  OBVIOUS
<1>4. Cardinality(drawn) \in Nat
  BY <1>1, FS_CardinalityType
<1>5. D \ B \subseteq All /\ n \in All \ (D \ B) /\ (D \cup {n}) \ B = (D \ B) \cup {n} /\ D \cup {n} \subseteq All /\ B \subseteq D \cup {n}
  BY <1>1, <1>2
<1>6. p \in Nat /\ p >= 1 /\ Product(f, (D \cup {n}) \ B) = p * f[n]
  <2>1. p \in Nat /\ p >= 1
    BY <1>5, ProductPart
  <2>2. Product(f, (D \ B) \cup {n}) = p * f[n]
    <3> DEFINE S == D \ B
    <3>1. S \subseteq All /\ n \in All \ S
      BY <1>5
    <3> HIDE DEF S, n
    <3>2. Product(f, S \cup {n}) = Product(f, S) * f[n]
      BY <3>1, ProductNext
    <3> QED
      BY <3>2 DEF S
  <2> QED
    BY <1>5, <2>1, <2>2
<1> HIDE DEF n, p
<1>7. /\ bases \in Seq(Points(D)) /\ bases # <<>> /\ longer \in Seq(Points(D \cup {n}))
  BY <1>1 DEF Made
<1>8. Len(bases) \in Nat /\ Len(longer) \in Nat /\ Len(list) \in Nat /\ Len(more) = Len(longer) + Len(list)
  BY <1>3, <1>7, LenProperties DEF Extension
<1>9. p * f[n] \in Nat /\ p * f[n] >= 1
  <2>1. f[n] \in Nat /\ f[n] >= 1 /\ p \in Nat /\ p >= 1
    BY <1>2, <1>6
  <2>2. p <= p * f[n] /\ p * f[n] \in Nat
    BY <2>1, TimesGrows
  <2> QED
    BY <2>1, <2>2
<1>10. Len(bases) * f[n] \in Nat /\ Len(more) + Len(bases) * f[n] = p * f[n] + f[n]
  <2> DEFINE bk == Len(bases) * f[n]
             pk == p * f[n]
  <2>1. bk \in Nat /\ pk \in Nat /\ f[n] \in Nat
    BY <1>2, <1>8, <1>9
  <2>2. Len(longer) + bk = pk + Cardinality(drawn)
    BY <1>1
  <2> HIDE DEF bk, pk
  <2>3. Len(list) + Cardinality(drawn) = f[n] /\ Len(more) = Len(longer) + Len(list)
    BY <1>3, <1>8
  <2>4. Len(more) + bk = pk + f[n]
    <3>1. Len(longer) \in Nat /\ Len(list) \in Nat
      BY <1>8
    <3> QED
      BY <1>4, <2>1, <2>2, <2>3, <3>1
  <2> QED
    BY <2>1, <2>4 DEF bk, pk
<1>11. ASSUME distinct PROVE Halfway(bases, more, n, all)
  BY <1>1, <1>3, <1>11, ExtensionKeeps
<1>12. ASSUME Len(bases) = 1 PROVE Producing(f, more, <<>>, {}, B, D \cup {n}, All, distinct)
  <2>1. Len(bases) * f[n] = f[n]
    BY <1>2, <1>12
  <2>2. Len(more) = p * f[n]
    <3>1. f[n] \in Nat /\ Len(more) \in Nat /\ p * f[n] \in Nat
      BY <1>2, <1>3, <1>9, LenProperties
    <3>2. Len(more) + f[n] = p * f[n] + f[n]
      BY <1>10, <2>1
    <3> QED
      BY <3>1, <3>2
  <2>3. more # <<>>
    BY <1>9, <2>2
  <2>4. distinct => Distinct(more)
    BY <1>11 DEF Halfway
  <2>5. Len(more) = Product(f, (D \cup {n}) \ B)
    BY <1>6, <2>2
  <2> QED
    BY <1>3, <1>5, <2>3, <2>4, <2>5, ProducingFresh
<1>13. ASSUME Len(bases) # 1 PROVE Producing(f, Tail(bases), more, {}, B, D, All, distinct)
  <2>1. Made(bases, more, D, n)
    BY <1>3, <1>7 DEF Made
  <2>2. Made(Tail(bases), more, D, n) /\ Len(Tail(bases)) = Len(bases) - 1
    BY <1>13, <2>1, NextBase
  <2>3. distinct => Halfway(Tail(bases), more, n, {})
    <3>1. ASSUME distinct PROVE Halfway(Tail(bases), more, n, {})
      <4>1. \A d : Halfway(bases, more, n, d) => Halfway(Tail(bases), more, n, {})
        BY <1>13, <2>1, NextBase
      <4> QED
        BY <1>11, <3>1, <4>1
    <3> QED
      BY <3>1
  <2>4. (Len(bases) - 1) * f[n] = Len(bases) * f[n] - f[n] /\ Len(bases) * f[n] \in Nat
    BY <1>2, <1>8
  <2>5. IsFiniteSet({}) /\ Cardinality({}) = 0
    BY FS_EmptySet
  <2>6. Len(more) + Len(Tail(bases)) * f[n] = p * f[n] + Cardinality({})
    <3>1. Len(more) + (Len(bases) * f[n] - f[n]) = p * f[n]
      <4> DEFINE bk == Len(bases) * f[n]
                 pk == p * f[n]
      <4>1. bk \in Nat /\ pk \in Nat /\ f[n] \in Nat /\ Len(more) \in Nat
        BY <1>2, <1>3, <1>9, <1>10, LenProperties
      <4>2. Len(more) + bk = pk + f[n]
        BY <1>10
      <4> HIDE DEF bk, pk
      <4>3. Len(more) + (bk - f[n]) = pk
        BY <4>1, <4>2
      <4> QED
        BY <4>3 DEF bk, pk
    <3> QED
      BY <1>2, <1>9, <2>2, <2>4, <2>5, <3>1
  <2>7. Tail(bases) \in Seq(Points(D)) /\ Tail(bases) # <<>>
    BY <2>2 DEF Made
  <2> QED
    BY <1>1, <1>2, <2>2, <2>3, <2>5, <2>6, <2>7 DEF Producing, n, p
<1> QED
  BY <1>12, <1>13 DEF n

\* Neither the bases nor what has grown are more than the product.
LEMMA ProducingBounds ==
  ASSUME NEW f, NEW All, SizesFit(f, All), NEW D, NEW B, NEW distinct, NEW bases, NEW longer, NEW drawn,
         Producing(f, bases, longer, drawn, B, D, All, distinct)
  PROVE  /\ Len(bases) \in Nat /\ Len(longer) \in Nat
         /\ Len(bases) <= Product(f, All \ B) /\ Len(longer) <= Product(f, All \ B)
<1>1. B \subseteq D /\ D \subseteq All /\ bases \in Seq(Points(D)) /\ bases # <<>>
  BY DEF Producing
<1>2. Len(bases) \in Nat /\ Len(bases) >= 1
  BY <1>1, HeadIsFirst
<1>3. All \ B \subseteq All /\ D \ B \subseteq All \ B
  BY <1>1
<1>4. SizesFit(f, All \ B)
  BY <1>3, FS_Subset DEF SizesFit
<1>5. Product(f, D \ B) \in Nat /\ Product(f, All \ B) \in Nat /\ Product(f, D \ B) <= Product(f, All \ B)
  BY <1>3, <1>4, ProductPart
<1>6. CASE D = All
  <2>1. longer = <<>> /\ Len(bases) = Product(f, All \ B)
    BY <1>6 DEF Producing
  <2>2. Len(<<>>) = 0
    OBVIOUS
  <2> QED
    BY <1>2, <1>5, <2>1, <2>2
<1>7. CASE D # All
  <2> DEFINE n == NextAxis(D, All)
             p == Product(f, D \ B)
  <2>1. /\ Made(bases, longer, D, n) /\ IsFiniteSet(drawn) /\ Cardinality(drawn) < f[n]
        /\ Len(longer) + Len(bases) * f[n] = p * f[n] + Cardinality(drawn)
    BY <1>7 DEF Producing
  <2>2. n \in All \ D /\ f[n] \in Nat /\ f[n] >= 1
    BY <1>1, <1>7, NextAxisIsNext DEF SizesFit
  <2>3. n \in (All \ B) \ (D \ B) /\ (D \ B) \cup {n} \subseteq All \ B
    BY <1>1, <2>2
  <2>4. Product(f, (D \ B) \cup {n}) = p * f[n] /\ Product(f, (D \ B) \cup {n}) <= Product(f, All \ B)
        /\ Product(f, (D \ B) \cup {n}) \in Nat
    <3>1. Product(f, (D \ B) \cup {n}) = p * f[n]
      BY <1>3, <1>4, <2>3, ProductNext
    <3>2. Product(f, (D \ B) \cup {n}) <= Product(f, All \ B) /\ Product(f, (D \ B) \cup {n}) \in Nat
      BY <1>3, <1>4, <2>3, ProductPart
    <3> QED
      BY <3>1, <3>2
  <2>5. Cardinality(drawn) \in Nat
    BY <2>1, FS_CardinalityType
  <2>6. Len(longer) \in Nat
    BY <2>1, LenProperties DEF Made
  <2>7. p \in Nat /\ p <= Product(f, All \ B)
    BY <1>5
  <2> HIDE DEF n, p
  <2>8. Len(bases) * f[n] \in Nat /\ p * f[n] \in Nat /\ (p + 1) * f[n] = p * f[n] + f[n]
    BY <1>2, <2>2, <2>7
  <2>9. Len(bases) * f[n] < (p + 1) * f[n]
    BY <2>1, <2>2, <2>5, <2>6, <2>8
  <2>10. Len(bases) <= p
    BY <1>2, <2>2, <2>7, <2>9, FactorSmaller
  <2>11. f[n] <= Len(bases) * f[n]
    <3>1. 1 * f[n] <= Len(bases) * f[n]
      <4>1. 1 \in Nat
        OBVIOUS
      <4> QED
        BY <1>2, <2>2, <4>1, ProductGrows
    <3> QED
      BY <2>2, <3>1
  <2>12. Len(longer) <= p * f[n]
    BY <2>1, <2>2, <2>5, <2>6, <2>8, <2>11
  <2> QED
    BY <1>2, <1>5, <2>4, <2>6, <2>7, <2>8, <2>10, <2>12
<1> QED
  BY <1>6, <1>7

-----------------------------------------------------------------------------
(* What the invariant says of an expansion that goes on, and at its end.   *)

\* The sizes are natural numbers.
LEMMA SizesTyped ==
  ASSUME maxVariants \in Limits, axes \in [DOMAIN axes -> Mapped]
  PROVE  \A n \in DOMAIN axes : Sizes[n] \in Nat /\ Sizes[n] = TrueSize(axes[n])
<1>1. ASSUME NEW n \in DOMAIN axes PROVE TrueSize(axes[n]) \in Nat
  <2>1. axes[n] \in Mapped
    OBVIOUS
  <2> QED
    BY <2>1, AxisSizeExact
<1> QED
  BY <1>1 DEF Sizes

\* The names are finitely many numbers.
LEMMA NamesFinite ==
  ASSUME NEW S, S \subseteq Names
  PROVE  IsFiniteSet(S) /\ S \subseteq Nat
BY FS_Subset, ExpansionAssumption

\* An axis is fixed or random.
LEMMA SplitAxes == Fixed \subseteq DOMAIN axes /\ Random \subseteq DOMAIN axes /\ DOMAIN axes \ Fixed = Random
BY DEF Fixed, Random

\* What holds as long as an expansion goes on.
LEMMA WhileExtending ==
  ASSUME ExpandInv, step \in Extending
  PROVE  /\ axes \in [DOMAIN axes -> Mapped] /\ maxVariants \in Limits
         /\ placeholders = DOMAIN axes /\ DOMAIN axes \subseteq Names
         /\ \A n \in DOMAIN axes : Sizes[n] \in Nat /\ Sizes[n] = TrueSize(axes[n]) /\ Sizes[n] >= 1
         /\ total = Product(Sizes, DOMAIN axes) /\ total \in 1 .. maxVariants
<1>1. PlanAccepted
  BY DEF ExpandInv, PlanInv
<1>2. placeholders = DOMAIN axes /\ DOMAIN axes \subseteq Names /\ maxVariants \in Limits
  BY <1>1 DEF ExpandInv, ExpandTypes, PlanAccepted
<1>3. axes \in [DOMAIN axes -> Mapped]
  BY DEF ExpandInv, ExpandTypes, Extending
<1>4. \A n \in DOMAIN axes : Sizes[n] \in Nat /\ Sizes[n] = TrueSize(axes[n])
  BY <1>2, <1>3, SizesTyped
<1>5. \A n \in DOMAIN axes : Sizes[n] >= 1
  BY <1>1, <1>2 DEF PlanAccepted, Usable
<1>6. total = Product(Sizes, DOMAIN axes) /\ total \in 1 .. maxVariants
  BY <1>1, <1>2 DEF PlanAccepted, TrueProduct
<1> QED
  BY <1>2, <1>3, <1>4, <1>5, <1>6

\* The sizes of an expansion that goes on.
LEMMA SizesWhileExtending ==
  ASSUME ExpandInv, step \in Extending
  PROVE  SizesFit(Sizes, DOMAIN axes) /\ SizesFit(Sizes, Fixed) /\ SizesFit(Sizes, Random)
<1>1. /\ DOMAIN axes \subseteq Names /\ \A n \in DOMAIN axes : Sizes[n] \in Nat /\ Sizes[n] >= 1
  BY WhileExtending
<1>2. Fixed \subseteq DOMAIN axes /\ Random \subseteq DOMAIN axes
  BY SplitAxes
<1>3. ASSUME NEW S, S \subseteq DOMAIN axes PROVE SizesFit(Sizes, S)
  <2>1. IsFiniteSet(S) /\ S \subseteq Nat
    BY <1>1, <1>3, NamesFinite
  <2> QED
    BY <1>1, <1>3, <2>1 DEF SizesFit
<1> QED
  BY <1>2, <1>3

\* The variants are the cells times what is drawn for each.
LEMMA TotalSplits ==
  ASSUME ExpandInv, step \in Extending
  PROVE  /\ Product(Sizes, Fixed) \in Nat /\ Product(Sizes, Random) \in Nat
         /\ Product(Sizes, Fixed) >= 1 /\ Product(Sizes, Random) >= 1
         /\ total \in Nat /\ total = Product(Sizes, Fixed) * Product(Sizes, Random)
         /\ Product(Sizes, Fixed) <= total
<1>1. SizesFit(Sizes, DOMAIN axes) /\ SizesFit(Sizes, Random)
  BY SizesWhileExtending
<1>2. Fixed \subseteq DOMAIN axes /\ Random \subseteq Random /\ DOMAIN axes \ Fixed = Random
  BY SplitAxes
<1>3. total = Product(Sizes, DOMAIN axes) /\ total \in 1 .. maxVariants
  BY WhileExtending
<1>4. /\ Product(Sizes, Fixed) \in Nat /\ Product(Sizes, Fixed) >= 1
      /\ Product(Sizes, Fixed) <= Product(Sizes, DOMAIN axes)
      /\ Product(Sizes, DOMAIN axes) = Product(Sizes, Fixed) * Product(Sizes, DOMAIN axes \ Fixed)
  BY <1>1, <1>2, ProductPart
<1>5. Product(Sizes, Random) \in Nat /\ Product(Sizes, Random) >= 1
  BY <1>1, <1>2, ProductPart
<1> QED
  BY <1>2, <1>3, <1>4, <1>5

\* The loops of one state of an expansion that goes on.
LEMMA LoopsWhileExtending ==
  ASSUME ExpandInv, step \in Extending
  PROVE  LoopsBounded
<1>1. /\ Fixed \subseteq DOMAIN axes
      /\ \A n \in DOMAIN axes : Sizes[n] \in Nat /\ Sizes[n] = TrueSize(axes[n]) /\ Sizes[n] >= 1
  BY WhileExtending, SplitAxes
<1>2. ASSUME NEW n \in DOMAIN values PROVE Len(values[n].list) <= TrueSize(axes[n])
  <2>1. n \in Fixed /\ ListSoFar(values[n].list, values[n].closed, axes[n])
    BY DEF ExpandInv, ValuesInv
  <2>2. TrueSize(axes[n]) \in Nat /\ TrueSize(axes[n]) >= 1
    BY <1>1, <2>1
  <2>3. CASE axes[n].kind = "list"
    <3>1. TrueSize(axes[n]) = Len(axes[n].values)
      BY <2>3 DEF TrueSize
    <3>2. values[n].list = axes[n].values \/ values[n].list = <<>>
      BY <2>1, <2>3 DEF ListSoFar
    <3>3. Len(<<>>) = 0
      OBVIOUS
    <3> QED
      BY <2>2, <3>1, <3>2, <3>3
  <2>4. CASE axes[n].kind = "range"
    <3>1. Len(values[n].list) <= axes[n].to - axes[n].from + 1
      BY <2>1, <2>4 DEF ListSoFar
    <3>2. TrueSize(axes[n]) = axes[n].to - axes[n].from + 1
      BY <2>2, <2>4 DEF TrueSize
    <3> QED
      BY <3>1, <3>2
  <2>5. axes[n].kind \in {"list", "range"}
    <3>1. axes[n].kind # "random"
      BY <2>1 DEF Fixed, Random
    <3> QED
      BY <2>2, <3>1 DEF TrueSize
  <2> QED
    BY <2>3, <2>4, <2>5
<1>3. /\ Product(Sizes, Fixed) \in Nat /\ Product(Sizes, Random) \in Nat
      /\ Product(Sizes, Fixed) >= 1 /\ Product(Sizes, Random) >= 1 /\ total \in Nat /\ Product(Sizes, Fixed) <= total
  BY TotalSplits
<1>4. Len(<<>>) = 0
  OBVIOUS
<1>5. CASE step = "values"
  <2>1. cells = <<>> /\ variants = <<>> /\ combos = <<>> /\ grown = <<>>
    BY <1>5 DEF ExpandInv, VariantsInv, NothingDrawn
  <2> QED
    BY <1>2, <1>3, <1>4, <2>1 DEF LoopsBounded
<1>6. CASE step = "cross"
  <2>1. variants = <<>> /\ combos = <<>> /\ Producing(Sizes, cells, grown, {}, {}, DOMAIN cells[1], Fixed, ListsDistinct)
    BY <1>6 DEF ExpandInv, CrossInv
  <2>2. /\ Len(cells) \in Nat /\ Len(grown) \in Nat
        /\ Len(cells) <= Product(Sizes, Fixed \ {}) /\ Len(grown) <= Product(Sizes, Fixed \ {})
    BY <2>1, SizesWhileExtending, ProducingBounds
  <2>3. Fixed \ {} = Fixed
    OBVIOUS
  <2> QED
    BY <1>2, <1>3, <1>4, <2>1, <2>2, <2>3 DEF LoopsBounded
<1>7. CASE step \in Visiting
  <2>1. /\ cells \in Seq(Points(Fixed)) /\ variants \in Seq(Points(DOMAIN axes))
        /\ Len(variants) + Len(cells) * Product(Sizes, Random) = total
    BY <1>7 DEF ExpandInv, VariantsInv, Visited
  <2>2. Len(cells) \in Nat /\ Len(variants) \in Nat
    BY <2>1, LenProperties
  <2>3. Len(cells) <= Len(cells) * Product(Sizes, Random) /\ Len(cells) * Product(Sizes, Random) \in Nat
    BY <1>3, <2>2, TimesGrows
  <2>4. CASE step # "draw"
    <3>1. combos = <<>> /\ grown = <<>>
      BY <1>7, <2>4 DEF ExpandInv, VariantsInv, Visiting
    <3> QED
      BY <1>2, <1>3, <1>4, <2>1, <2>2, <2>3, <3>1 DEF LoopsBounded
  <2>5. CASE step = "draw"
    <3>1. cells # <<>> /\ Producing(Sizes, combos, grown, seen, Fixed, DOMAIN combos[1], DOMAIN axes, TRUE)
      BY <2>5 DEF ExpandInv, DrawInv
    <3>2. /\ Len(combos) \in Nat /\ Len(grown) \in Nat
          /\ Len(combos) <= Product(Sizes, DOMAIN axes \ Fixed) /\ Len(grown) <= Product(Sizes, DOMAIN axes \ Fixed)
      BY <3>1, SizesWhileExtending, ProducingBounds
    <3>3. DOMAIN axes \ Fixed = Random
      BY SplitAxes
    <3>4. Len(cells) >= 1
      BY <2>1, <3>1, HeadIsFirst
    <3>5. Product(Sizes, Random) <= Len(cells) * Product(Sizes, Random)
      <4>1. 1 * Product(Sizes, Random) <= Len(cells) * Product(Sizes, Random)
        <5>1. 1 \in Nat
          OBVIOUS
        <5> QED
          BY <1>3, <2>2, <3>4, <5>1, ProductGrows
      <4> QED
        BY <1>3, <4>1
    <3> QED
      <4> DEFINE r  == Product(Sizes, Random)
                 all == Len(cells) * r
      <4>1. r \in Nat /\ all \in Nat /\ total \in Nat /\ Len(variants) + all = total /\ r <= all /\ Len(cells) <= all
        BY <1>3, <2>1, <2>3, <3>5
      <4>2. Len(combos) <= r /\ Len(grown) <= r
        BY <3>2, <3>3
      <4> HIDE DEF r, all
      <4>3. Len(cells) <= total
        BY <2>2, <4>1
      <4>4. Len(variants) + Len(combos) <= total /\ Len(variants) + Len(grown) <= total
        BY <2>2, <3>2, <4>1, <4>2
      <4> QED
        BY <1>2, <4>3, <4>4 DEF LoopsBounded
  <2> QED
    BY <2>4, <2>5
<1> QED
  BY <1>5, <1>6, <1>7 DEF Extending, Visiting

\* The invariant is as strong as the property.
LEMMA InvImpliesExact == ExpandInv => ExpansionExact
<1>1. SUFFICES ASSUME ExpandInv PROVE ExpansionExact
  OBVIOUS
<1>2. step \in {"map", "match", "plan", "error"} \cup Extending
  BY <1>1 DEF ExpandInv, ExpandTypes
<1>3. PlannedCountExact
  <2>1. SUFFICES ASSUME step # "plan", total # Nil
                 PROVE  IF TrueProduct \in 1 .. maxVariants THEN total = TrueProduct ELSE total <= 0
    BY DEF PlannedCountExact
  <2>2. step \notin {"map", "match"}
    BY <1>1, <2>1 DEF ExpandInv, PlanInv
  <2>3. PlanAccepted \/ PlanRefused
    BY <1>1, <1>2, <2>1, <2>2 DEF ExpandInv, PlanInv
  <2> QED
    BY <2>3 DEF PlanAccepted, PlanRefused
<1>4. VariantsAsPlanned
  <2>1. SUFFICES ASSUME step = "done" PROVE VariantsAsPlanned
    BY DEF VariantsAsPlanned
  <2>2. step \in Visiting /\ step \in Extending
    BY <2>1 DEF Visiting, Extending
  <2>3. /\ cells = <<>> /\ variants \in Seq(Points(DOMAIN axes))
        /\ Len(variants) + Len(cells) * Product(Sizes, Random) = total
        /\ ListsDistinct => Distinct(variants) /\ \A y \in DOMAIN variants : Cardinality(SameCell(y)) = Product(Sizes, Random)
    BY <1>1, <2>1, <2>2 DEF ExpandInv, VariantsInv, Visited
  <2>4. Len(cells) = 0 /\ Len(variants) \in Nat /\ Product(Sizes, Random) \in Nat
    <3>1. Len(<<>>) = 0
      OBVIOUS
    <3> QED
      BY <1>1, <2>2, <2>3, <3>1, TotalSplits, LenProperties
  <2>5. Len(variants) = total
    <3>1. 0 * Product(Sizes, Random) = 0
      BY <2>4
    <3> QED
      BY <2>3, <2>4, <3>1
  <2> QED
    BY <2>3, <2>5 DEF VariantsAsPlanned
<1>5. LoopsBounded
  <2>1. CASE step = "error"
    BY <1>1, <2>1 DEF ExpandInv, PlanInv
  <2>2. CASE step \in Extending
    BY <1>1, <2>2, LoopsWhileExtending
  <2>3. CASE step \in {"map", "match", "plan"}
    <3>1. values = <<>> /\ cells = <<>> /\ variants = <<>> /\ combos = <<>> /\ grown = <<>>
      BY <1>1, <2>3 DEF ExpandInv, ValuesInv, VariantsInv, NothingDrawn
    <3>2. total = Nil \/ total \in 1 .. maxVariants
      BY <1>1, <2>3 DEF ExpandInv, PlanInv
    <3>3. Len(<<>>) = 0 /\ DOMAIN <<>> = {}
      OBVIOUS
    <3> QED
      BY <3>1, <3>2, <3>3 DEF LoopsBounded
  <2> QED
    BY <1>2, <2>1, <2>2, <2>3
<1> QED
  BY <1>3, <1>4, <1>5 DEF ExpansionExact

-----------------------------------------------------------------------------
(* The steps.                                                              *)

\* A limit that is divided instead of a product that is compared.
LEMMA DivisionRest ==
  ASSUME NEW b \in Nat, NEW m \in Nat \ {0}
  PROVE  /\ b \div m \in Nat /\ (b \div m) * m <= b /\ b < (b \div m + 1) * m
OBVIOUS

\* The two comparisons agree.
LEMMA DivisionBounds ==
  ASSUME NEW a \in Nat, NEW b \in Nat, NEW m \in Nat \ {0}
  PROVE  /\ a <= b \div m => a * m <= b
         /\ a > b \div m => a * m > b
<1> DEFINE q == b \div m
<1>1. q \in Nat /\ q * m <= b /\ b < (q + 1) * m /\ q + 1 \in Nat /\ m \in Nat
  BY DivisionRest
<1> HIDE DEF q
<1>2. ASSUME a <= q PROVE a * m <= b
  <2>1. a * m <= q * m /\ a * m \in Nat
    BY <1>1, <1>2, ProductGrows
  <2> QED
    BY <1>1, <2>1
<1>3. ASSUME a > q PROVE a * m > b
  <2>1. q + 1 <= a
    BY <1>1, <1>3
  <2>2. (q + 1) * m <= a * m /\ (q + 1) * m \in Nat
    BY <1>1, <2>1, ProductGrows
  <2> QED
    BY <1>1, <2>2
<1> QED
  BY <1>2, <1>3 DEF q

\* What one step of plannedCount makes of an exact product.
LEMMA TimesExact ==
  ASSUME maxVariants \in Limits, NEW count \in 1 .. maxVariants, NEW spec \in Mapped
  PROVE  \/ /\ Times(count, AxisSize(spec)) = count * TrueSize(spec)
            /\ Times(count, AxisSize(spec)) \in 1 .. maxVariants /\ TrueSize(spec) >= 1
         \/ /\ Times(count, AxisSize(spec)) = 0
            /\ count * TrueSize(spec) = 0 \/ count * TrueSize(spec) > maxVariants
<1> DEFINE size == AxisSize(spec)
           true == TrueSize(spec)
<1>1. maxVariants \in Nat /\ maxVariants >= 1 /\ maxVariants <= MaxInt
  <2>1. /\ maxVariants \in Nat /\ maxVariants >= 1 /\ AlphabetSize \in Nat /\ AlphabetSize >= 1
        /\ maxVariants * AlphabetSize <= MaxInt
    BY ExpansionAssumption
  <2>2. maxVariants <= maxVariants * AlphabetSize /\ maxVariants * AlphabetSize \in Nat
    BY <2>1, TimesGrows
  <2> QED
    BY <2>1, <2>2, GoIntAssumption
<1>2. /\ size \in Nat /\ true \in Nat
      /\ size \in 1 .. maxVariants => size = true
      /\ size \notin 1 .. maxVariants => true = 0 \/ true > maxVariants
  BY AxisSizeExact
<1>3. Times(count, size) = IF count = 0 \/ size = 0 \/ size > maxVariants \/ count > maxVariants \div size THEN 0
                           ELSE Wrap(count * size)
  BY DEF Times
<1> HIDE DEF size, true
<1>4. count \in Nat /\ count >= 1
  BY <1>1
<1>5. CASE size \notin 1 .. maxVariants
  <2>1. size = 0 \/ size > maxVariants
    BY <1>1, <1>2, <1>5
  <2>2. true <= count * true
    <3>1. true <= true * count /\ true * count = count * true
      BY <1>2, <1>4, TimesGrows
    <3> QED
      BY <3>1
  <2>3. count * true \in Nat /\ count * 0 = 0
    BY <1>2, <1>4
  <2>4. count * true = 0 \/ count * true > maxVariants
    BY <1>1, <1>2, <1>5, <2>2, <2>3
  <2> QED
    BY <1>3, <2>1, <2>4 DEF size, true
<1>6. CASE size \in 1 .. maxVariants
  <2>1. size \in Nat \ {0} /\ true = size
    BY <1>1, <1>2, <1>6
  <2>2. CASE count > maxVariants \div size
    <3>1. count * size > maxVariants
      BY <1>1, <1>4, <2>1, <2>2, DivisionBounds
    <3> QED
      BY <1>3, <2>1, <2>2, <3>1 DEF size, true
  <2>3. CASE ~(count > maxVariants \div size)
    <3>1. maxVariants \div size \in Nat
      BY <1>1, <2>1, DivisionRest
    <3>2. count * size <= maxVariants
      BY <1>1, <1>4, <2>1, <2>3, <3>1, DivisionBounds
    <3>3. count <= count * size /\ count * size \in Nat
      BY <1>4, <2>1, TimesGrows
    <3>4. count * size \in MinInt .. MaxInt
      BY <1>1, <3>2, <3>3, GoIntAssumption
    <3>5. Wrap(count * size) = count * size
      <4> DEFINE w == count * size
      <4> HIDE DEF w
      <4>1. w \in MinInt .. MaxInt
        BY <3>4 DEF w
      <4> QED
        BY <4>1, WrapIsIdentity DEF w
    <3>6. Times(count, size) = count * size
      BY <1>1, <1>3, <1>4, <1>6, <2>1, <2>3, <3>5
    <3> QED
      BY <1>1, <1>4, <2>1, <3>2, <3>3, <3>6 DEF size, true
  <2> QED
    BY <2>2, <2>3
<1> QED
  BY <1>5, <1>6

\* Once a part of the product is beyond the limit, or nothing, so is the product.
LEMMA ProductBeyond ==
  ASSUME NEW f, NEW All, IsFiniteSet(All), \A x \in All : f[x] \in Nat,
         NEW S, S \subseteq All, NEW limit \in Nat, Product(f, S) = 0 \/ Product(f, S) > limit
  PROVE  Product(f, All) = 0 \/ Product(f, All) > limit
<1> DEFINE T == All \ S
<1>1. IsFiniteSet(S) /\ IsFiniteSet(T) /\ S \cap T = {} /\ S \cup T = All
  BY FS_Subset
<1>2. (\A x \in S : f[x] \in Nat) /\ (\A x \in T : f[x] \in Nat) /\ \A x \in S \cup T : f[x] \in Nat
  OBVIOUS
<1> HIDE DEF T
<1>3. Product(f, S) \in Nat /\ Product(f, T) \in Nat
  BY <1>1, <1>2, PicksFinite
<1>4. Product(f, S \cup T) = Product(f, S) * Product(f, T)
  BY <1>1, <1>2, ProductSplit
<1>5. Product(f, T) = 0 \/ Product(f, S) <= Product(f, S) * Product(f, T)
  BY <1>3, TimesGrows
<1> DEFINE a == Product(f, S)
           b == Product(f, T)
<1>6. a \in Nat /\ b \in Nat /\ (b = 0 \/ a <= a * b) /\ (a = 0 \/ a > limit) /\ Product(f, All) = a * b
  BY <1>1, <1>3, <1>4, <1>5
<1> HIDE DEF a, b
<1>7. a * b \in Nat /\ a * 0 = 0 /\ 0 * b = 0
  BY <1>6
<1> QED
  BY <1>6, <1>7

\* What is said of the axes stays as long as they do.
LEMMA AxesSame ==
  ASSUME axes' = axes
  PROVE  Sizes' = Sizes /\ Fixed' = Fixed /\ Random' = Random /\ ListsDistinct' = ListsDistinct
BY DEF Sizes, TrueSize, LengthOf, Strings, Fixed, Random, ListsDistinct, Distinct

\* A mapped axis is one a request could have.
LEMMA MappedIsTyped == Mapped \subseteq AxisSpec
BY DEF Mapped, AxisSpec, Optional

\* mapAxes leaves no optional field.
LEMMA MapAxisMaps ==
  ASSUME NEW spec \in AxisSpec
  PROVE  MapAxis(spec) \in Mapped
<1>1. ASSUME NEW field \in Optional PROVE OrZero(field) \in MinInt .. MaxInt
  BY GoIntAssumption DEF Optional, OrZero
<1>2. /\ OrZero(spec.from) \in MinInt .. MaxInt /\ OrZero(spec.to) \in MinInt .. MaxInt
      /\ OrZero(spec.count) \in MinInt .. MaxInt /\ OrZero(spec.length) \in MinInt .. MaxInt
  BY <1>1 DEF AxisSpec
<1> DEFINE one == [spec EXCEPT !.from = OrZero(spec.from)]
           two == [one EXCEPT !.to = OrZero(spec.to)]
           three == [two EXCEPT !.count = OrZero(spec.count)]
<1>3. one \in [kind : STRING, values : Seq(Int), from : MinInt .. MaxInt, to : Optional,
               count : Optional, length : Optional, unsafe : BOOLEAN]
  BY <1>2 DEF AxisSpec
<1>4. two \in [kind : STRING, values : Seq(Int), from : MinInt .. MaxInt, to : MinInt .. MaxInt,
               count : Optional, length : Optional, unsafe : BOOLEAN]
  <2> HIDE DEF one
  <2> QED
    BY <1>2, <1>3
<1>5. three \in [kind : STRING, values : Seq(Int), from : MinInt .. MaxInt, to : MinInt .. MaxInt,
               count : MinInt .. MaxInt, length : Optional, unsafe : BOOLEAN]
  <2> HIDE DEF two
  <2> QED
    BY <1>2, <1>4
<1>6. [three EXCEPT !.length = OrZero(spec.length)] \in Mapped
  <2> HIDE DEF three
  <2> QED
    BY <1>2, <1>5 DEF Mapped
<1>7. MapAxis(spec) = [three EXCEPT !.length = OrZero(spec.length)]
  BY DEF MapAxis, AxisSpec
<1> QED
  BY <1>6, <1>7

\* The template is parsed.
LEMMA ExpandInitEstablishes == ExpandInit => ExpandInv
<1>1. SUFFICES ASSUME ExpandInit PROVE ExpandInv
  OBVIOUS
<1>2. step = "map" /\ total = Nil /\ planned = {} /\ values = <<>> /\ cells = <<>> /\ variants = <<>> /\ NothingDrawn
  BY <1>1 DEF ExpandInit
<1>3. ExpandTypes
  <2>1. PICK D \in SUBSET Names : axes \in [D -> Specs]
    BY <1>1 DEF ExpandInit
  <2>2. DOMAIN axes = D /\ axes \in [DOMAIN axes -> AxisSpec \cup Mapped]
    BY <2>1, ExpansionAssumption
  <2> QED
    BY <1>1, <1>2, <2>2 DEF ExpandTypes, ExpandInit
<1>4. PlanInv /\ ValuesInv /\ CrossInv /\ DrawInv /\ VariantsInv
  BY <1>2 DEF PlanInv, ValuesInv, CrossInv, DrawInv, VariantsInv, Extending, Visiting
<1> QED
  BY <1>3, <1>4 DEF ExpandInv

\* Each step of the expansion.
LEMMA MapAxesKeeps == ASSUME ExpandInv, MapAxes PROVE ExpandInv'
<1>1. /\ step = "map" /\ step' \in {"match", "error"} /\ placeholders' = placeholders /\ maxVariants' = maxVariants
      /\ total' = total /\ planned' = planned /\ values' = values /\ cells' = cells /\ variants' = variants
      /\ combos' = combos /\ grown' = grown /\ seen' = seen /\ attempts' = attempts
  BY DEF MapAxes, drawing
<1>2. total = Nil /\ planned = {} /\ values = <<>> /\ cells = <<>> /\ variants = <<>> /\ NothingDrawn
  BY <1>1 DEF ExpandInv, PlanInv, ValuesInv, VariantsInv
<1>3. ExpandTypes'
  <2>1. axes \in [DOMAIN axes -> AxisSpec]
    BY MappedIsTyped DEF ExpandInv, ExpandTypes
  <2>2. CASE step' = "error"
    <3>1. axes' = axes
      BY <2>2 DEF MapAxes
    <3> QED
      BY <1>1, <1>2, <2>2, <3>1 DEF ExpandInv, ExpandTypes
  <2>3. CASE step' = "match"
    <3>1. axes' = [n \in DOMAIN axes |-> MapAxis(axes[n])]
      BY <2>3 DEF MapAxes
    <3>2. DOMAIN axes' = DOMAIN axes /\ axes' \in [DOMAIN axes -> Mapped]
      BY <2>1, <3>1, MapAxisMaps
    <3>3. axes' \in [DOMAIN axes' -> Mapped] /\ axes' \in [DOMAIN axes' -> AxisSpec \cup Mapped]
      BY <3>2
    <3> QED
      BY <1>1, <2>3, <3>2, <3>3 DEF ExpandInv, ExpandTypes
  <2> QED
    BY <1>1, <2>2, <2>3
<1>4. LoopsBounded'
  <2>1. Len(<<>>) = 0 /\ DOMAIN <<>> = {}
    OBVIOUS
  <2> QED
    BY <1>1, <1>2, <2>1 DEF LoopsBounded
<1>5. PlanInv'
  BY <1>1, <1>2, <1>4 DEF PlanInv, Extending
<1>6. ValuesInv' /\ CrossInv' /\ DrawInv' /\ VariantsInv'
  BY <1>1, <1>2 DEF ValuesInv, CrossInv, DrawInv, VariantsInv, NothingDrawn, Extending, Visiting
<1> QED
  BY <1>3, <1>5, <1>6 DEF ExpandInv

LEMMA MatchNamesKeeps == ASSUME ExpandInv, MatchNames PROVE ExpandInv'
<1>1. /\ step = "match" /\ step' \in {"plan", "error"} /\ placeholders' = placeholders /\ maxVariants' = maxVariants
      /\ axes' = axes /\ planned' = planned /\ values' = values /\ cells' = cells /\ variants' = variants
      /\ combos' = combos /\ grown' = grown /\ seen' = seen /\ attempts' = attempts
  BY DEF MatchNames, drawing
<1>2. total = Nil /\ planned = {} /\ values = <<>> /\ cells = <<>> /\ variants = <<>> /\ NothingDrawn
  BY <1>1 DEF ExpandInv, PlanInv, ValuesInv, VariantsInv
<1>3. \/ step' = "plan" /\ total' = 1 /\ placeholders = DOMAIN axes
      \/ step' = "error" /\ total' = Nil
  BY <1>2 DEF MatchNames
<1>4. ExpandTypes'
  BY <1>1, <1>3 DEF ExpandInv, ExpandTypes, Extending
<1>5. LoopsBounded'
  <2>1. Len(<<>>) = 0 /\ DOMAIN <<>> = {}
    OBVIOUS
  <2> QED
    BY <1>1, <1>2, <1>3, <2>1 DEF LoopsBounded, NothingDrawn
<1>6. PlanInv'
  <2>1. CASE step' = "error"
    BY <1>3, <1>5, <2>1 DEF PlanInv, Extending
  <2>2. CASE step' = "plan"
    <3>1. total' = 1 /\ placeholders' = DOMAIN axes' /\ planned' = {} /\ maxVariants' = maxVariants
      BY <1>1, <1>2, <1>3, <2>2
    <3>2. Product(Sizes', planned') = 1
      BY <3>1, ProductEmpty
    <3>3. total' \in 1 .. maxVariants'
      BY <3>1, ExpansionAssumption DEF ExpandInv, ExpandTypes
    <3> QED
      BY <2>2, <3>1, <3>2, <3>3 DEF PlanInv, Extending, Usable
  <2> QED
    BY <1>1, <2>1, <2>2
<1>7. ValuesInv' /\ CrossInv' /\ DrawInv' /\ VariantsInv'
  BY <1>1, <1>2 DEF ValuesInv, CrossInv, DrawInv, VariantsInv, NothingDrawn, Extending, Visiting
<1> QED
  BY <1>4, <1>6, <1>7 DEF ExpandInv

LEMMA PlanAxisKeeps == ASSUME ExpandInv, PlanAxis PROVE ExpandInv'
<1>1. /\ step = "plan" /\ placeholders' = placeholders /\ maxVariants' = maxVariants /\ axes' = axes
      /\ values' = values /\ cells' = cells /\ variants' = variants
      /\ combos' = combos /\ grown' = grown /\ seen' = seen /\ attempts' = attempts
  BY DEF PlanAxis, drawing
<1>2. PICK n \in placeholders \ planned :
        /\ total' = Times(total, AxisSize(axes[n])) /\ planned' = planned \cup {n}
        /\ step' = IF total' = 0 THEN "error" ELSE "plan"
  BY DEF PlanAxis
<1>3. /\ placeholders = DOMAIN axes /\ planned \subseteq placeholders
      /\ total = Product(Sizes, planned) /\ total \in 1 .. maxVariants /\ Usable(planned)
  BY <1>1 DEF ExpandInv, PlanInv
<1>4. values = <<>> /\ cells = <<>> /\ variants = <<>> /\ NothingDrawn
  BY <1>1 DEF ExpandInv, ValuesInv, VariantsInv
<1>5. maxVariants \in Limits /\ axes \in [DOMAIN axes -> Mapped] /\ placeholders \subseteq Names
  <2>1. total # Nil
    BY <1>1, <1>3, ExpansionAssumption, GoIntAssumption DEF ExpandInv, ExpandTypes
  <2> QED
    BY <1>1, <2>1 DEF ExpandInv, ExpandTypes
<1>6. axes[n] \in Mapped /\ n \in DOMAIN axes
  BY <1>2, <1>3, <1>5
<1>7. (\A x \in DOMAIN axes : Sizes[x] \in Nat) /\ Sizes[n] = TrueSize(axes[n])
  BY <1>5, <1>6, SizesTyped
<1>8. IsFiniteSet(placeholders) /\ IsFiniteSet(planned) /\ planned \cup {n} \subseteq placeholders /\ n \notin planned
  BY <1>2, <1>3, <1>5, NamesFinite, FS_Subset
<1>9. Product(Sizes, planned \cup {n}) = total * TrueSize(axes[n])
  <2>1. \A x \in planned \cup {n} : Sizes[x] \in Nat
    BY <1>3, <1>7, <1>8
  <2>2. Product(Sizes, planned \cup {n}) = Product(Sizes, planned) * Sizes[n]
    BY <1>8, <2>1, ProductAdd
  <2> QED
    BY <1>3, <1>7, <2>2
<1>10. \/ total' = total * TrueSize(axes[n]) /\ total' \in 1 .. maxVariants /\ TrueSize(axes[n]) >= 1
       \/ total' = 0 /\ (total * TrueSize(axes[n]) = 0 \/ total * TrueSize(axes[n]) > maxVariants)
  BY <1>2, <1>3, <1>5, <1>6, TimesExact
<1>11. Sizes' = Sizes
  BY <1>1, AxesSame
<1>12. ExpandTypes'
  BY <1>1, <1>2, <1>5 DEF ExpandInv, ExpandTypes, Extending
<1>13. LoopsBounded'
  <2>1. Len(<<>>) = 0 /\ DOMAIN <<>> = {}
    OBVIOUS
  <2>2. total' \in Nat
    BY <1>5, <1>10, ExpansionAssumption
  <2> QED
    BY <1>1, <1>4, <2>1, <2>2 DEF LoopsBounded, NothingDrawn
<1>14. PlanInv'
  <2>1. CASE total' = 0
    <3>1. step' = "error"
      BY <1>2, <2>1
    <3>2. Product(Sizes, planned \cup {n}) = 0 \/ Product(Sizes, planned \cup {n}) > maxVariants
      BY <1>5, <1>9, <1>10, <2>1, ExpansionAssumption
    <3>3. maxVariants \in Nat
      BY <1>5, ExpansionAssumption
    <3>4. Product(Sizes, placeholders) = 0 \/ Product(Sizes, placeholders) > maxVariants
      <4>1. \A x \in placeholders : Sizes[x] \in Nat
        BY <1>3, <1>7
      <4> QED
        BY <1>8, <3>2, <3>3, <4>1, ProductBeyond
    <3>5. Product(Sizes', placeholders') \notin 1 .. maxVariants'
      BY <1>1, <1>11, <3>3, <3>4
    <3>6. PlanRefused'
      BY <1>1, <1>3, <2>1, <3>5 DEF PlanRefused, TrueProduct
    <3> QED
      BY <1>13, <3>1, <3>6 DEF PlanInv, Extending
  <2>2. CASE total' # 0
    <3>1. step' = "plan" /\ total' = total * TrueSize(axes[n]) /\ total' \in 1 .. maxVariants /\ TrueSize(axes[n]) >= 1
      BY <1>2, <1>10, <2>2
    <3>2. total' = Product(Sizes', planned')
      BY <1>2, <1>9, <1>11, <3>1
    <3>3. Usable(planned)'
      BY <1>2, <1>3, <1>7, <1>11, <3>1 DEF Usable
    <3> QED
      BY <1>1, <1>2, <1>3, <1>8, <3>1, <3>2, <3>3 DEF PlanInv, Extending
  <2> QED
    BY <2>1, <2>2
<1>15. ValuesInv' /\ CrossInv' /\ DrawInv' /\ VariantsInv'
  BY <1>1, <1>2, <1>4 DEF ValuesInv, CrossInv, DrawInv, VariantsInv, NothingDrawn, Extending, Visiting
<1> QED
  BY <1>12, <1>14, <1>15 DEF ExpandInv

LEMMA PlannedCountKeeps == ASSUME ExpandInv, PlannedCount PROVE ExpandInv'
<1>1. /\ step = "plan" /\ placeholders' = placeholders /\ maxVariants' = maxVariants /\ axes' = axes
      /\ total' = total /\ planned' = planned /\ planned = placeholders /\ cells' = cells /\ variants' = variants
      /\ combos' = combos /\ grown' = grown /\ seen' = seen /\ attempts' = attempts
      /\ step' = IF total <= 0 THEN "error" ELSE "values"
      /\ values' = [n \in Fixed |-> [list |-> <<>>, closed |-> FALSE]]
  BY DEF PlannedCount, drawing
<1>2. /\ placeholders = DOMAIN axes /\ total = Product(Sizes, planned) /\ total \in 1 .. maxVariants /\ Usable(planned)
  BY <1>1 DEF ExpandInv, PlanInv
<1>3. cells = <<>> /\ variants = <<>> /\ NothingDrawn
  BY <1>1 DEF ExpandInv, VariantsInv
<1>4. step' = "values"
  BY <1>1, <1>2, ExpansionAssumption DEF ExpandInv, ExpandTypes
<1>5. Sizes' = Sizes /\ Fixed' = Fixed
  BY <1>1, AxesSame
<1>6. maxVariants \in Limits /\ axes \in [DOMAIN axes -> Mapped]
  <2>1. total # Nil
    BY <1>1, <1>2, ExpansionAssumption, GoIntAssumption DEF ExpandInv, ExpandTypes
  <2> QED
    BY <1>1, <2>1 DEF ExpandInv, ExpandTypes
<1>7. ExpandTypes'
  BY <1>1, <1>4, <1>6 DEF ExpandInv, ExpandTypes, Extending
<1>8. PlanInv'
  <2>1. PlanAccepted'
    BY <1>1, <1>2, <1>5 DEF PlanAccepted, TrueProduct, Usable
  <2> QED
    BY <1>4, <2>1 DEF PlanInv
<1>9. ValuesInv'
  <2>1. ASSUME NEW n \in Fixed
        PROVE  ListSoFar(values'[n].list, values'[n].closed, axes[n])
    <3>1. values'[n] = [list |-> <<>>, closed |-> FALSE]
      BY <1>1, <2>1
    <3>2. /\ axes[n].from \in Int /\ axes[n].to \in Int /\ axes[n].kind # "random" /\ Sizes[n] = TrueSize(axes[n]) /\ Sizes[n] >= 1
      <4>1. n \in DOMAIN axes /\ axes[n].kind # "random"
        BY SplitAxes DEF Fixed, Random
      <4>2. axes[n] \in Mapped /\ Sizes[n] = TrueSize(axes[n]) /\ Sizes[n] >= 1
        BY <1>1, <1>2, <1>6, <4>1, SizesTyped DEF Usable
      <4> QED
        BY <4>1, <4>2, GoIntAssumption DEF Mapped
    <3>3. Len(<<>>) = 0 /\ <<>> \in Seq(Int)
      OBVIOUS
    <3>4. axes[n].kind = "range" => axes[n].from <= axes[n].to
      BY <3>2 DEF TrueSize
    <3> QED
      BY <3>1, <3>2, <3>3, <3>4 DEF ListSoFar
  <2> QED
    BY <1>1, <1>4, <1>5, <2>1 DEF ValuesInv
<1>10. CrossInv' /\ DrawInv' /\ VariantsInv'
  BY <1>1, <1>3, <1>4 DEF CrossInv, DrawInv, VariantsInv, NothingDrawn, Visiting
<1> QED
  BY <1>7, <1>8, <1>9, <1>10 DEF ExpandInv

\* An expansion that goes on, with the axes and the count it had.
LEMMA StaysAccepted ==
  ASSUME ExpandInv, step \in Extending, placeholders' = placeholders, maxVariants' = maxVariants,
         axes' = axes, total' = total, step' \in Extending \cup {"error"},
         step' = "error" => LoopsBounded'
  PROVE  ExpandTypes' /\ PlanInv'
<1>1. PlanAccepted
  BY DEF ExpandInv, PlanInv
<1>2. Sizes' = Sizes
  BY AxesSame
<1>3. PlanAccepted'
  BY <1>1, <1>2 DEF PlanAccepted, TrueProduct, Usable
<1>4. PlanInv'
  BY <1>3 DEF PlanInv, Extending
<1>5. axes \in [DOMAIN axes -> Mapped]
  BY DEF ExpandInv, ExpandTypes, Extending
<1>6. ExpandTypes'
  BY <1>5 DEF ExpandInv, ExpandTypes, Extending
<1> QED
  BY <1>4, <1>6

\* The fixed axes of an expansion that goes on are lists and ranges with values.
LEMMA FixedAxis ==
  ASSUME ExpandInv, step \in Extending, NEW n \in Fixed
  PROVE  /\ n \in DOMAIN axes /\ axes[n].kind \in {"list", "range"} /\ Sizes[n] \in Nat
         /\ axes[n].from \in MinInt .. MaxInt /\ axes[n].to \in MinInt .. MaxInt /\ axes[n].values \in Seq(Int)
         /\ axes[n].kind = "list" => Sizes[n] = Len(axes[n].values)
         /\ axes[n].kind = "range" => axes[n].from <= axes[n].to /\ Sizes[n] = axes[n].to - axes[n].from + 1
<1>1. n \in DOMAIN axes /\ axes[n].kind # "random"
  BY DEF Fixed, Random
<1>2. axes[n] \in Mapped /\ Sizes[n] \in Nat /\ Sizes[n] = TrueSize(axes[n]) /\ Sizes[n] >= 1
  BY <1>1, WhileExtending
<1>3. axes[n].from \in MinInt .. MaxInt /\ axes[n].to \in MinInt .. MaxInt /\ axes[n].values \in Seq(Int)
  BY <1>2 DEF Mapped
<1>4. axes[n].kind \in {"list", "range"}
  BY <1>1, <1>2 DEF TrueSize
<1>5. axes[n].kind = "list" => Sizes[n] = Len(axes[n].values)
  BY <1>2 DEF TrueSize
<1>6. axes[n].kind = "range" => axes[n].from <= axes[n].to /\ Sizes[n] = axes[n].to - axes[n].from + 1
  BY <1>2, <1>3, GoIntAssumption DEF TrueSize
<1> QED
  BY <1>1, <1>2, <1>3, <1>4, <1>5, <1>6

\* The loops of fixedAxisValues leave every value of an axis once.
LEMMA ClosedList ==
  ASSUME ExpandInv, step \in Extending, NEW n \in Fixed, values[n].closed
  PROVE  /\ values[n].list \in Seq(Int) /\ Len(values[n].list) = Sizes[n]
         /\ ListsDistinct => Distinct(values[n].list)
<1> DEFINE list == values[n].list
           spec == axes[n]
<1>1. ListSoFar(list, values[n].closed, spec)
  BY DEF ExpandInv, ValuesInv
<1>2. list \in Seq(Int)
  BY <1>1 DEF ListSoFar
<1>3. CASE spec.kind = "list"
  <2>1. list = spec.values
    BY <1>1, <1>3 DEF ListSoFar
  <2>2. Len(list) = Sizes[n] /\ n \in DOMAIN axes
    BY <1>3, <2>1, FixedAxis
  <2>3. ListsDistinct => Distinct(list)
    BY <1>3, <2>1, <2>2 DEF ListsDistinct
  <2> QED
    BY <1>2, <2>2, <2>3
<1>4. CASE spec.kind = "range"
  <2>1. Len(list) = spec.to - spec.from + 1 /\ \A i \in 1 .. Len(list) : list[i] = spec.from + i - 1
    BY <1>1, <1>4 DEF ListSoFar
  <2>2. Sizes[n] = spec.to - spec.from + 1 /\ spec.from \in Int /\ spec.to \in Int
    BY <1>4, FixedAxis, GoIntAssumption
  <2>3. DOMAIN list = 1 .. Len(list) /\ Len(list) \in Nat
    BY <1>2, LenProperties
  <2> HIDE DEF list
  <2>4. Distinct(list)
    BY <2>1, <2>2, <2>3 DEF Distinct
  <2> QED
    BY <1>2, <2>1, <2>2, <2>4 DEF list
<1> QED
  BY <1>3, <1>4, FixedAxis

LEMMA FixedAxisValueKeeps == ASSUME ExpandInv, FixedAxisValue PROVE ExpandInv'
<1> DEFINE open == {n \in Fixed : ~values[n].closed}
           n    == Min(open)
           spec == axes[n]
           list == values[n].list
           at   == IF list = <<>> THEN spec.from ELSE Wrap(list[Len(list)] + 1)
           next == IF spec.kind = "list" THEN [list |-> spec.values, closed |-> TRUE]
                   ELSE [list |-> Append(list, at), closed |-> at = spec.to]
<1>1. /\ step = "values" /\ open # {} /\ placeholders' = placeholders /\ maxVariants' = maxVariants /\ axes' = axes
      /\ step' = step /\ total' = total /\ planned' = planned /\ cells' = cells /\ variants' = variants
      /\ combos' = combos /\ grown' = grown /\ seen' = seen /\ attempts' = attempts
  BY DEF FixedAxisValue, drawing
<1>2. values' = [values EXCEPT ![n] = next]
  BY DEF FixedAxisValue, LoopStops
<1>3. step \in Extending
  BY <1>1 DEF Extending
<1>4. n \in Fixed /\ ~values[n].closed
  <2>1. open \subseteq Nat
    BY <1>3, SizesWhileExtending DEF SizesFit
  <2> HIDE DEF open
  <2>2. \E x \in open : \A y \in open : x <= y
    BY <1>1, <2>1, LeastNatural
  <2>3. Min(open) \in open
    BY <2>2 DEF Min
  <2> QED
    BY <2>3 DEF open
<1>5. DOMAIN values = Fixed /\ \A x \in Fixed : ListSoFar(values[x].list, values[x].closed, axes[x])
  BY <1>3 DEF ExpandInv, ValuesInv
<1>6. DOMAIN values' = Fixed /\ values'[n] = next /\ \A x \in Fixed \ {n} : values'[x] = values[x]
  <2> HIDE DEF n, next
  <2> QED
    BY <1>2, <1>4, <1>5
<1>7. /\ spec.kind \in {"list", "range"} /\ spec.from \in MinInt .. MaxInt /\ spec.to \in MinInt .. MaxInt
      /\ spec.values \in Seq(Int)
  <2> HIDE DEF n
  <2> QED
    BY <1>3, <1>4, FixedAxis
<1>8. ListSoFar(list, values[n].closed, spec)
  BY <1>4, <1>5
<1> HIDE DEF n
<1>9. ListSoFar(next.list, next.closed, spec)
  <2>1. CASE spec.kind = "list"
    BY <1>7, <2>1 DEF ListSoFar
  <2>2. CASE spec.kind = "range"
    <3>1. /\ list \in Seq(Int) /\ Len(list) <= spec.to - spec.from + 1 /\ Len(list) # spec.to - spec.from + 1
          /\ \A i \in 1 .. Len(list) : list[i] = spec.from + i - 1
      BY <1>4, <1>8, <2>2 DEF ListSoFar
    <3>2. Len(list) \in Nat /\ (list # <<>> => Len(list) >= 1) /\ (list = <<>> => Len(list) = 0)
      <4> HIDE DEF list
      <4>1. list # <<>> => Len(list) >= 1
        BY <3>1, HeadIsFirst
      <4> QED
        BY <3>1, <4>1, LenProperties
    <3>3. at = spec.from + Len(list)
      <4>1. CASE list = <<>>
        BY <1>7, <3>2, <4>1, GoIntAssumption
      <4>2. CASE list # <<>>
        <5> DEFINE last == list[Len(list)]
        <5>1. last = spec.from + Len(list) - 1
          BY <3>1, <3>2, <4>2
        <5>2. last + 1 = spec.from + Len(list)
          BY <1>7, <3>2, <5>1, GoIntAssumption
        <5>3. spec.from + Len(list) \in MinInt .. MaxInt
          <6>1. spec.from + Len(list) <= spec.to
            <7>1. Len(list) <= spec.to - spec.from + 1 /\ Len(list) # spec.to - spec.from + 1
              BY <3>1
            <7>2. spec.from \in Int /\ spec.to \in Int
              BY <1>7, GoIntAssumption
            <7> HIDE DEF list, spec
            <7> QED
              BY <3>2, <7>1, <7>2
          <6>2. spec.from >= MinInt /\ spec.to <= MaxInt /\ spec.from \in Int /\ spec.to \in Int /\ MinInt \in Int /\ MaxInt \in Int
            BY <1>7, GoIntAssumption
          <6> HIDE DEF list, spec
          <6> QED
            BY <3>2, <6>1, <6>2
        <5>4. Wrap(last + 1) = last + 1
          <6> DEFINE w == last + 1
          <6>1. w \in MinInt .. MaxInt
            BY <5>2, <5>3
          <6> HIDE DEF w
          <6>2. Wrap(w) = w
            BY <6>1, WrapIsIdentity
          <6> QED
            BY <6>2 DEF w
        <5> QED
          BY <4>2, <5>2, <5>4
      <4> QED
        BY <4>1, <4>2
    <3>4. at \in Int /\ spec.from \in Int /\ spec.to \in Int
      BY <1>7, <3>2, <3>3, GoIntAssumption
    <3> HIDE DEF at, list
    <3>5. /\ Append(list, at) \in Seq(Int) /\ Len(Append(list, at)) = Len(list) + 1
          /\ Append(list, at)[Len(list) + 1] = at
          /\ \A i \in 1 .. Len(list) : Append(list, at)[i] = list[i]
      BY <3>1, <3>4, AppendProperties
    <3>6. next = [list |-> Append(list, at), closed |-> at = spec.to]
      BY <2>2
    <3> DEFINE more == Append(list, at)
    <3> HIDE DEF more
    <3>7. more \in Seq(Int) /\ Len(more) = Len(list) + 1 /\ more[Len(list) + 1] = at
          /\ \A i \in 1 .. Len(list) : more[i] = list[i]
      BY <3>5 DEF more
    <3>8. \A i \in 1 .. Len(more) : more[i] = spec.from + i - 1
      <4>1. ASSUME NEW i \in 1 .. Len(more) PROVE more[i] = spec.from + i - 1
        <5>1. CASE i = Len(list) + 1
          BY <3>2, <3>3, <3>4, <3>7, <5>1
        <5>2. CASE i \in 1 .. Len(list)
          BY <3>1, <3>7, <5>2
        <5> QED
          BY <3>2, <3>7, <4>1, <5>1, <5>2
      <4> QED
        BY <4>1
    <3>9. Len(more) <= spec.to - spec.from + 1 /\ (at = spec.to <=> Len(more) = spec.to - spec.from + 1)
      <4>1. Len(list) <= spec.to - spec.from + 1 /\ Len(list) # spec.to - spec.from + 1
        BY <3>1
      <4>2. Len(more) = Len(list) + 1 /\ Len(list) \in Nat
        BY <3>2, <3>7
      <4> HIDE DEF spec
      <4> QED
        BY <3>3, <3>4, <4>1, <4>2
    <3>10. next.list = more /\ next.closed = (at = spec.to)
      BY <3>6 DEF more
    <3> QED
      BY <2>2, <3>7, <3>8, <3>9, <3>10 DEF ListSoFar
  <2> QED
    BY <1>7, <2>1, <2>2
<1>10. Fixed' = Fixed
  BY <1>1, AxesSame
<1>11. ValuesInv'
  <2>1. ASSUME NEW x \in Fixed PROVE ListSoFar(values'[x].list, values'[x].closed, axes[x])
    <3>1. CASE x = n
      BY <1>6, <1>9, <3>1
    <3>2. CASE x # n
      BY <1>5, <1>6, <3>2
    <3> QED
      BY <3>1, <3>2
  <2> QED
    BY <1>1, <1>6, <1>10, <2>1 DEF ValuesInv
<1>12. ExpandTypes' /\ PlanInv'
  BY <1>1, <1>3, StaysAccepted DEF Extending
<1>13. CrossInv' /\ DrawInv' /\ VariantsInv'
  <2>1. cells = <<>> /\ variants = <<>> /\ NothingDrawn
    BY <1>1 DEF ExpandInv, VariantsInv
  <2> QED
    BY <1>1, <2>1 DEF CrossInv, DrawInv, VariantsInv, NothingDrawn, Visiting
<1> QED
  BY <1>11, <1>12, <1>13 DEF ExpandInv

\* The parameters of the bases.
LEMMA FirstDomain ==
  ASSUME NEW D, NEW bases \in Seq(Points(D)), bases # <<>>
  PROVE  DOMAIN bases[1] = D
<1>1. bases[1] \in Points(D)
  BY HeadIsFirst
<1> QED
  BY <1>1 DEF Points

LEMMA CartesianKeeps == ASSUME ExpandInv, Cartesian PROVE ExpandInv'
<1>1. /\ step = "values" /\ step' = "cross" /\ placeholders' = placeholders /\ maxVariants' = maxVariants /\ axes' = axes
      /\ total' = total /\ planned' = planned /\ values' = values /\ cells' = <<NoParams>> /\ variants' = variants
      /\ combos' = combos /\ grown' = grown /\ seen' = seen /\ attempts' = attempts
      /\ \A n \in Fixed : values[n].closed
  BY DEF Cartesian, drawing
<1>2. variants = <<>> /\ NothingDrawn
  BY <1>1 DEF ExpandInv, VariantsInv
<1>3. step \in Extending /\ step' \in Extending
  BY <1>1 DEF Extending
<1>4. ExpandTypes' /\ PlanInv'
  BY <1>1, <1>3, StaysAccepted
<1>5. Sizes' = Sizes /\ Fixed' = Fixed /\ ListsDistinct' = ListsDistinct
  BY <1>1, AxesSame
<1>6. ValuesInv'
  BY <1>1, <1>3, <1>5 DEF ExpandInv, ValuesInv, Extending
<1>7. Producing(Sizes, <<NoParams>>, <<>>, {}, {}, {}, Fixed, ListsDistinct)
  <2>1. <<NoParams>> \in Seq(Points({})) /\ <<NoParams>> # <<>> /\ Len(<<NoParams>>) = 1
    <3>1. NoParams \in Points({})
      BY DEF NoParams, Points
    <3> QED
      BY <3>1
  <2>2. Product(Sizes, {} \ {}) = 1
    <3>1. {} \ {} = {}
      OBVIOUS
    <3> QED
      BY <3>1, ProductEmpty
  <2>3. Distinct(<<NoParams>>)
    BY DEF Distinct
  <2>4. SizesFit(Sizes, Fixed) /\ {} \subseteq Fixed /\ {} \subseteq {}
    BY <1>3, SizesWhileExtending
  <2> DEFINE bases == <<NoParams>>
  <2> HIDE DEF bases
  <2>5. bases \in Seq(Points({})) /\ bases # <<>> /\ Len(bases) = Product(Sizes, {} \ {}) /\ (ListsDistinct => Distinct(bases))
    BY <2>1, <2>2, <2>3 DEF bases
  <2>6. Producing(Sizes, bases, <<>>, {}, {}, {}, Fixed, ListsDistinct)
    BY <2>4, <2>5, ProducingFresh
  <2> QED
    BY <2>6 DEF bases
<1>8. DOMAIN cells'[1] = {}
  BY <1>1 DEF NoParams
<1>9. CrossInv'
  BY <1>1, <1>2, <1>5, <1>7, <1>8 DEF CrossInv, NothingDrawn
<1>10. DrawInv' /\ VariantsInv'
  BY <1>1 DEF DrawInv, VariantsInv, Visiting
<1> QED
  BY <1>4, <1>6, <1>9, <1>10 DEF ExpandInv

LEMMA CrossKeeps == ASSUME ExpandInv, Cross PROVE ExpandInv'
<1> DEFINE D == DOMAIN cells[1]
           n == NextAxis(D, Fixed)
           list == values[n].list
           longer == grown \o Extend(cells[1], n, list)
<1>1. /\ step = "cross" /\ placeholders' = placeholders /\ maxVariants' = maxVariants /\ axes' = axes
      /\ total' = total /\ planned' = planned /\ values' = values /\ variants' = variants
      /\ combos' = combos /\ seen' = seen /\ attempts' = attempts
  BY DEF Cross
<1>2. /\ variants = <<>> /\ combos = <<>> /\ seen = {}
      /\ Producing(Sizes, cells, grown, {}, {}, D, Fixed, ListsDistinct)
  BY <1>1 DEF ExpandInv, CrossInv
<1>3. cells \in Seq(Points(D)) /\ cells # <<>> /\ D \subseteq Fixed
  BY <1>2 DEF Producing
<1>4. /\ Sizes' = Sizes /\ Fixed' = Fixed /\ Random' = Random /\ ListsDistinct' = ListsDistinct
  BY <1>1, AxesSame
<1>5. step \in Extending /\ SizesFit(Sizes, Fixed)
  BY <1>1, SizesWhileExtending DEF Extending
<1>6. /\ DOMAIN values = Fixed /\ \A x \in Fixed : ListSoFar(values[x].list, values[x].closed, axes[x])
      /\ \A x \in Fixed : values[x].closed
  BY <1>1, <1>5 DEF ExpandInv, ValuesInv
<1>7. CASE Uncrossed = {}
  <2>1. step' = "cell" /\ cells' = cells /\ grown' = grown
    BY <1>7 DEF Cross
  <2>2. D = Fixed
    BY <1>3, <1>7 DEF Uncrossed
  <2>3. grown = <<>> /\ Len(cells) = Product(Sizes, Fixed) /\ (ListsDistinct => Distinct(cells))
    <3>1. Fixed \ {} = Fixed
      OBVIOUS
    <3> QED
      BY <1>2, <2>2, <3>1 DEF Producing
  <2>4. ExpandTypes' /\ PlanInv'
    BY <1>1, <1>5, <2>1, StaysAccepted DEF Extending
  <2>5. ValuesInv'
    BY <1>1, <1>4, <1>6, <2>1 DEF ValuesInv, Extending
  <2>6. VariantsInv'
    <3>1. Len(variants) + Len(cells) * Product(Sizes, Random) = total
      <4>1. Len(<<>>) = 0
        OBVIOUS
      <4>2. total \in Nat /\ total = Product(Sizes, Fixed) * Product(Sizes, Random)
        BY <1>5, TotalSplits
      <4> QED
        BY <1>2, <2>3, <4>1, <4>2
    <3>2. cells \in Seq(Points(Fixed)) /\ variants \in Seq(Points(DOMAIN axes)) /\ DOMAIN variants = {}
      BY <1>2, <1>3, <2>2
    <3>3. Distinct(variants)
      BY <3>2 DEF Distinct
    <3>4. /\ cells' \in Seq(Points(Fixed')) /\ variants' \in Seq(Points(DOMAIN axes')) /\ DOMAIN variants' = {}
          /\ Len(variants') + Len(cells') * Product(Sizes', Random') = total'
          /\ ListsDistinct' => Distinct(cells)' /\ Distinct(variants)'
      BY <1>1, <1>4, <2>1, <2>3, <3>1, <3>2, <3>3 DEF Distinct
    <3> QED
      BY <1>1, <1>2, <2>1, <2>3, <3>4 DEF VariantsInv, Visiting, Visited
  <2>7. CrossInv' /\ DrawInv'
    BY <2>1 DEF CrossInv, DrawInv
  <2> QED
    BY <2>4, <2>5, <2>6, <2>7 DEF ExpandInv
<1>8. CASE Uncrossed # {}
  <2>1. D # Fixed
    BY <1>8 DEF Uncrossed
  <2>2. n \in Fixed \ D
    BY <1>3, <1>5, <2>1, NextAxisIsNext DEF SizesFit
  <2>3. Head(cells) = cells[1] /\ cells[1] \in Points(D)
    BY <1>3, HeadIsFirst
  <2>4. step' = step /\ cells' = Bases(cells, longer) /\ grown' = Grown(cells, longer)
    BY <1>8, <2>3 DEF Cross, NextAxis, Uncrossed
  <2>5. list \in Seq(Int) /\ Len(list) = Sizes[n] /\ (ListsDistinct => Distinct(list))
    <3> HIDE DEF n
    <3> QED
      BY <1>5, <1>6, <2>2, ClosedList
  <2>6. grown \in Seq(Points(D \cup {n}))
    BY <1>2, <2>1 DEF Producing, Made
  <2>7. /\ longer \in Seq(Points(D \cup {n})) /\ Extension(longer, grown, cells[1], n, D, list)
    <3> HIDE DEF list, n, D
    <3> QED
      BY <2>2, <2>3, <2>5, <2>6, LengthenedExtends
  <2>8. PICK all : all = {list[i] : i \in 1 .. Len(list)}
    OBVIOUS
  <2>9. Fresh(list, {}, all)
    <3> HIDE DEF list
    <3>1. DOMAIN list = 1 .. Len(list)
      BY <2>5, LenProperties
    <3> QED
      BY <2>8, <3>1 DEF Fresh
  <2>10. Len(list) + Cardinality({}) = Sizes[n]
    <3> HIDE DEF list
    <3>1. Cardinality({}) = 0 /\ Len(list) \in Nat
      BY <2>5, FS_EmptySet, LenProperties
    <3> QED
      BY <2>5, <3>1
  <2>11. /\ Len(cells) = 1 => Producing(Sizes, longer, <<>>, {}, {}, D \cup {n}, Fixed, ListsDistinct)
         /\ Len(cells) # 1 => Producing(Sizes, Tail(cells), longer, {}, {}, D, Fixed, ListsDistinct)
    <3> HIDE DEF list, longer, D
    <3> QED
      BY <1>2, <1>5, <2>1, <2>5, <2>7, <2>9, <2>10, ProducingAdvances
  <2> HIDE DEF D, n, list, longer
  <2>12. Producing(Sizes, cells', grown', {}, {}, DOMAIN cells'[1], Fixed, ListsDistinct)
    <3>1. CASE Len(cells) = 1
      <4>1. cells' = longer /\ grown' = <<>>
        BY <2>4, <3>1 DEF Bases, Grown
      <4>2. DOMAIN longer[1] = D \cup {n}
        <5>1. longer \in Seq(Points(D \cup {n})) /\ longer # <<>>
          BY <2>11, <3>1 DEF Producing
        <5> QED
          BY <5>1, FirstDomain
      <4> QED
        BY <2>11, <3>1, <4>1, <4>2
    <3>2. CASE Len(cells) # 1
      <4>1. cells' = Tail(cells) /\ grown' = longer
        BY <2>4, <3>2 DEF Bases, Grown
      <4>2. DOMAIN Tail(cells)[1] = D
        <5>1. Tail(cells) \in Seq(Points(D)) /\ Tail(cells) # <<>>
          BY <2>11, <3>2 DEF Producing
        <5> QED
          BY <5>1, FirstDomain
      <4> QED
        BY <2>11, <3>2, <4>1, <4>2
    <3> QED
      BY <3>1, <3>2
  <2>13. CrossInv'
    BY <1>1, <1>2, <1>4, <2>12 DEF CrossInv
  <2>14. ExpandTypes' /\ PlanInv'
    BY <1>1, <1>5, <2>4, StaysAccepted DEF Extending
  <2>15. ValuesInv'
    BY <1>1, <1>4, <1>6, <2>4 DEF ValuesInv, Extending
  <2>16. DrawInv' /\ VariantsInv'
    BY <1>1, <2>4 DEF DrawInv, VariantsInv, Visiting
  <2> QED
    BY <2>13, <2>14, <2>15, <2>16 DEF ExpandInv
<1> QED
  BY <1>7, <1>8

\* The visited cells stay.
LEMMA VisitedSame ==
  ASSUME Visited, axes' = axes, variants' = variants, cells' = cells, total' = total
  PROVE  Visited'
<1>1. Sizes' = Sizes /\ Fixed' = Fixed /\ Random' = Random /\ ListsDistinct' = ListsDistinct
  BY AxesSame
<1>2. ASSUME NEW y PROVE SameCell(y)' = SameCell(y)
  BY <1>1 DEF SameCell
<1> QED
  BY <1>1, <1>2 DEF Visited, Distinct, Extends

\* The lists of values stay.
LEMMA ValuesSame ==
  ASSUME ValuesInv, axes' = axes, values' = values, step \in Extending \ {"values"}, step' \in (Extending \ {"values"}) \cup {"error"}
  PROVE  ValuesInv'
<1>1. Fixed' = Fixed
  BY AxesSame
<1> QED
  BY <1>1 DEF ValuesInv, Extending

LEMMA NextCellKeeps == ASSUME ExpandInv, NextCell PROVE ExpandInv'
<1>1. /\ step = "cell" /\ placeholders' = placeholders /\ maxVariants' = maxVariants /\ axes' = axes
      /\ total' = total /\ planned' = planned /\ values' = values /\ cells' = cells /\ variants' = variants
      /\ grown' = grown /\ seen' = seen /\ attempts' = attempts
  BY DEF NextCell
<1>2. combos = <<>> /\ grown = <<>> /\ seen = {} /\ Visited
  BY <1>1 DEF ExpandInv, VariantsInv, Visiting
<1>3. /\ Sizes' = Sizes /\ Fixed' = Fixed
  BY <1>1, AxesSame
<1>4. step' \in {"draw", "done"} /\ step \in Extending
  BY <1>1 DEF NextCell, Extending
<1>5. ExpandTypes' /\ PlanInv'
  BY <1>1, <1>4, StaysAccepted DEF Extending
<1>6. ValuesInv'
  BY <1>1, <1>4, ValuesSame DEF ExpandInv, Extending
<1>7. Visited'
  BY <1>1, <1>2, VisitedSame
<1>8. CASE cells = <<>>
  <2>1. step' = "done" /\ combos' = combos
    BY <1>8 DEF NextCell
  <2>2. VariantsInv'
    BY <1>1, <1>2, <1>7, <1>8, <2>1 DEF VariantsInv
  <2>3. CrossInv' /\ DrawInv'
    BY <2>1 DEF CrossInv, DrawInv
  <2> QED
    BY <1>5, <1>6, <2>2, <2>3 DEF ExpandInv
<1>9. CASE cells # <<>>
  <2>1. step' = "draw" /\ combos' = <<Head(cells)>>
    BY <1>9 DEF NextCell
  <2>2. Head(cells) = cells[1] /\ cells[1] \in Points(Fixed)
    BY <1>2, <1>9, HeadIsFirst DEF Visited
  <2> DEFINE bases == <<cells[1]>>
  <2>3. bases \in Seq(Points(Fixed)) /\ bases # <<>> /\ Len(bases) = 1 /\ bases[1] = cells[1] /\ DOMAIN bases = {1}
    <3>1. 1 .. 1 = {1}
      OBVIOUS
    <3> QED
      BY <2>2, <3>1
  <2>4. Product(Sizes, Fixed \ Fixed) = 1
    <3>1. Fixed \ Fixed = {}
      OBVIOUS
    <3> QED
      BY <3>1, ProductEmpty
  <2>5. combos' = bases
    BY <2>1, <2>2
  <2> HIDE DEF bases
  <2>6. Distinct(bases)
    BY <2>3 DEF Distinct
  <2>7. SizesFit(Sizes, DOMAIN axes) /\ Fixed \subseteq DOMAIN axes /\ Fixed \subseteq Fixed
    BY <1>4, SizesWhileExtending, SplitAxes
  <2>8. Producing(Sizes, bases, <<>>, {}, Fixed, Fixed, DOMAIN axes, TRUE)
    BY <2>3, <2>4, <2>6, <2>7, ProducingFresh
  <2>9. DOMAIN bases[1] = Fixed
    BY <2>3, FirstDomain
  <2>10. \A i \in DOMAIN combos' : Extends(combos'[i], cells'[1])
    BY <1>1, <2>3, <2>5 DEF Extends
  <2>11. DOMAIN grown' = {}
    BY <1>1, <1>2
  <2>12. DrawInv'
    <3>1. Producing(Sizes', combos', grown', seen', Fixed', DOMAIN combos'[1], DOMAIN axes', TRUE)
      BY <1>1, <1>2, <1>3, <2>5, <2>8, <2>9
    <3> QED
      BY <1>1, <1>9, <2>10, <2>11, <3>1 DEF DrawInv, Extends
  <2>13. CrossInv' /\ VariantsInv'
    BY <1>7, <2>1 DEF CrossInv, VariantsInv
  <2> QED
    BY <1>5, <1>6, <2>12, <2>13 DEF ExpandInv
<1> QED
  BY <1>8, <1>9

LEMMA DrawFailsKeeps == ASSUME ExpandInv, DrawFails PROVE ExpandInv'
<1>1. /\ step = "draw" /\ step' = "error" /\ placeholders' = placeholders /\ maxVariants' = maxVariants /\ axes' = axes
      /\ total' = total /\ planned' = planned /\ values' = values /\ cells' = cells /\ variants' = variants
      /\ combos' = combos /\ grown' = grown /\ seen' = seen /\ attempts' = attempts
  BY DEF DrawFails, drawing
<1>2. LoopsBounded
  BY <1>1, LoopsWhileExtending DEF Extending
<1>3. LoopsBounded'
  BY <1>1, <1>2 DEF LoopsBounded, TrueSize, LengthOf, Strings
<1>4. ExpandTypes' /\ PlanInv'
  BY <1>1, <1>3, StaysAccepted DEF Extending
<1>5. ValuesInv' /\ CrossInv' /\ DrawInv' /\ VariantsInv'
  BY <1>1 DEF ValuesInv, CrossInv, DrawInv, VariantsInv, Extending, Visiting
<1> QED
  BY <1>4, <1>5 DEF ExpandInv

\* What extends a base with a parameter more extends what the base extends.
LEMMA ExtensionExtends ==
  ASSUME NEW more, NEW longer, NEW base, NEW n, NEW D, NEW list, Extension(more, longer, base, n, D, list),
         NEW c, DOMAIN c \subseteq D, Extends(base, c), \A i \in DOMAIN longer : Extends(longer[i], c)
  PROVE  \A i \in DOMAIN more : Extends(more[i], c)
<1> DEFINE L == Len(longer)
           K == Len(list)
<1>1. L \in Nat /\ K \in Nat /\ DOMAIN longer = 1 .. L /\ DOMAIN more = 1 .. L + K
  BY DEF Extension
<1>2. /\ \A i \in 1 .. L : more[i] = longer[i]
      /\ \A i \in 1 .. K : \A x \in D : more[L + i][x] = base[x]
  BY DEF Extension
<1> HIDE DEF L, K
<1>3. ASSUME NEW i \in 1 .. L + K PROVE Extends(more[i], c)
  <2>1. CASE i \in 1 .. L
    BY <1>1, <1>2, <2>1
  <2>2. CASE i \notin 1 .. L
    <3>1. i - L \in 1 .. K /\ i = L + (i - L)
      BY <1>1, <2>2
    <3>2. PICK k \in 1 .. K : i = L + k
      BY <3>1
    <3>3. \A x \in D : more[i][x] = base[x]
      BY <1>2, <3>2
    <3> QED
      BY <3>3 DEF Extends
  <2> QED
    BY <2>1, <2>2
<1> QED
  BY <1>1, <1>3

\* The bases of the next turn extend what these bases and what grew from them extend.
LEMMA NextExtend ==
  ASSUME NEW T, NEW bases \in Seq(T), bases # <<>>, NEW longer, NEW c,
         \A i \in DOMAIN bases : Extends(bases[i], c), \A i \in DOMAIN longer : Extends(longer[i], c)
  PROVE  /\ \A i \in DOMAIN Bases(bases, longer) : Extends(Bases(bases, longer)[i], c)
         /\ \A i \in DOMAIN Grown(bases, longer) : Extends(Grown(bases, longer)[i], c)
<1>1. CASE Len(bases) = 1
  <2>1. Bases(bases, longer) = longer /\ Grown(bases, longer) = <<>> /\ DOMAIN <<>> = {}
    BY <1>1 DEF Bases, Grown
  <2> QED
    BY <2>1
<1>2. CASE Len(bases) # 1
  <2>1. Bases(bases, longer) = Tail(bases) /\ Grown(bases, longer) = longer
    BY <1>2 DEF Bases, Grown
  <2>2. /\ Tail(bases) \in Seq(T) /\ Len(Tail(bases)) = Len(bases) - 1
        /\ \A i \in 1 .. Len(Tail(bases)) : Tail(bases)[i] = bases[i + 1]
    BY HeadTailProperties
  <2>3. Len(bases) \in Nat /\ DOMAIN bases = 1 .. Len(bases) /\ DOMAIN Tail(bases) = 1 .. Len(Tail(bases))
    BY <2>2, LenProperties
  <2>4. ASSUME NEW i \in DOMAIN Tail(bases) PROVE Extends(Tail(bases)[i], c)
    <3>1. i + 1 \in DOMAIN bases /\ Tail(bases)[i] = bases[i + 1]
      BY <2>2, <2>3
    <3> QED
      BY <3>1
  <2> QED
    BY <2>1, <2>4
<1> QED
  BY <1>1, <1>2

LEMMA DrawKeeps == ASSUME ExpandInv, Draw PROVE ExpandInv'
<1> DEFINE D == DOMAIN combos[1]
           n == NextAxis(D, DOMAIN axes)
           c == cells[1]
<1>1. /\ step = "draw" /\ Undrawn # {} /\ placeholders' = placeholders /\ maxVariants' = maxVariants /\ axes' = axes
      /\ total' = total /\ planned' = planned /\ values' = values /\ cells' = cells /\ variants' = variants
  BY DEF Draw
<1>2. step \in Extending /\ SizesFit(Sizes, DOMAIN axes)
  BY <1>1, SizesWhileExtending DEF Extending
<1>3. /\ cells # <<>> /\ Producing(Sizes, combos, grown, seen, Fixed, D, DOMAIN axes, TRUE)
      /\ \A i \in DOMAIN combos : Extends(combos[i], c)
      /\ \A i \in DOMAIN grown : Extends(grown[i], c)
  BY <1>1 DEF ExpandInv, DrawInv
<1>4. /\ combos \in Seq(Points(D)) /\ combos # <<>> /\ Fixed \subseteq D /\ D \subseteq DOMAIN axes
  BY <1>3 DEF Producing
<1>5. Undrawn = DOMAIN axes \ D /\ D # DOMAIN axes
  <2>1. DOMAIN axes \ D = Random \ D
    BY <1>4, SplitAxes
  <2> QED
    BY <1>1, <2>1 DEF Undrawn
<1>6. Axis = n
  BY <1>5 DEF Axis, NextAxis
<1>7. n \in DOMAIN axes \ D /\ n \in Random
  <2>1. n \in DOMAIN axes \ D
    BY <1>2, <1>4, <1>5, NextAxisIsNext DEF SizesFit
  <2> HIDE DEF n, D
  <2> QED
    BY <1>4, <2>1, SplitAxes
<1> HIDE DEF n
<1>8. axes[n] \in Mapped /\ Sizes[n] = axes[n].count
  <2>1. axes[n] \in Mapped /\ Sizes[n] = TrueSize(axes[n]) /\ Sizes[n] >= 1 /\ axes[n].kind = "random"
    BY <1>2, <1>7, WhileExtending DEF Random
  <2> QED
    BY <2>1 DEF TrueSize
<1>9. Visited /\ cells \in Seq(Points(Fixed)) /\ c \in Points(Fixed) /\ DOMAIN c = Fixed
  <2>1. Visited
    BY <1>1 DEF ExpandInv, VariantsInv, Visiting
  <2>2. cells \in Seq(Points(Fixed))
    BY <2>1 DEF Visited
  <2>3. c \in Points(Fixed)
    BY <1>3, <2>2, HeadIsFirst
  <2> QED
    BY <2>1, <2>2, <2>3 DEF Points
<1>10. Head(combos) = combos[1] /\ combos[1] \in Points(D) /\ 1 \in DOMAIN combos
  BY <1>4, HeadIsFirst
<1>11. PICK v \in Space(axes[n]) :
         IF Duplicate(v)
         THEN /\ attempts' = attempts + 1
              /\ step' = IF attempts' = AttemptsPerValue * axes[n].count THEN "error" ELSE "draw"
              /\ UNCHANGED <<combos, grown, seen>>
         ELSE LET longer == Append(grown, With(combos[1], n, v))
                  full   == Cardinality(seen) + 1 = Sizes[n]
              IN /\ attempts' = 0 /\ seen' = IF full THEN {} ELSE seen \cup {v}
                 /\ combos' = IF full THEN Bases(combos, longer) ELSE combos
                 /\ grown' = IF full THEN Grown(combos, longer) ELSE longer
                 /\ step' = step
  BY <1>6, <1>8, <1>10 DEF Draw
<1>12. v \in Int
  <2>1. LengthOf(axes[n]) \in Nat
    BY <1>8, ExpansionAssumption, GoIntAssumption DEF Mapped, LengthOf
  <2>2. Strings(LengthOf(axes[n])) \in Nat
    BY <2>1, StringsNext
  <2> QED
    BY <2>2 DEF Space
<1>13. Visited'
  BY <1>1, <1>9, VisitedSame
<1>14. step' \in {"draw", "error"}
  BY <1>1, <1>11
<1>15. ValuesInv'
  BY <1>1, <1>14, ValuesSame DEF ExpandInv, Extending
<1>16. /\ Sizes' = Sizes /\ Fixed' = Fixed
  BY <1>1, AxesSame
<1>17. CASE Duplicate(v)
  <2>1. combos' = combos /\ grown' = grown /\ seen' = seen
    BY <1>11, <1>17
  <2>2. LoopsBounded
    BY <1>2, LoopsWhileExtending
  <2>3. LoopsBounded'
    BY <1>1, <2>1, <2>2 DEF LoopsBounded, TrueSize, LengthOf, Strings
  <2>4. ExpandTypes' /\ PlanInv'
    BY <1>1, <1>2, <1>14, <2>3, StaysAccepted DEF Extending
  <2>5. DrawInv'
    BY <1>1, <1>3, <1>16, <2>1 DEF DrawInv, Extends
  <2>6. CrossInv' /\ VariantsInv'
    BY <1>13, <1>14 DEF CrossInv, VariantsInv, Visiting
  <2> QED
    BY <1>15, <2>4, <2>5, <2>6 DEF ExpandInv
<1>18. CASE ~Duplicate(v)
  <2> DEFINE longer == Append(grown, With(combos[1], n, v))
             full == Cardinality(seen) + 1 = Sizes[n]
             list == <<v>>
  <2>1. /\ step' = "draw" /\ seen' = IF full THEN {} ELSE seen \cup {v}
        /\ combos' = IF full THEN Bases(combos, longer) ELSE combos
        /\ grown' = IF full THEN Grown(combos, longer) ELSE longer
    BY <1>1, <1>11, <1>18
  <2>2. v \notin seen
    BY <1>18 DEF Duplicate
  <2>3. grown \in Seq(Points(D \cup {n})) /\ IsFiniteSet(seen)
    BY <1>3, <1>5 DEF Producing, Made, n
  <2>4. longer \in Seq(Points(D \cup {n})) /\ Extension(longer, grown, combos[1], n, D, list)
    <3> HIDE DEF D
    <3> QED
      BY <1>7, <1>10, <1>12, <2>3, AppendExtends
  <2>5. \A i \in DOMAIN longer : Extends(longer[i], c)
    <3> HIDE DEF D, longer, list
    <3> QED
      BY <1>3, <1>4, <1>9, <1>10, <2>4, ExtensionExtends
  <2>6. ExpandTypes' /\ PlanInv'
    BY <1>1, <1>2, <2>1, StaysAccepted DEF Extending
  <2>7. /\ \A i \in DOMAIN combos' : Extends(combos'[i], c)
        /\ \A i \in DOMAIN grown' : Extends(grown'[i], c)
    <3>1. CASE full
      <4> HIDE DEF D, longer, full, c
      <4>1. /\ \A i \in DOMAIN Bases(combos, longer) : Extends(Bases(combos, longer)[i], c)
            /\ \A i \in DOMAIN Grown(combos, longer) : Extends(Grown(combos, longer)[i], c)
        BY <1>3, <1>4, <2>5, NextExtend
      <4> QED
        BY <2>1, <3>1, <4>1
    <3>2. CASE ~full
      BY <1>3, <2>1, <2>5, <3>2
    <3> QED
      BY <3>1, <3>2
  <2>8. Producing(Sizes, combos', grown', seen', Fixed, DOMAIN combos'[1], DOMAIN axes, TRUE)
    <3>1. CASE ~full
      <4>1. combos' = combos /\ grown' = longer /\ seen' = seen \cup {v} /\ DOMAIN combos'[1] = D
        BY <2>1, <3>1
      <4>2. Producing(Sizes, combos, longer, seen \cup {v}, Fixed, D, DOMAIN axes, TRUE)
        <5> HIDE DEF D
        <5> QED
          BY <1>2, <1>3, <1>5, <1>12, <2>2, <3>1, ProducingDraws DEF n
      <4> QED
        BY <4>1, <4>2
    <3>2. CASE full
      <4>1. Distinct(list) /\ Fresh(list, seen, seen \cup {v}) /\ Len(list) = 1
        BY <2>2 DEF Distinct, Fresh
      <4>2. Len(list) + Cardinality(seen) = Sizes[n]
        <5>1. Cardinality(seen) \in Nat
          BY <2>3, FS_CardinalityType
        <5> QED
          BY <3>2, <4>1, <5>1
      <4>3. /\ Len(combos) = 1 => Producing(Sizes, longer, <<>>, {}, Fixed, D \cup {n}, DOMAIN axes, TRUE)
            /\ Len(combos) # 1 => Producing(Sizes, Tail(combos), longer, {}, Fixed, D, DOMAIN axes, TRUE)
        <5> HIDE DEF D, longer, list, full
        <5> QED
          BY <1>2, <1>3, <1>5, <2>4, <4>1, <4>2, ProducingAdvances DEF n
      <4>4. seen' = {} /\ combos' = Bases(combos, longer) /\ grown' = Grown(combos, longer)
        BY <2>1, <3>2
      <4> HIDE DEF D, longer, list, full
      <4>5. CASE Len(combos) = 1
        <5>1. combos' = longer /\ grown' = <<>>
          BY <4>4, <4>5 DEF Bases, Grown
        <5>2. DOMAIN longer[1] = D \cup {n}
          <6>1. longer \in Seq(Points(D \cup {n})) /\ longer # <<>>
            BY <4>3, <4>5 DEF Producing
          <6> QED
            BY <6>1, FirstDomain
        <5> QED
          BY <4>3, <4>4, <4>5, <5>1, <5>2
      <4>6. CASE Len(combos) # 1
        <5>1. combos' = Tail(combos) /\ grown' = longer
          BY <4>4, <4>6 DEF Bases, Grown
        <5>2. DOMAIN Tail(combos)[1] = D
          <6>1. Tail(combos) \in Seq(Points(D)) /\ Tail(combos) # <<>>
            BY <4>3, <4>6 DEF Producing
          <6> QED
            BY <6>1, FirstDomain
        <5> QED
          BY <4>3, <4>4, <4>6, <5>1, <5>2
      <4> QED
        BY <4>5, <4>6
    <3> QED
      BY <3>1, <3>2
  <2>9. DrawInv'
    <3>1. cells' # <<>> /\ cells'[1] = c
      BY <1>1, <1>3
    <3>2. Producing(Sizes', combos', grown', seen', Fixed', DOMAIN combos'[1], DOMAIN axes', TRUE)
      BY <1>1, <1>16, <2>8
    <3> QED
      BY <2>7, <3>1, <3>2 DEF DrawInv, Extends
  <2>10. CrossInv' /\ VariantsInv'
    BY <1>13, <2>1 DEF CrossInv, VariantsInv, Visiting
  <2> QED
    BY <1>15, <2>6, <2>9, <2>10 DEF ExpandInv
<1> QED
  BY <1>17, <1>18

\* The points of a sequence that agree with one of them on F.
AlikeIn(s, F, x) == {y \in DOMAIN s : \A n \in F : s[y][n] = s[x][n]}

\* The variants of a cell are added to those of other cells.
LEMMA JoinVariants ==
  ASSUME NEW A, NEW F, F \subseteq A, NEW vs \in Seq(Points(A)), NEW cs \in Seq(Points(A)), NEW cell \in Points(F),
         Distinct(vs), Distinct(cs),
         \A i \in DOMAIN cs : Extends(cs[i], cell),
         \A y \in DOMAIN vs : ~Extends(vs[y], cell),
         NEW r, Len(cs) = r, \A y \in DOMAIN vs : Cardinality(AlikeIn(vs, F, y)) = r
  PROVE  /\ Distinct(vs \o cs)
         /\ \A y \in DOMAIN (vs \o cs) : Cardinality(AlikeIn(vs \o cs, F, y)) = r
<1> DEFINE both == vs \o cs
           L == Len(vs)
           K == Len(cs)
<1>1. L \in Nat /\ K \in Nat /\ DOMAIN vs = 1 .. L /\ DOMAIN cs = 1 .. K
  BY LenProperties
<1>2. both \in Seq(Points(A)) /\ Len(both) = L + K
  BY ConcatProperties
<1>3. \A i \in 1 .. L + K : both[i] = IF i <= L THEN vs[i] ELSE cs[i - L]
  BY ConcatProperties
<1> HIDE DEF both
<1>4. DOMAIN both = 1 .. L + K
  BY <1>2, LenProperties
<1> HIDE DEF L, K
<1>5. \A i \in 1 .. L : i \in 1 .. L + K /\ both[i] = vs[i]
  BY <1>1, <1>3
<1>6. \A k \in 1 .. K : L + k \in 1 .. L + K /\ both[L + k] = cs[k]
  <2>1. ASSUME NEW k \in 1 .. K PROVE L + k \in 1 .. L + K /\ both[L + k] = cs[k]
    <3>1. L + k \in 1 .. L + K /\ ~(L + k <= L) /\ (L + k) - L = k
      BY <1>1
    <3> QED
      BY <1>3, <3>1
  <2> QED
    BY <2>1
<1>7. ASSUME NEW i \in 1 .. L + K, i \notin 1 .. L PROVE \E k \in 1 .. K : i = L + k
  <2>1. i - L \in 1 .. K /\ i = L + (i - L)
    BY <1>1, <1>7
  <2> QED
    BY <2>1
<1>8. DOMAIN cell = F
  BY DEF Points
<1>9. ASSUME NEW y \in 1 .. L PROVE \E n \in F : both[y][n] # cell[n]
  <2>1. ~Extends(vs[y], cell) /\ both[y] = vs[y]
    BY <1>1, <1>5
  <2> QED
    BY <1>8, <2>1 DEF Extends
<1>10. ASSUME NEW k \in 1 .. K PROVE \A n \in F : both[L + k][n] = cell[n]
  <2>1. Extends(cs[k], cell) /\ both[L + k] = cs[k]
    BY <1>1, <1>6
  <2> QED
    BY <1>8, <2>1 DEF Extends
<1>11. Distinct(both)
  <2>1. ASSUME NEW i \in 1 .. L + K, NEW j \in 1 .. L + K, both[i] = both[j] PROVE i = j
    <3>1. CASE i \in 1 .. L /\ j \in 1 .. L
      <4>1. vs[i] = vs[j]
        BY <1>5, <2>1, <3>1
      <4> QED
        BY <1>1, <3>1, <4>1 DEF Distinct
    <3>2. CASE i \in 1 .. L /\ j \notin 1 .. L
      <4>1. PICK k \in 1 .. K : j = L + k
        BY <1>7, <3>2
      <4> QED
        BY <1>9, <1>10, <2>1, <3>2, <4>1
    <3>3. CASE i \notin 1 .. L /\ j \in 1 .. L
      <4>1. PICK k \in 1 .. K : i = L + k
        BY <1>7, <3>3
      <4> QED
        BY <1>9, <1>10, <2>1, <3>3, <4>1
    <3>4. CASE i \notin 1 .. L /\ j \notin 1 .. L
      <4>1. PICK k \in 1 .. K : i = L + k
        BY <1>7, <3>4
      <4>2. PICK m \in 1 .. K : j = L + m
        BY <1>7, <3>4
      <4>3. cs[k] = cs[m]
        BY <1>6, <2>1, <4>1, <4>2
      <4> QED
        BY <1>1, <4>1, <4>2, <4>3 DEF Distinct
    <3> QED
      BY <3>1, <3>2, <3>3, <3>4
  <2> QED
    BY <1>4, <2>1 DEF Distinct
<1>12. ASSUME NEW y \in 1 .. L PROVE Cardinality(AlikeIn(both, F, y)) = r
  <2>1. PICK n \in F : both[y][n] # cell[n]
    BY <1>9
  <2>2. ASSUME NEW z \in 1 .. L + K, both[z][n] = both[y][n] PROVE z \in 1 .. L
    BY <1>7, <1>10, <2>1, <2>2
  <2>3. AlikeIn(both, F, y) = AlikeIn(vs, F, y)
    BY <1>1, <1>4, <1>5, <2>2 DEF AlikeIn
  <2> QED
    BY <1>1, <2>3
<1>13. ASSUME NEW y \in 1 .. L + K, y \notin 1 .. L PROVE Cardinality(AlikeIn(both, F, y)) = r
  <2>1. \A n \in F : both[y][n] = cell[n]
    BY <1>7, <1>10, <1>13
  <2>2. ASSUME NEW z \in 1 .. L PROVE z \notin AlikeIn(both, F, y)
    <3>1. PICK n \in F : both[z][n] # cell[n]
      BY <1>9
    <3> QED
      BY <2>1, <3>1 DEF AlikeIn
  <2>3. ASSUME NEW z \in 1 .. L + K, z \notin 1 .. L PROVE z \in AlikeIn(both, F, y)
    <3>1. \A n \in F : both[z][n] = cell[n]
      BY <1>7, <1>10, <2>3
    <3> QED
      BY <1>4, <2>1, <3>1 DEF AlikeIn
  <2>4. AlikeIn(both, F, y) = {z \in 1 .. L + K : z \notin 1 .. L}
    BY <1>4, <2>2, <2>3 DEF AlikeIn
  <2>5. {z \in 1 .. L + K : z \notin 1 .. L} = (L + 1) .. (L + K)
    BY <1>1
  <2>6. Cardinality((L + 1) .. (L + K)) = K
    <3> DEFINE from == L + 1
               to == L + K
    <3>1. from \in Int /\ to \in Int /\ to - from + 1 = K /\ (from > to => K = 0)
      BY <1>1
    <3> HIDE DEF from, to
    <3>2. Cardinality(from .. to) = IF from > to THEN 0 ELSE to - from + 1
      BY <3>1, FS_Interval
    <3>3. Cardinality(from .. to) = K
      BY <3>1, <3>2
    <3> QED
      BY <3>3 DEF from, to
  <2>7. K = r
    BY DEF K
  <2> QED
    BY <2>4, <2>5, <2>6, <2>7
<1> QED
  BY <1>4, <1>11, <1>12, <1>13 DEF both

LEMMA AppendVariantsKeeps == ASSUME ExpandInv, AppendVariants PROVE ExpandInv'
<1> DEFINE R == Product(Sizes, Random)
           A == DOMAIN axes
           F == Fixed
<1>1. /\ step = "draw" /\ Undrawn = {} /\ placeholders' = placeholders /\ maxVariants' = maxVariants /\ axes' = axes
      /\ total' = total /\ planned' = planned /\ values' = values /\ combos' = <<>> /\ grown' = grown /\ seen' = seen
      /\ \/ step' = "cell" /\ variants' = variants \o combos /\ cells' = Tail(cells)
         \/ step' = "error" /\ variants' = variants /\ cells' = cells
  BY DEF AppendVariants
<1>2. step \in Extending /\ SizesFit(Sizes, DOMAIN axes)
  BY <1>1, SizesWhileExtending DEF Extending
<1>3. /\ cells # <<>> /\ Producing(Sizes, combos, grown, seen, Fixed, DOMAIN combos[1], DOMAIN axes, TRUE)
      /\ \A i \in DOMAIN combos : Extends(combos[i], cells[1])
  BY <1>1 DEF ExpandInv, DrawInv
<1>4. DOMAIN combos[1] = DOMAIN axes
  <2>1. Fixed \subseteq DOMAIN combos[1] /\ DOMAIN combos[1] \subseteq DOMAIN axes
    BY <1>3 DEF Producing
  <2> QED
    BY <1>1, <2>1, SplitAxes DEF Undrawn
<1>5. combos \in Seq(Points(A)) /\ grown = <<>> /\ seen = {} /\ Len(combos) = R /\ Distinct(combos)
  BY <1>3, <1>4, SplitAxes DEF Producing
<1>6. Visited
  BY <1>1 DEF ExpandInv, VariantsInv, Visiting
<1>7. ValuesInv'
  BY <1>1, ValuesSame DEF ExpandInv, Extending
<1>8. /\ Sizes' = Sizes /\ Fixed' = Fixed /\ Random' = Random /\ ListsDistinct' = ListsDistinct
  BY <1>1, AxesSame
<1>9. CASE step' = "error"
  <2>1. variants' = variants /\ cells' = cells
    BY <1>1, <1>9
  <2>2. LoopsBounded
    BY <1>2, LoopsWhileExtending
  <2>3. Len(combos) \in Nat /\ Len(<<>>) = 0 /\ Len(variants) \in Nat
    BY <1>5, <1>6, LenProperties DEF Visited
  <2>4. total \in Nat
    BY <1>2, TotalSplits
  <2>5. LoopsBounded'
    <3>1. \A n \in DOMAIN values' : Len(values'[n].list) <= TrueSize(axes[n])
      BY <1>1, <2>2 DEF LoopsBounded
    <3>2. total # Nil /\ total > 0 => Len(cells) <= total /\ Len(variants) + Len(combos) <= total /\ Len(variants) + Len(grown) <= total
      BY <2>2 DEF LoopsBounded
    <3>3. total' # Nil /\ total' > 0 =>
            Len(cells') <= total' /\ Len(variants') + Len(combos') <= total' /\ Len(variants') + Len(grown') <= total'
      BY <1>1, <2>1, <2>3, <2>4, <3>2
    <3> QED
      BY <1>1, <3>1, <3>3 DEF LoopsBounded, TrueSize, LengthOf, Strings
  <2>6. ExpandTypes' /\ PlanInv'
    BY <1>1, <1>2, <1>9, <2>5, StaysAccepted
  <2>7. CrossInv' /\ DrawInv' /\ VariantsInv'
    BY <1>9 DEF CrossInv, DrawInv, VariantsInv, Visiting
  <2> QED
    BY <1>7, <2>6, <2>7 DEF ExpandInv
<1>10. CASE step' # "error"
  <2>1. step' = "cell" /\ variants' = variants \o combos /\ cells' = Tail(cells)
    BY <1>1, <1>10
  <2>2. ExpandTypes' /\ PlanInv'
    BY <1>1, <1>2, <2>1, StaysAccepted DEF Extending
  <2>3. cells \in Seq(Points(F)) /\ variants \in Seq(Points(A)) /\ Len(variants) + Len(cells) * R = total
    BY <1>6 DEF Visited
  <2>4. F \subseteq A
    BY SplitAxes
  <2>5. cells[1] \in Points(F) /\ Len(cells) \in Nat /\ Len(cells) >= 1 /\ DOMAIN cells = 1 .. Len(cells)
    <3> HIDE DEF F
    <3> QED
      BY <1>3, <2>3, HeadIsFirst
  <2>6. R \in Nat /\ R >= 1
    BY <1>2, TotalSplits
  <2> HIDE DEF R, A, F
  <2>7. /\ cells' \in Seq(Points(F)) /\ Len(cells') = Len(cells) - 1
        /\ \A i \in 1 .. Len(cells') : cells'[i] = cells[i + 1]
    BY <1>3, <2>1, <2>3, HeadTailProperties
  <2>8. variants' \in Seq(Points(A)) /\ Len(variants') = Len(variants) + Len(combos)
    BY <1>5, <2>1, <2>3, ConcatProperties
  <2>9. Len(variants') + Len(cells') * R = total
    <3>1. (Len(cells) - 1) * R = Len(cells) * R - R /\ Len(cells) * R \in Nat
      BY <2>5, <2>6
    <3>2. Len(variants) \in Nat
      BY <2>3, LenProperties
    <3> QED
      BY <1>5, <2>3, <2>5, <2>6, <2>7, <2>8, <3>1, <3>2
  <2>10. DOMAIN cells' = 1 .. Len(cells') /\ \A j \in DOMAIN cells' : j + 1 \in DOMAIN cells /\ j + 1 # 1 /\ cells'[j] = cells[j + 1]
    <3>1. DOMAIN cells' = 1 .. Len(cells')
      BY <2>7, LenProperties
    <3> QED
      BY <2>5, <2>7, <3>1
  <2>11. ASSUME ListsDistinct
         PROVE  /\ Distinct(cells') /\ Distinct(variants')
                /\ \A y \in DOMAIN variants', j \in DOMAIN cells' : ~Extends(variants'[y], cells'[j])
                /\ \A y \in DOMAIN variants' : Cardinality(AlikeIn(variants', F, y)) = R
    <3>1. /\ Distinct(cells) /\ Distinct(variants)
          /\ \A y \in DOMAIN variants, j \in DOMAIN cells : ~Extends(variants[y], cells[j])
          /\ \A y \in DOMAIN variants : Cardinality(AlikeIn(variants, F, y)) = R
      BY <1>6, <2>11 DEF Visited, SameCell, AlikeIn, R, F
    <3>2. Distinct(cells')
      <4>1. ASSUME NEW i \in DOMAIN cells', NEW j \in DOMAIN cells', cells'[i] = cells'[j] PROVE i = j
        <5>1. i + 1 = j + 1
          BY <2>10, <3>1, <4>1 DEF Distinct
        <5> QED
          BY <2>10, <5>1
      <4> QED
        BY <4>1 DEF Distinct
    <3>3. \A y \in DOMAIN variants : ~Extends(variants[y], cells[1])
      BY <2>5, <3>1
    <3>4. Distinct(variants \o combos) /\ \A y \in DOMAIN (variants \o combos) : Cardinality(AlikeIn(variants \o combos, F, y)) = R
      <4>1. Distinct(variants \o combos)
        BY <1>3, <1>5, <2>3, <2>4, <2>5, <3>1, <3>3, JoinVariants
      <4>2. \A y \in DOMAIN (variants \o combos) : Cardinality(AlikeIn(variants \o combos, F, y)) = R
        BY <1>3, <1>5, <2>3, <2>4, <2>5, <3>1, <3>3, JoinVariants
      <4> QED
        BY <4>1, <4>2
    <3>5. Distinct(variants') /\ \A y \in DOMAIN variants' : Cardinality(AlikeIn(variants', F, y)) = R
      BY <2>1, <3>4
    <3>6. ASSUME NEW y \in DOMAIN variants', NEW j \in DOMAIN cells' PROVE ~Extends(variants'[y], cells'[j])
      <4>1. cells'[j] = cells[j + 1] /\ j + 1 \in DOMAIN cells /\ j + 1 # 1
        BY <2>10
      <4>2. Len(variants) \in Nat /\ Len(combos) \in Nat /\ DOMAIN variants = 1 .. Len(variants) /\ DOMAIN combos = 1 .. Len(combos)
            /\ DOMAIN variants' = 1 .. Len(variants) + Len(combos)
        BY <1>5, <2>3, <2>8, LenProperties
      <4>3. variants'[y] = IF y <= Len(variants) THEN variants[y] ELSE combos[y - Len(variants)]
        <5>1. \A i \in 1 .. Len(variants) + Len(combos) :
                (variants \o combos)[i] = IF i <= Len(variants) THEN variants[i] ELSE combos[i - Len(variants)]
          BY <1>5, <2>3, ConcatProperties
        <5> QED
          BY <2>1, <4>2, <5>1
      <4>4. CASE y <= Len(variants)
        <5>1. y \in DOMAIN variants
          BY <4>2, <4>4
        <5> QED
          BY <3>1, <4>1, <4>3, <4>4, <5>1
      <4>5. CASE ~(y <= Len(variants))
        <5>1. y - Len(variants) \in DOMAIN combos
          BY <4>2, <4>5
        <5>2. Extends(variants'[y], cells[1])
          BY <1>3, <4>3, <4>5, <5>1
        <5>3. SUFFICES ASSUME Extends(variants'[y], cells[j + 1]) PROVE FALSE
          BY <4>1
        <5>4. cells[j + 1] \in Points(F)
          BY <2>3, <2>5, <4>1
        <5>5. cells[j + 1] = cells[1]
          <6>1. cells[1] \in [F -> Int] /\ cells[j + 1] \in [F -> Int]
            BY <2>5, <5>4 DEF Points
          <6>2. \A x \in F : cells[1][x] = cells[j + 1][x]
            BY <5>2, <5>3, <6>1 DEF Extends
          <6> QED
            BY <6>1, <6>2
        <5> QED
          BY <2>5, <3>1, <4>1, <5>5 DEF Distinct
      <4> QED
        BY <4>4, <4>5
    <3> QED
      BY <3>2, <3>5, <3>6
  <2>12. Visited'
    <3>1. ASSUME NEW y PROVE SameCell(y)' = AlikeIn(variants', F, y)
      BY <1>8 DEF SameCell, AlikeIn, F
    <3>2. /\ cells' \in Seq(Points(Fixed')) /\ variants' \in Seq(Points(DOMAIN axes'))
          /\ Len(variants') + Len(cells') * Product(Sizes', Random') = total'
      BY <1>1, <1>8, <2>7, <2>8, <2>9 DEF R, A, F
    <3>3. ListsDistinct' =>
            /\ Distinct(cells)' /\ Distinct(variants)'
            /\ \A y \in DOMAIN variants', j \in DOMAIN cells' : ~Extends(variants'[y], cells'[j])
            /\ \A y \in DOMAIN variants' : Cardinality(SameCell(y)') = Product(Sizes', Random')
      BY <1>8, <2>11, <3>1 DEF R, Distinct
    <3> QED
      BY <3>2, <3>3 DEF Visited, Extends
  <2>13. VariantsInv'
    BY <1>1, <1>5, <2>1, <2>12 DEF VariantsInv
  <2>14. CrossInv' /\ DrawInv'
    BY <2>1 DEF CrossInv, DrawInv
  <2> QED
    BY <1>7, <2>2, <2>13, <2>14 DEF ExpandInv
<1> QED
  BY <1>9, <1>10

\* For every template, every set of axes and every limit: a run request becomes
\* exactly the variants its axes describe or it is refused, and no loop of
\* variation.Expand makes more than was planned, although the integers wrap.
THEOREM ExpansionExactHolds == ExpandSpec => []ExpansionExact
<1>1. ExpandInit => ExpandInv
  BY ExpandInitEstablishes
<1>2. ExpandInv /\ [Expand]_expansionVars => ExpandInv'
  <2>1. SUFFICES ASSUME ExpandInv, [Expand]_expansionVars PROVE ExpandInv'
    OBVIOUS
  <2>2. CASE MapAxes
    BY <2>1, <2>2, MapAxesKeeps
  <2>3. CASE MatchNames
    BY <2>1, <2>3, MatchNamesKeeps
  <2>4. CASE PlanAxis
    BY <2>1, <2>4, PlanAxisKeeps
  <2>5. CASE PlannedCount
    BY <2>1, <2>5, PlannedCountKeeps
  <2>6. CASE FixedAxisValue
    BY <2>1, <2>6, FixedAxisValueKeeps
  <2>7. CASE Cartesian
    BY <2>1, <2>7, CartesianKeeps
  <2>8. CASE Cross
    BY <2>1, <2>8, CrossKeeps
  <2>9. CASE NextCell
    BY <2>1, <2>9, NextCellKeeps
  <2>10. CASE Draw
    BY <2>1, <2>10, DrawKeeps
  <2>11. CASE DrawFails
    BY <2>1, <2>11, DrawFailsKeeps
  <2>12. CASE AppendVariants
    BY <2>1, <2>12, AppendVariantsKeeps
  <2>13. CASE UNCHANGED expansionVars
    <3>1. /\ step' = step /\ placeholders' = placeholders /\ maxVariants' = maxVariants /\ axes' = axes
          /\ total' = total /\ planned' = planned /\ values' = values /\ cells' = cells /\ variants' = variants
          /\ combos' = combos /\ grown' = grown /\ seen' = seen /\ attempts' = attempts
      BY <2>13 DEF expansionVars
    <3>2. Sizes' = Sizes /\ Fixed' = Fixed /\ ListsDistinct' = ListsDistinct
      BY <3>1, AxesSame
    <3>3. ExpandTypes' /\ ValuesInv' /\ CrossInv' /\ DrawInv'
      BY <2>1, <3>1, <3>2 DEF ExpandInv, ExpandTypes, ValuesInv, CrossInv, DrawInv, Extends
    <3>4. LoopsBounded => LoopsBounded'
      BY <3>1 DEF LoopsBounded, TrueSize, LengthOf, Strings
    <3>5. PlanInv'
      BY <2>1, <3>1, <3>2, <3>4 DEF ExpandInv, PlanInv, PlanAccepted, PlanRefused, Usable, TrueProduct
    <3>6. Visited => Visited'
      BY <3>1, VisitedSame
    <3>7. VariantsInv'
      BY <2>1, <3>1, <3>6 DEF ExpandInv, VariantsInv, NothingDrawn
    <3> QED
      BY <3>3, <3>5, <3>7 DEF ExpandInv
  <2> QED
    BY <2>1, <2>2, <2>3, <2>4, <2>5, <2>6, <2>7, <2>8, <2>9, <2>10, <2>11, <2>12, <2>13 DEF Expand
<1>3. ExpandInv => ExpansionExact
  BY InvImpliesExact
<1> QED
  BY <1>1, <1>2, <1>3, PTL DEF ExpandSpec
=============================================================================
