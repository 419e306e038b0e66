------------------------------ MODULE Requests ------------------------------
(***************************************************************************)
(* A create or edit request on its way from the body to the database and   *)
(* back: the body middleware, the checks of CreateSession, CreateRun and   *)
(* EditSession, the conversion to the columns of sampling_sessions and the *)
(* conversion of the stored row to a session and to the answer.            *)
(*                                                                         *)
(* An integer of the request is an int; a duration is an int that counts   *)
(* ticks, Second of them to a second; a column is MaxPersisted wide.       *)
(***************************************************************************)
EXTENDS GoInt, FiniteSets

CONSTANTS MaxPersisted,   \* maxPersistedInteger, the greatest int32
          Second,         \* ticks of a time.Duration in a second; a millisecond is one
          MaxProbes,      \* 255
          DefaultProbes,  \* [sticky |-> 3, pool |-> 8]
          DefaultDial,    \* configured default dial timeout
          MinDial,        \* 100 ms
          Bodies          \* requests that are sent

ASSUME RequestsAssumption ==
  /\ {MaxPersisted, Second, MaxProbes, MinDial} \subseteq Nat \ {0}
  /\ MaxPersisted * Second <= MaxInt      \* int64 nanoseconds hold every int32 of seconds
  /\ MaxProbes <= MaxPersisted
  /\ {DefaultDial, DefaultProbes["sticky"], DefaultProbes["pool"]} \subseteq Int /\ Nil \notin {"", "DE"}
  /\ \A b \in Bodies : /\ b.cadence \in MinInt .. MaxInt
                       /\ {b.probes, b.dial, b.maxSamples, b.maxDuration} \subseteq (MinInt .. MaxInt) \cup {Nil}

VARIABLES
  body,       \* the request: Nil for a field that is absent or null, nulls: those that are null
  hop,        \* "middleware", "handler", "insert", "load", "done", "refused", "failed", "idle"
  storedRow,  \* the row of sampling_sessions, Nil if there is none
  reply       \* the session of the answer

requestVars == <<body, hop, storedRow, reply>>

RequestInit == body \in Bodies /\ hop = "middleware" /\ storedRow = Nil /\ reply = Nil
RequestIdle == body = Nil /\ hop = "idle" /\ storedRow = Nil /\ reply = Nil

-----------------------------------------------------------------------------
\* validateCreateSessionJSON, validateCreateRunJSON and validateEditJSON: one
\* object, no unknown property, and no null where the property is not nullable.
NotNullable == {"probes", "dial"}
ShapeValid(b) ==
  /\ b.shape = "object" /\ (b.op = "createRun" => b.axes = "known")
  /\ b.op # "edit" => b.nulls \cap NotNullable = {}
  /\ b.op = "edit" => b.nulls = {}

\* validateRequestBody with readCappedBody.
ValidateRequestBody ==
  /\ hop = "middleware"
  /\ hop' = IF body.shape = "oversized" \/ ~ShapeValid(body) THEN "refused" ELSE "handler"
  /\ UNCHANGED <<body, storedRow, reply>>

-----------------------------------------------------------------------------
(* The handlers.                                                           *)

\* Mutant of ValidPersistedInteger: the column's limit is not checked.
ValidPersistedIntegerAbove(value, minimum) == value >= minimum
ValidPersistedInteger(value, minimum) == value >= minimum /\ value <= MaxPersisted
ValidOptionalPersistedInteger(value) == value = Nil \/ ValidPersistedInteger(value, 1)

\* TrimSpace, then 1 to 100 runes.
ValidName(name) == name # Nil /\ name \in {"name", " name "}
TrimSpace(name) == IF name = " name " THEN "name" ELSE name
\* Two letters, stored in upper case; unset if absent or empty.
ValidCountry(c) == c \in {Nil, "", "de", "DE"}
NormalizedTargetCountry(c) == IF c \in {Nil, ""} THEN "" ELSE "DE"

Probes(b) == IF b.probes = Nil THEN DefaultProbes[b.mode] ELSE b.probes
DialTimeout(b) == IF b.dial = Nil THEN DefaultDial ELSE b.dial

\* A run needs a template, too, and no variant of it may put an axis value
\* into the password; how it expands is the subject of Expansion.
ValidTemplate(b) == b.op = "createRun" => b.template = "valid"

ValidCreate(b) ==
  /\ ValidName(b.name) /\ b.mode \in {"sticky", "pool"} /\ b.proxy = "host:port"
  /\ ValidTemplate(b)
  /\ ValidPersistedInteger(b.cadence, 1)
  /\ Probes(b) >= 1 /\ Probes(b) <= MaxProbes
  /\ (b.dial = Nil \/ ValidPersistedInteger(b.dial, MinDial))
  /\ DialTimeout(b) >= MinDial /\ DialTimeout(b) <= MaxPersisted
  /\ ValidOptionalPersistedInteger(b.maxSamples) /\ ValidOptionalPersistedInteger(b.maxDuration)
  /\ ValidCountry(b.country)

SecondsPointer(n) == IF n = Nil THEN Nil ELSE Wrap(n * Second)

Create ==
  /\ hop = "handler" /\ body.op \in {"createSession", "createRun"}
  /\ IF ~ValidCreate(body) THEN hop' = "refused" /\ UNCHANGED reply
     ELSE /\ hop' = "insert"
          /\ reply' = [name |-> TrimSpace(body.name), mode |-> body.mode,
                       cadence |-> Wrap(body.cadence * Second), probes |-> Probes(body),
                       dial |-> DialTimeout(body), maxSamples |-> body.maxSamples,
                       maxDuration |-> SecondsPointer(body.maxDuration),
                       country |-> NormalizedTargetCountry(body.country)]
  /\ UNCHANGED <<body, storedRow>>

\* editedName; the row is renamed, its other columns stay.
Edit ==
  /\ hop = "handler" /\ body.op = "edit"
  /\ hop' = IF body.name = Nil \/ ~ValidName(body.name) THEN "refused" ELSE "done"
  /\ UNCHANGED <<body, storedRow, reply>>

-----------------------------------------------------------------------------
(* The database.                                                           *)

\* int32(n): the low bits.
Int32(n) == ((n + MaxPersisted + 1) % (2 * (MaxPersisted + 1))) - (MaxPersisted + 1)
Int32Ptr(n) == IF n = Nil THEN Nil ELSE Int32(n)
\* Division of a duration truncates towards zero.
Seconds(d) == IF d >= 0 THEN d \div Second ELSE -((-d) \div Second)
DurationSeconds(d) == IF d = Nil THEN Nil ELSE Seconds(d)

\* insertSessionParams and the CHECKs of the table.
InsertSessionParams(s) ==
  [s EXCEPT !.cadence = Int32(Seconds(s.cadence)), !.probes = Int32(s.probes), !.dial = Int32(s.dial),
            !.maxSamples = Int32Ptr(s.maxSamples), !.maxDuration = Int32Ptr(DurationSeconds(s.maxDuration))]
ChecksHold(row) ==
  /\ row.cadence > 0 /\ row.probes \in 1 .. MaxProbes /\ row.dial > 0
  /\ row.maxSamples = Nil \/ row.maxSamples > 0
  /\ row.maxDuration = Nil \/ row.maxDuration > 0
InsertSession ==
  /\ hop = "insert"
  /\ IF ChecksHold(InsertSessionParams(reply))
     THEN hop' = "load" /\ storedRow' = InsertSessionParams(reply) ELSE hop' = "failed" /\ UNCHANGED storedRow
  /\ UNCHANGED <<body, reply>>

\* mapSession of the store: the row as a session.
StoreMapSession(row) ==
  [row EXCEPT !.cadence = Wrap(row.cadence * Second), !.maxDuration = SecondsPointer(row.maxDuration)]
\* mapSession of the API: a session as an answer.
APIMapSession(s) ==
  [s EXCEPT !.cadence = Seconds(s.cadence), !.maxDuration = DurationSeconds(s.maxDuration),
            !.country = IF s.country = "" THEN Nil ELSE s.country]
LoadSession ==
  /\ hop = "load" /\ hop' = "done"
  /\ reply' = APIMapSession(StoreMapSession(storedRow))
  /\ UNCHANGED <<body, storedRow>>

Requesting == ValidateRequestBody \/ Create \/ Edit \/ InsertSession \/ LoadSession

-----------------------------------------------------------------------------
(* Properties.                                                             *)

\* What a client is told it created is what it asked for: no integer of an
\* accepted request is cut or turns negative on its way through a duration and
\* an int32 column, no property it misspelt was ignored, and no request passes
\* the handler only to be refused by the table.
AcceptedSurvives ==
  /\ hop # "failed"
  /\ hop = "done" => body.shape = "object"
  /\ hop = "done" /\ reply # Nil =>
       /\ reply.cadence = body.cadence /\ reply.maxSamples = body.maxSamples
       /\ reply.maxDuration = body.maxDuration
       /\ body.dial # Nil => reply.dial = body.dial
       /\ body.probes # Nil => reply.probes = body.probes
       /\ reply.country = Nil <=> body.country \in {Nil, ""}
=============================================================================
