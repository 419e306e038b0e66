------------------------------ MODULE ChWriter ------------------------------
(***************************************************************************)
(* The bounded, asynchronous ClickHouse writer (internal/ch/writer.go):    *)
(* sampling workers call Enqueue, deletions call Flush, shutdown calls     *)
(* Close, one goroutine (run) drains the command channel into batches.     *)
(*                                                                         *)
(* An event is the number of its acceptance: the n-th command that         *)
(* entered the channel as an event is event n.  Invalid events are turned  *)
(* away by Enqueue before it reads any state, so they are not calls here.  *)
(* stateMu is a Go RWMutex: it is read-held by the clients between RLock   *)
(* and RUnlock (pc "admit" or "send"), and a waiting Lock keeps new        *)
(* readers out.                                                            *)
(***************************************************************************)
EXTENDS Naturals, Sequences, FiniteSets

CONSTANTS
  Producers,      \* goroutines that call Enqueue (the sampling workers)
  Flushers,       \* goroutines that call Flush (deletions)
  Closers,        \* goroutines that call Close
  NoFlusher,      \* the owner of a barrier channel nobody reads any more
  QueueCapacity,  \* capacity of the commands channel
  BatchSize,      \* events per insert
  Outcomes,       \* results of one insert that the environment may produce
  MaxEvents       \* bound: number of events accepted in a behaviour

Clients == Producers \cup Flushers

ASSUME ConstantsAssumption ==
  /\ Producers \cap Flushers = {}
  /\ Closers \cap Clients = {}
  /\ NoFlusher \notin Flushers
  /\ QueueCapacity \in Nat \ {0}
  /\ BatchSize \in Nat \ {0}
  /\ MaxEvents \in Nat
  /\ Outcomes \subseteq {"sent", "failed", "ambiguous"}
  /\ Outcomes # {}

VARIABLES
  commands,    \* the channel: a FIFO of events and barriers
  chanClosed,  \* close(commands) has been executed
  accepting,   \* guarded by stateMu
  closing,     \* atomic flag
  initiator,   \* the initiateClose goroutine
  pc,          \* per client: where its call is
  result,      \* per flusher: what its last Flush returned
  reply,       \* per flusher: content of its barrier channel (buffer of 1)
  waiting,     \* Close calls blocked on done
  runPc,       \* the run goroutine
  asker,       \* owner of the barrier the run goroutine is serving
  batch,       \* events received and not yet flushed
  pendingErr,  \* events of the failed inserts joined into pendingErr
  closeErr,    \* events of the failed inserts handed to Close
  accepted,    \* history: number of events accepted
  mark,        \* history, per flusher: accepted when Flush was called
  settled,     \* history: number of events taken out by flushes
  stored,      \* events ClickHouse has
  failed,      \* history: events whose insert returned an error
  reported     \* history: failed events handed to some barrier

chanVars == <<commands, chanClosed>>
gateVars == <<accepting, closing, initiator>>
callVars == <<pc, result, reply, mark, waiting>>
runVars  == <<runPc, asker, batch, pendingErr, closeErr>>
logVars  == <<settled, stored, failed, reported>>
vars == <<chanVars, gateVars, callVars, runVars, logVars, accepted>>

Event(n)      == [barrier |-> NoFlusher, event |-> TRUE,  at |-> n]
Barrier(f, n) == [barrier |-> f,         event |-> FALSE, at |-> n]

\* The field "at" is history: the number of events accepted up to and
\* including this command.
Command == [barrier : Flushers \cup {NoFlusher}, event : BOOLEAN, at : Nat]

Items(s) == {s[i] : i \in DOMAIN s}

ReadLocked  == {c \in Clients : pc[c] \in {"admit", "send"}}
WriteWaits  == initiator = "locking"

-----------------------------------------------------------------------------
Init ==
  /\ commands = <<>> /\ chanClosed = FALSE
  /\ accepting = TRUE /\ closing = FALSE /\ initiator = "none"
  /\ pc = [c \in Clients |-> "idle"]
  /\ result = [f \in Flushers |-> "none"]
  /\ reply = [f \in Flushers |-> "none"]
  /\ waiting = {}
  /\ runPc = "select" /\ asker = NoFlusher
  /\ batch = <<>> /\ pendingErr = {} /\ closeErr = {}
  /\ accepted = 0 /\ mark = [f \in Flushers |-> 0]
  /\ settled = 0 /\ stored = {} /\ failed = {} /\ reported = {}

-----------------------------------------------------------------------------
(* Enqueue and Flush up to the select share their admission protocol.      *)

Return(c, r) ==
  /\ pc' = [pc EXCEPT ![c] = "idle"]
  /\ result' = IF c \in Flushers THEN [result EXCEPT ![c] = r] ELSE result

\* MaxEvents bounds the Enqueue calls that may still be accepted.
InFlight == {p \in Producers : pc[p] # "idle"}

CallEnqueue(p) ==
  /\ pc[p] = "idle"
  /\ accepted + Cardinality(InFlight) < MaxEvents
  /\ pc' = [pc EXCEPT ![p] = "check"]
  /\ UNCHANGED <<chanVars, gateVars, result, reply, mark, waiting, runVars, logVars, accepted>>

CallFlush(f) ==
  /\ pc[f] = "idle"
  /\ pc' = [pc EXCEPT ![f] = "check"]
  /\ mark' = [mark EXCEPT ![f] = accepted]
  /\ result' = [result EXCEPT ![f] = "pending"]
  /\ UNCHANGED <<chanVars, gateVars, reply, waiting, runVars, logVars, accepted>>

\* if w.closing.Load() { return } before the lock is asked for
CheckClosing(c) ==
  /\ pc[c] = "check"
  /\ IF closing THEN Return(c, "refused")
                ELSE pc' = [pc EXCEPT ![c] = "rlock"] /\ UNCHANGED result
  /\ UNCHANGED <<chanVars, gateVars, reply, mark, waiting, runVars, logVars, accepted>>

RLock(c) ==
  /\ pc[c] = "rlock"
  /\ ~WriteWaits
  /\ pc' = [pc EXCEPT ![c] = "admit"]
  /\ UNCHANGED <<chanVars, gateVars, result, reply, mark, waiting, runVars, logVars, accepted>>

\* Mutant of Admit: the flags are not looked at again under the lock.
AdmitUnchecked(c) ==
  /\ pc[c] = "admit"
  /\ pc' = [pc EXCEPT ![c] = "send"]
  /\ UNCHANGED <<chanVars, gateVars, result, reply, mark, waiting, runVars, logVars, accepted>>

\* if !w.accepting || w.closing.Load() { return } under the read lock
Admit(c) ==
  /\ pc[c] = "admit"
  /\ IF ~accepting \/ closing
       THEN Return(c, "refused")
       ELSE pc' = [pc EXCEPT ![c] = "send"] /\ UNCHANGED result
  /\ UNCHANGED <<chanVars, gateVars, reply, mark, waiting, runVars, logVars, accepted>>

\* The non-blocking select of Enqueue: a full channel drops the event.
SendEvent(p) ==
  /\ pc[p] = "send"
  /\ \/ /\ Len(commands) < QueueCapacity
        /\ commands' = Append(commands, Event(accepted + 1))
        /\ accepted' = accepted + 1
     \/ /\ Len(commands) >= QueueCapacity
        /\ UNCHANGED <<commands, accepted>>
  /\ Return(p, "none")
  /\ UNCHANGED <<chanClosed, gateVars, reply, mark, waiting, runVars, logVars>>

\* The blocking select of Flush, with the read lock held.
SendBarrier(f) ==
  /\ pc[f] = "send"
  /\ Len(commands) < QueueCapacity
  /\ commands' = Append(commands, Barrier(f, accepted))
  /\ pc' = [pc EXCEPT ![f] = "wait"]
  /\ UNCHANGED <<chanClosed, gateVars, result, reply, mark, waiting, runVars, logVars, accepted>>

\* err := <-barrier
TakeReply(f) ==
  /\ pc[f] = "wait"
  /\ reply[f] # "none"
  /\ Return(f, reply[f])
  /\ reply' = [reply EXCEPT ![f] = "none"]
  /\ UNCHANGED <<chanVars, gateVars, mark, waiting, runVars, logVars, accepted>>

\* <-ctx.Done() in either select.  The barrier stays in the channel, but
\* nobody will read the channel it carries.
CancelFlush(f) ==
  /\ pc[f] \in {"send", "wait"}
  /\ Return(f, "cancelled")
  /\ commands' = [i \in DOMAIN commands |->
                    IF commands[i].barrier = f
                    THEN [commands[i] EXCEPT !.barrier = NoFlusher]
                    ELSE commands[i]]
  /\ asker' = IF asker = f THEN NoFlusher ELSE asker
  /\ reply' = [reply EXCEPT ![f] = "none"]
  /\ UNCHANGED <<chanClosed, gateVars, mark, waiting, runPc, batch, pendingErr, closeErr, logVars, accepted>>

-----------------------------------------------------------------------------
(* Close and its initiateClose goroutine.                                  *)

Close(k) ==
  /\ k \notin waiting
  /\ runPc # "done"
  /\ closing' = TRUE
  /\ initiator' = IF initiator = "none" THEN "spawned" ELSE initiator
  /\ waiting' = waiting \cup {k}
  /\ UNCHANGED <<chanVars, accepting, pc, result, reply, mark, runVars, logVars, accepted>>

\* <-w.done, or the context of this Close call ends first
CloseReturn(k) ==
  /\ k \in waiting
  /\ waiting' = waiting \ {k}
  /\ UNCHANGED <<chanVars, gateVars, pc, result, reply, mark, runVars, logVars, accepted>>

InitiateLock ==
  /\ initiator = "spawned"
  /\ initiator' = "locking"
  /\ UNCHANGED <<chanVars, accepting, closing, callVars, runVars, logVars, accepted>>

\* Mutant of CloseChannel: the channel is left open.
CloseChannelForgotten ==
  /\ initiator = "locking"
  /\ ReadLocked = {}
  /\ accepting' = FALSE
  /\ initiator' = "done"
  /\ UNCHANGED <<chanVars, closing, callVars, runVars, logVars, accepted>>

\* With the write lock: accepting = false; close(commands); unlock.
CloseChannel ==
  /\ initiator = "locking"
  /\ ReadLocked = {}
  /\ accepting' = FALSE
  /\ chanClosed' = TRUE
  /\ initiator' = "done"
  /\ UNCHANGED <<commands, closing, callVars, runVars, logVars, accepted>>

-----------------------------------------------------------------------------
(* The run goroutine.                                                      *)

RunReceiveEvent ==
  /\ runPc = "select"
  /\ commands # <<>>
  /\ Head(commands).event
  /\ commands' = Tail(commands)
  /\ batch' = Append(batch, Head(commands).at)
  /\ runPc' = IF Len(batch) + 1 >= BatchSize THEN "flush" ELSE "select"
  /\ UNCHANGED <<chanClosed, gateVars, callVars, asker, pendingErr, closeErr, logVars, accepted>>

RunReceiveBarrier ==
  /\ runPc = "select"
  /\ commands # <<>>
  /\ ~Head(commands).event
  /\ commands' = Tail(commands)
  /\ asker' = Head(commands).barrier
  /\ runPc' = "answer"
  /\ UNCHANGED <<chanClosed, gateVars, callVars, batch, pendingErr, closeErr, logVars, accepted>>

\* Mutant of RunReceiveClosed: the loop ends without draining the channel.
RunReceiveClosedEarly ==
  /\ runPc = "select"
  /\ chanClosed
  /\ runPc' = "close"
  /\ UNCHANGED <<chanVars, gateVars, callVars, asker, batch, pendingErr, closeErr, logVars, accepted>>

\* A closed channel delivers what it still buffers before it reports !ok.
RunReceiveClosed ==
  /\ runPc = "select"
  /\ commands = <<>> /\ chanClosed
  /\ runPc' = "close"
  /\ UNCHANGED <<chanVars, gateVars, callVars, asker, batch, pendingErr, closeErr, logVars, accepted>>

\* A tick with an empty batch changes nothing.
RunTick ==
  /\ runPc = "select"
  /\ batch # <<>>
  /\ runPc' = "flush"
  /\ UNCHANGED <<chanVars, gateVars, callVars, asker, batch, pendingErr, closeErr, logVars, accepted>>

\* The error of this flush joined to the errors not yet handed over.
Joined(o) == IF o = "sent" THEN pendingErr ELSE pendingErr \cup Items(batch)

\* Mutant of FlushBatch: the batch is not reset.
FlushBatchKeeping(o) ==
  /\ settled' = settled + Len(batch)
  /\ stored' = IF o = "failed" THEN stored ELSE stored \cup Items(batch)
  /\ failed' = IF o = "sent" THEN failed ELSE failed \cup Items(batch)
  /\ UNCHANGED batch

\* flush: one insert of the whole batch; an empty batch inserts nothing.
\* "ambiguous" is an insert that took place although Send returned an error.
FlushBatch(o) ==
  /\ settled' = settled + Len(batch)
  /\ stored' = IF o = "failed" THEN stored ELSE stored \cup Items(batch)
  /\ failed' = IF o = "sent" THEN failed ELSE failed \cup Items(batch)
  /\ batch' = <<>>

RunFlush(o) ==
  /\ runPc = "flush"
  /\ FlushBatch(o)
  /\ pendingErr' = Joined(o)
  /\ runPc' = "select"
  /\ UNCHANGED <<chanVars, gateVars, callVars, asker, closeErr, reported, accepted>>

\* cmd.barrier <- errs, and back to the select.
Reply(errs) ==
  /\ reply' = IF asker \in Flushers
              THEN [reply EXCEPT ![asker] = IF errs = {} THEN "ok" ELSE "err"]
              ELSE reply
  /\ reported' = reported \cup errs
  /\ asker' = NoFlusher
  /\ runPc' = "select"
  /\ UNCHANGED <<chanVars, gateVars, pc, result, mark, waiting, closeErr, accepted>>

\* Mutant of RunAnswer: the barrier is answered before the batch is flushed.
RunAnswerUnflushed(o) ==
  /\ runPc = "answer"
  /\ Reply(pendingErr) /\ pendingErr' = {}
  /\ UNCHANGED <<batch, settled, stored, failed>>

\* Mutant of RunAnswer: the error of the last flush is dropped.
RunAnswerKeepingErr(o) ==
  /\ runPc = "answer"
  /\ FlushBatch(o) /\ Reply(pendingErr) /\ pendingErr' = {}

\* _ = flush(); cmd.barrier <- pendingErr; pendingErr = nil
RunAnswer(o) ==
  /\ runPc = "answer"
  /\ FlushBatch(o) /\ Reply(Joined(o)) /\ pendingErr' = {}

\* _ = flush(); closeErr = pendingErr; close(done).  pendingErr is not
\* cleared, but nobody reads it any more.
RunClose(o) ==
  /\ runPc = "close"
  /\ FlushBatch(o)
  /\ pendingErr' = Joined(o)
  /\ closeErr' = Joined(o)
  /\ runPc' = "done"
  /\ UNCHANGED <<chanVars, gateVars, callVars, asker, reported, accepted>>

-----------------------------------------------------------------------------
ClientStep(c) == CheckClosing(c) \/ RLock(c) \/ Admit(c)
Send(c) == (c \in Producers /\ SendEvent(c)) \/ (c \in Flushers /\ SendBarrier(c))
CloseStep == InitiateLock \/ CloseChannel
RunStep ==
  \/ RunReceiveEvent \/ RunReceiveBarrier \/ RunReceiveClosed \/ RunTick
  \/ \E o \in Outcomes : RunFlush(o) \/ RunAnswer(o) \/ RunClose(o)

Next ==
  \/ \E p \in Producers : CallEnqueue(p) \/ SendEvent(p)
  \/ \E c \in Clients : CheckClosing(c) \/ RLock(c) \/ Admit(c)
  \/ \E f \in Flushers : CallFlush(f) \/ SendBarrier(f) \/ TakeReply(f) \/ CancelFlush(f)
  \/ \E k \in Closers : Close(k) \/ CloseReturn(k)
  \/ CloseStep
  \/ RunStep

\* Every goroutine that can step does.  A sender blocked on a full channel is
\* served in FIFO order by the Go runtime, hence strong fairness; cancelling
\* a context is never forced.
Fairness ==
  /\ WF_vars(RunStep) /\ WF_vars(CloseStep)
  /\ \A c \in Clients : WF_vars(ClientStep(c)) /\ SF_vars(Send(c))
  /\ \A f \in Flushers : WF_vars(TakeReply(f))

Spec == Init /\ [][Next]_vars
FairSpec == Spec /\ Fairness
-----------------------------------------------------------------------------
(* Properties.                                                             *)

\* Types, and the capacity of the channel.
TypeOK ==
  /\ commands \in Seq(Command) /\ Len(commands) <= QueueCapacity
  /\ chanClosed \in BOOLEAN
  /\ accepting \in BOOLEAN /\ closing \in BOOLEAN
  /\ initiator \in {"none", "spawned", "locking", "done"}
  /\ pc \in [Clients -> {"idle", "check", "rlock", "admit", "send", "wait"}]
  /\ result \in [Flushers -> {"none", "pending", "ok", "err", "refused", "cancelled"}]
  /\ reply \in [Flushers -> {"none", "ok", "err"}]
  /\ waiting \subseteq Closers
  /\ runPc \in {"select", "flush", "answer", "close", "done"}
  /\ asker \in Flushers \cup {NoFlusher}
  /\ batch \in Seq(Nat)
  /\ accepted \in Nat /\ settled \in Nat /\ mark \in [Flushers -> Nat]
  /\ pendingErr \subseteq Nat /\ closeErr \subseteq Nat
  /\ stored \subseteq Nat /\ failed \subseteq Nat /\ reported \subseteq Nat

\* Number of events accepted before the i-th command of the channel.
Before(i) == IF i = 1 THEN settled + Len(batch) ELSE commands[i - 1].at

\* Every accepted event is in exactly one place, in acceptance order: first
\* what the flushes took out, then the batch, then the channel.  Nothing that
\* Enqueue answered true for is lost between the channel and an insert.
FifoAccounting ==
  /\ \A i \in DOMAIN batch : batch[i] = settled + i
  /\ \A i \in DOMAIN commands :
       commands[i].at = Before(i) + (IF commands[i].event THEN 1 ELSE 0)
  /\ accepted = Before(Len(commands) + 1)

\* A Flush whose barrier was answered returns only after every event accepted
\* before the call was handled, whatever Close and other flushes do meanwhile
\* (writer.go: "waits until every command accepted before its barrier").
FlushIsBarrier ==
  \A f \in Flushers : result[f] \in {"ok", "err"} => mark[f] <= settled

\* Flush returning nil means that every event accepted before the call is in
\* ClickHouse, except those whose failure an earlier barrier was told about
\* (pendingErr is handed to one barrier and then cleared).
FlushOkMeansStored ==
  \A f \in Flushers : result[f] = "ok" => 1 .. mark[f] \subseteq stored \cup reported

\* An event is handled once: it is stored or its insert returned an error,
\* and the error of a failed insert is either still pending or was handed to
\* one barrier, never both and never neither.
ErrorsHandedOver ==
  /\ 1 .. settled = stored \cup failed
  /\ failed = pendingErr \cup reported
  /\ pendingErr \cap reported = {}

\* No goroutine is about to send on the closed commands channel: Enqueue and
\* Flush hold the read lock from the accepting check to the send, and
\* initiateClose closes the channel under the write lock.
NoSendOnClosed == chanClosed => \A c \in Clients : pc[c] # "send"

\* When done is closed the queue was drained: every accepted event was
\* handled, every failure not told to a barrier is in the error Close returns,
\* and no Flush is left waiting for a barrier nobody will answer.
DrainedWhenDone ==
  runPc = "done" =>
    /\ commands = <<>> /\ settled = accepted
    /\ failed = reported \cup closeErr
    /\ \A f \in Flushers : pc[f] = "wait" => reply[f] # "none"

\* Once the initiating goroutine closed the channel no event is accepted.
SealedIsFinal == [][chanClosed => chanClosed' /\ accepted' = accepted]_vars

\* Enqueue and Flush always come back, also when Close starts while a Flush
\* holds the read lock blocked on a full channel.
CallsReturn == \A c \in Clients : pc[c] # "idle" ~> pc[c] = "idle"

\* Close leads to a drained and closed writer.
CloseCompletes == closing ~> runPc = "done"

Sink == INSTANCE EventSink WITH sealed <- chanClosed, asked <- mark, answer <- result

\* The writer implements the abstract event log, fairness included.
RefinesSink == Sink!Spec
=============================================================================
