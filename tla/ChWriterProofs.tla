--------------------------- MODULE ChWriterProofs ---------------------------
(***************************************************************************)
(* The safety of the ClickHouse writer for every number of producers,      *)
(* flushers and closers, every channel capacity and batch size.            *)
(***************************************************************************)
EXTENDS ChWriter, SequenceTheorems, TLAPS

USE ConstantsAssumption

\* A function on an initial segment of the positive integers is a sequence.
LEMMA FunctionIsSeq ==
  ASSUME NEW S, NEW n \in Nat, NEW s \in [1 .. n -> S]
  PROVE  s \in Seq(S) /\ Len(s) = n
<1>1. s \in Seq(S)
  BY SeqDef
<1>2. DOMAIN s = 1 .. n /\ DOMAIN s = 1 .. Len(s) /\ Len(s) \in Nat
  BY <1>1, LenProperties
<1> QED BY <1>1, <1>2

\* A cancelled Flush disowns its barrier and leaves the channel as it is.
LEMMA CancelKeeps ==
  ASSUME TypeOK, NEW f \in Flushers, CancelFlush(f)
  PROVE  /\ commands' \in Seq(Command)
         /\ Len(commands') = Len(commands) /\ DOMAIN commands' = DOMAIN commands
         /\ \A i \in DOMAIN commands :
              /\ commands'[i].at = commands[i].at
              /\ commands'[i].event = commands[i].event
              /\ commands'[i].barrier = IF commands[i].barrier = f
                                        THEN NoFlusher ELSE commands[i].barrier
<1>1. /\ Len(commands) \in Nat /\ DOMAIN commands = 1 .. Len(commands)
      /\ \A i \in DOMAIN commands : commands[i] \in Command
  BY LenProperties, ElementOfSeq DEF TypeOK
<1>2. commands' = [i \in DOMAIN commands |->
                     IF commands[i].barrier = f
                     THEN [commands[i] EXCEPT !.barrier = NoFlusher] ELSE commands[i]]
  BY DEF CancelFlush
<1>3. ASSUME NEW i \in DOMAIN commands
      PROVE  /\ commands'[i] \in Command
             /\ commands'[i].at = commands[i].at
             /\ commands'[i].event = commands[i].event
             /\ commands'[i].barrier = IF commands[i].barrier = f
                                       THEN NoFlusher ELSE commands[i].barrier
  <2>1. commands[i] \in Command
    BY <1>1
  <2>2. commands'[i] = IF commands[i].barrier = f
                       THEN [commands[i] EXCEPT !.barrier = NoFlusher] ELSE commands[i]
    BY <1>2, Zenon
  <2> QED BY <2>1, <2>2 DEF Command
<1>4. commands' \in [1 .. Len(commands) -> Command]
  <2>1. commands' = [i \in 1 .. Len(commands) |-> commands'[i]]
    BY <1>1, <1>2
  <2> QED BY <1>1, <1>3, <2>1, Zenon
<1>5. commands' \in Seq(Command) /\ Len(commands') = Len(commands)
  BY <1>1, <1>4, FunctionIsSeq
<1>6. DOMAIN commands' = DOMAIN commands
  BY <1>2
<1> QED BY <1>3, <1>5, <1>6

\* Every step keeps the types and the capacity of the channel.
LEMMA TypeStep == TypeOK /\ [Next]_vars => TypeOK'
<1> SUFFICES ASSUME TypeOK, [Next]_vars PROVE TypeOK'
    OBVIOUS
<1> USE DEF TypeOK
<1>1. ASSUME NEW p \in Producers, CallEnqueue(p) PROVE TypeOK'
  BY <1>1 DEF CallEnqueue, chanVars, gateVars, runVars, logVars, Clients
<1>2. ASSUME NEW p \in Producers, SendEvent(p) PROVE TypeOK'
  <2>1. Event(accepted + 1) \in Command
    BY DEF Event, Command
  <2>2. commands' \in Seq(Command) /\ Len(commands') <= QueueCapacity /\ accepted' \in Nat
    <3>1. CASE Len(commands) < QueueCapacity
      <4>1. commands' = Append(commands, Event(accepted + 1)) /\ accepted' = accepted + 1
        BY <1>2, <3>1 DEF SendEvent
      <4> QED BY <2>1, <3>1, <4>1
    <3>2. CASE ~(Len(commands) < QueueCapacity)
      BY <1>2, <3>2 DEF SendEvent
    <3> QED BY <3>1, <3>2
  <2> QED BY <1>2, <2>2 DEF SendEvent, Return, gateVars, runVars, logVars, Clients
<1>3. ASSUME NEW c \in Clients, CheckClosing(c) PROVE TypeOK'
  BY <1>3 DEF CheckClosing, Return, chanVars, gateVars, runVars, logVars
<1>4. ASSUME NEW c \in Clients, RLock(c) PROVE TypeOK'
  BY <1>4 DEF RLock, chanVars, gateVars, runVars, logVars
<1>5. ASSUME NEW c \in Clients, Admit(c) PROVE TypeOK'
  BY <1>5 DEF Admit, Return, chanVars, gateVars, runVars, logVars
<1>6. ASSUME NEW f \in Flushers, CallFlush(f) PROVE TypeOK'
  BY <1>6 DEF CallFlush, chanVars, gateVars, runVars, logVars, Clients
<1>7. ASSUME NEW f \in Flushers, SendBarrier(f) PROVE TypeOK'
  <2>1. Barrier(f, accepted) \in Command
    BY DEF Barrier, Command
  <2>2. commands' \in Seq(Command) /\ Len(commands') <= QueueCapacity
    BY <1>7, <2>1 DEF SendBarrier
  <2> QED BY <1>7, <2>2 DEF SendBarrier, gateVars, runVars, logVars, Clients
<1>8. ASSUME NEW f \in Flushers, TakeReply(f) PROVE TypeOK'
  BY <1>8 DEF TakeReply, Return, chanVars, gateVars, runVars, logVars, Clients
<1>9. ASSUME NEW f \in Flushers, CancelFlush(f) PROVE TypeOK'
  <2>1. commands' \in Seq(Command) /\ Len(commands') <= QueueCapacity
    BY <1>9, CancelKeeps
  <2> QED BY <1>9, <2>1 DEF CancelFlush, Return, gateVars, logVars, Clients
<1>10. ASSUME NEW k \in Closers, Close(k) \/ CloseReturn(k) PROVE TypeOK'
  BY <1>10 DEF Close, CloseReturn, chanVars, gateVars, runVars, logVars
<1>11. CASE CloseStep
  BY <1>11 DEF CloseStep, InitiateLock, CloseChannel, chanVars, callVars, runVars, logVars
<1>12. CASE RunReceiveEvent \/ RunReceiveBarrier \/ RunReceiveClosed \/ RunTick
  <2>1. ASSUME commands # <<>>
        PROVE  Head(commands) \in Command /\ Tail(commands) \in Seq(Command)
    BY <2>1
  <2>2. CASE RunReceiveEvent
    BY <2>1, <2>2 DEF RunReceiveEvent, Command, gateVars, callVars, logVars
  <2>3. CASE RunReceiveBarrier
    BY <2>1, <2>3 DEF RunReceiveBarrier, Command, gateVars, callVars, logVars
  <2>4. CASE RunReceiveClosed \/ RunTick
    BY <2>4 DEF RunReceiveClosed, RunTick, chanVars, gateVars, callVars, logVars
  <2> QED BY <1>12, <2>2, <2>3, <2>4
<1>13. ASSUME NEW o \in Outcomes, FlushBatch(o)
       PROVE  /\ settled' \in Nat /\ batch' \in Seq(Nat)
              /\ stored' \subseteq Nat /\ failed' \subseteq Nat /\ Joined(o) \subseteq Nat
  <2>1. \A i \in DOMAIN batch : batch[i] \in Nat
    BY ElementOfSeq, LenProperties
  <2>2. ASSUME NEW e \in Items(batch) PROVE e \in Nat
    <3>1. PICK i \in DOMAIN batch : e = batch[i]
      BY <2>2, Zenon DEF Items
    <3> QED BY <2>1, <3>1
  <2>3. settled' \in Nat /\ batch' \in Seq(Nat)
    BY <1>13, LenProperties DEF FlushBatch
  <2>4. Items(batch) \subseteq Nat
    BY <2>2
  <2> QED BY <1>13, <2>3, <2>4 DEF FlushBatch, Joined
<1>14. ASSUME NEW o \in Outcomes, RunFlush(o) PROVE TypeOK'
  <2>1. FlushBatch(o)
    BY <1>14 DEF RunFlush
  <2> QED BY <1>13, <1>14, <2>1 DEF RunFlush, chanVars, gateVars, callVars
<1>15. ASSUME NEW o \in Outcomes, RunAnswer(o) PROVE TypeOK'
  <2>1. FlushBatch(o) /\ Reply(Joined(o))
    BY <1>15 DEF RunAnswer
  <2>2. reply' \in [Flushers -> {"none", "ok", "err"}]
    BY <2>1 DEF Reply
  <2> QED BY <1>13, <1>15, <2>1, <2>2 DEF RunAnswer, Reply, chanVars, gateVars
<1>16. ASSUME NEW o \in Outcomes, RunClose(o) PROVE TypeOK'
  <2>1. FlushBatch(o)
    BY <1>16 DEF RunClose
  <2> QED BY <1>13, <1>16, <2>1 DEF RunClose, chanVars, gateVars, callVars
<1>17. CASE UNCHANGED vars
  BY <1>17 DEF vars, chanVars, gateVars, callVars, runVars, logVars
<1> QED
  BY <1>1, <1>2, <1>3, <1>4, <1>5, <1>6, <1>7, <1>8, <1>9, <1>10, <1>11, <1>12,
     <1>14, <1>15, <1>16, <1>17 DEF Next, RunStep

\* The types of the writer's state, and the bound of its channel.
THEOREM WriterTypes == Spec => []TypeOK
<1>1. ASSUME Init PROVE TypeOK
  <2>1. commands \in Seq(Command) /\ Len(commands) <= QueueCapacity /\ batch \in Seq(Nat)
    BY <1>1 DEF Init
  <2>2. chanClosed \in BOOLEAN /\ accepting \in BOOLEAN /\ closing \in BOOLEAN
    BY <1>1, Zenon DEF Init
  <2> QED BY <1>1, <2>1, <2>2 DEF Init, TypeOK
<1> QED BY <1>1, TypeStep, PTL DEF Spec

-----------------------------------------------------------------------------
(* The shutdown gate.  The channel is closed by initiateClose alone, in the *)
(* critical section that also withdraws "accepting"; a sender is past the   *)
(* check of "accepting" and still holds the read lock, which keeps that     *)
(* critical section out.                                                    *)
Gate ==
  /\ chanClosed <=> initiator = "done"
  /\ accepting <=> initiator # "done"
  /\ NoSendOnClosed

\* Every step keeps the gate shut once it is shut.
LEMMA GateStep == TypeOK /\ Gate /\ [Next]_vars => Gate'
<1> SUFFICES ASSUME TypeOK, Gate, [Next]_vars PROVE Gate'
    OBVIOUS
<1> USE DEF Gate, NoSendOnClosed
<1>1. pc \in [Clients -> {"idle", "check", "rlock", "admit", "send", "wait"}]
  BY DEF TypeOK
<1>2. ASSUME NEW c \in Clients, CheckClosing(c) \/ RLock(c) PROVE Gate'
  BY <1>1, <1>2 DEF CheckClosing, RLock, Return, chanVars, gateVars
<1>3. ASSUME NEW c \in Clients, Admit(c) PROVE Gate'
  BY <1>1, <1>3 DEF Admit, Return, chanVars, gateVars
<1>4. ASSUME NEW p \in Producers, CallEnqueue(p) \/ SendEvent(p) PROVE Gate'
  BY <1>1, <1>4 DEF CallEnqueue, SendEvent, Return, chanVars, gateVars
<1>5. ASSUME NEW f \in Flushers,
             CallFlush(f) \/ SendBarrier(f) \/ TakeReply(f) \/ CancelFlush(f)
      PROVE  Gate'
  BY <1>1, <1>5 DEF CallFlush, SendBarrier, TakeReply, CancelFlush, Return, chanVars, gateVars
<1>6. ASSUME NEW k \in Closers, Close(k) \/ CloseReturn(k) PROVE Gate'
  BY <1>6 DEF Close, CloseReturn, chanVars, gateVars
<1>7. CASE InitiateLock
  BY <1>7 DEF InitiateLock, chanVars, callVars
<1>8. CASE CloseChannel
  BY <1>8 DEF CloseChannel, ReadLocked, callVars
<1>9. CASE RunStep
  <2>1. UNCHANGED <<chanClosed, gateVars, pc>>
    BY <1>9 DEF RunStep, RunReceiveEvent, RunReceiveBarrier, RunReceiveClosed, RunTick,
                RunFlush, RunAnswer, RunClose, Reply, chanVars, callVars
  <2> QED BY <2>1 DEF gateVars
<1>10. CASE UNCHANGED vars
  BY <1>10 DEF vars, chanVars, gateVars, callVars
<1> QED
  BY <1>2, <1>3, <1>4, <1>5, <1>6, <1>7, <1>8, <1>9, <1>10 DEF Next, CloseStep

\* The gate holds in every reachable state.
LEMMA GateAlways == Spec => []Gate
<1>1. Init => Gate
  BY DEF Init, Gate, NoSendOnClosed
<1> QED BY <1>1, WriterTypes, GateStep, PTL DEF Spec

\* No send on the closed commands channel (which would panic), however many
\* workers, deletions and Close calls race with each other.
THEOREM WriterNeverSendsOnClosed == Spec => []NoSendOnClosed
<1>1. Gate => NoSendOnClosed
  BY DEF Gate
<1> QED BY <1>1, GateAlways, PTL

\* Once the channel is closed it stays closed and nothing more is accepted.
THEOREM WriterSealedIsFinal == Spec => SealedIsFinal
<1>1. TypeOK /\ Gate /\ [Next]_vars
      => [chanClosed => chanClosed' /\ accepted' = accepted]_vars
  <2> SUFFICES ASSUME TypeOK, Gate, Next, chanClosed
               PROVE  chanClosed' /\ accepted' = accepted
      OBVIOUS
  <2> USE DEF Gate, NoSendOnClosed
  <2>1. ASSUME NEW c \in Clients, CheckClosing(c) \/ RLock(c) \/ Admit(c)
        PROVE  chanClosed' /\ accepted' = accepted
    BY <2>1 DEF CheckClosing, RLock, Admit, chanVars
  <2>2. ASSUME NEW p \in Producers, CallEnqueue(p) \/ SendEvent(p)
        PROVE  chanClosed' /\ accepted' = accepted
    BY <2>2 DEF CallEnqueue, SendEvent, chanVars, Clients
  <2>3. ASSUME NEW f \in Flushers,
               CallFlush(f) \/ SendBarrier(f) \/ TakeReply(f) \/ CancelFlush(f)
        PROVE  chanClosed' /\ accepted' = accepted
    BY <2>3 DEF CallFlush, SendBarrier, TakeReply, CancelFlush, chanVars
  <2>4. ASSUME NEW k \in Closers, Close(k) \/ CloseReturn(k)
        PROVE  chanClosed' /\ accepted' = accepted
    BY <2>4 DEF Close, CloseReturn, chanVars
  <2>5. CASE CloseStep
    BY <2>5 DEF CloseStep, InitiateLock, CloseChannel, chanVars
  <2>6. CASE RunStep
    BY <2>6 DEF RunStep, RunReceiveEvent, RunReceiveBarrier, RunReceiveClosed, RunTick,
                RunFlush, RunAnswer, RunClose, Reply, chanVars
  <2> QED BY <2>1, <2>2, <2>3, <2>4, <2>5, <2>6 DEF Next
<1> QED BY <1>1, WriterTypes, GateAlways, PTL DEF Spec, SealedIsFinal

-----------------------------------------------------------------------------
(* The order of the events.  FifoAccounting is inductive given the types.   *)

\* Appending a command numbered after the last one keeps the accounting.
LEMMA FifoSend ==
  ASSUME TypeOK, FifoAccounting, NEW c \in Command,
         c.at = accepted + (IF c.event THEN 1 ELSE 0),
         commands' = Append(commands, c), accepted' = c.at,
         settled' = settled, batch' = batch
  PROVE  FifoAccounting'
<1>0. PICK n \in Nat : n = Len(commands)
  BY DEF TypeOK
<1>1. /\ n \in Nat /\ DOMAIN commands = 1 .. n
      /\ Len(commands') = n + 1 /\ DOMAIN commands' = 1 .. n + 1
      /\ commands'[n + 1] = c /\ \A i \in 1 .. n : commands'[i] = commands[i]
  BY <1>0 DEF TypeOK
<1>2. \A i \in 1 .. n + 1 : Before(i)' = Before(i)
  BY <1>1 DEF Before
<1>3. accepted = Before(n + 1)
  BY <1>0 DEF FifoAccounting
<1>4. ASSUME NEW i \in DOMAIN commands'
      PROVE  commands'[i].at = Before(i)' + (IF commands'[i].event THEN 1 ELSE 0)
  <2>1. CASE i \in 1 .. n
    BY <1>1, <1>2, <2>1 DEF FifoAccounting
  <2>2. CASE i = n + 1
    BY <1>1, <1>2, <1>3, <2>2
  <2> QED BY <1>1, <2>1, <2>2
<1>5. accepted' = Before(n + 2)'
  BY <1>1 DEF Before
<1>6. \A i \in DOMAIN batch' : batch'[i] = settled' + i
  BY DEF FifoAccounting
<1> QED BY <1>1, <1>4, <1>5, <1>6 DEF FifoAccounting

\* Taking the head off the channel keeps the accounting, when the head is
\* counted as an event of the batch exactly if it is one.
LEMMA FifoReceive ==
  ASSUME TypeOK, FifoAccounting, commands # <<>>,
         commands' = Tail(commands), accepted' = accepted, settled' = settled,
         batch' = IF Head(commands).event THEN Append(batch, Head(commands).at) ELSE batch
  PROVE  FifoAccounting'
<1>0. PICK n \in Nat, m \in Nat : n = Len(commands) /\ m = Len(batch)
  BY DEF TypeOK
<1>1. /\ n \in Nat \ {0} /\ DOMAIN commands = 1 .. n
      /\ Len(commands') = n - 1 /\ DOMAIN commands' = 1 .. n - 1
      /\ \A i \in 1 .. n - 1 : commands'[i] = commands[i + 1]
      /\ m \in Nat /\ DOMAIN batch = 1 .. m /\ settled \in Nat
      /\ Head(commands) = commands[1]
  BY <1>0 DEF TypeOK
<1>2. commands[1].at = settled + m + (IF commands[1].event THEN 1 ELSE 0)
  <2>1. Before(1) = settled + m
    BY <1>0 DEF Before
  <2> QED BY <1>1, <2>1 DEF FifoAccounting
<1>3. \A i \in DOMAIN batch' : batch'[i] = settled' + i
  <2>1. CASE commands[1].event
    <3>1. /\ DOMAIN batch' = 1 .. m + 1 /\ batch'[m + 1] = commands[1].at
          /\ \A i \in 1 .. m : batch'[i] = batch[i]
      BY <1>1, <2>1 DEF TypeOK
    <3> QED BY <1>1, <1>2, <2>1, <3>1 DEF FifoAccounting
  <2>2. CASE ~commands[1].event
    BY <1>1, <2>2 DEF FifoAccounting
  <2> QED BY <2>1, <2>2
<1>4. settled' + Len(batch') = commands[1].at
  <2>1. CASE commands[1].event
    <3>1. Len(batch') = m + 1
      BY <1>1, <2>1 DEF TypeOK
    <3> QED BY <1>1, <1>2, <2>1, <3>1
  <2>2. CASE ~commands[1].event
    BY <1>1, <1>2, <2>2
  <2> QED BY <2>1, <2>2
<1>5. \A i \in 1 .. n : Before(i)' = Before(i + 1)
  BY <1>1, <1>4 DEF Before
<1>6. ASSUME NEW i \in DOMAIN commands'
      PROVE  commands'[i].at = Before(i)' + (IF commands'[i].event THEN 1 ELSE 0)
  <2>1. i \in 1 .. n /\ i + 1 \in DOMAIN commands /\ commands'[i] = commands[i + 1]
    BY <1>1
  <2> QED BY <1>5, <2>1 DEF FifoAccounting
<1>7. accepted' = Before(n)'
  BY <1>0, <1>1, <1>5 DEF FifoAccounting
<1> QED BY <1>1, <1>3, <1>6, <1>7 DEF FifoAccounting

\* A flush settles the batch, which is a prefix of what is not yet settled.
LEMMA FifoFlush ==
  ASSUME TypeOK, FifoAccounting, NEW o \in Outcomes, FlushBatch(o),
         commands' = commands, accepted' = accepted
  PROVE  FifoAccounting'
<1>1. settled' = settled + Len(batch) /\ batch' = <<>>
  BY DEF FlushBatch
<1>2. settled' + Len(batch') = settled + Len(batch)
  BY <1>1 DEF TypeOK
<1>3. \A i : Before(i)' = Before(i)
  BY <1>2 DEF Before
<1> QED BY <1>1, <1>3 DEF FifoAccounting

\* Every step keeps the accounting of the events.
LEMMA FifoStep == TypeOK /\ FifoAccounting /\ [Next]_vars => FifoAccounting'
<1> SUFFICES ASSUME TypeOK, FifoAccounting, [Next]_vars PROVE FifoAccounting'
    OBVIOUS
<1>0. ASSUME UNCHANGED <<commands, batch, settled, accepted>> PROVE FifoAccounting'
  BY <1>0 DEF FifoAccounting, Before
<1>1. ASSUME NEW c \in Clients, CheckClosing(c) \/ RLock(c) \/ Admit(c) PROVE FifoAccounting'
  BY <1>0, <1>1 DEF CheckClosing, RLock, Admit, chanVars, runVars, logVars
<1>2. ASSUME NEW p \in Producers, CallEnqueue(p) PROVE FifoAccounting'
  BY <1>0, <1>2 DEF CallEnqueue, chanVars, runVars, logVars
<1>3. ASSUME NEW p \in Producers, SendEvent(p) PROVE FifoAccounting'
  <2>1. CASE UNCHANGED <<commands, accepted>>
    BY <1>0, <1>3, <2>1 DEF SendEvent, runVars, logVars
  <2>2. CASE commands' = Append(commands, Event(accepted + 1)) /\ accepted' = accepted + 1
    <3>1. /\ Event(accepted + 1) \in Command /\ Event(accepted + 1).at = accepted + 1
          /\ Event(accepted + 1).event
      BY DEF Event, Command, TypeOK
    <3>2. settled' = settled /\ batch' = batch
      BY <1>3 DEF SendEvent, runVars, logVars
    <3> QED BY <2>2, <3>1, <3>2, FifoSend
  <2> QED BY <1>3, <2>1, <2>2 DEF SendEvent
<1>4. ASSUME NEW f \in Flushers, CallFlush(f) \/ TakeReply(f) PROVE FifoAccounting'
  BY <1>0, <1>4 DEF CallFlush, TakeReply, chanVars, runVars, logVars
<1>5. ASSUME NEW f \in Flushers, SendBarrier(f) PROVE FifoAccounting'
  <2>1. /\ Barrier(f, accepted) \in Command /\ Barrier(f, accepted).at = accepted
        /\ ~Barrier(f, accepted).event /\ accepted + 0 = accepted
    BY DEF Barrier, Command, TypeOK
  <2>2. /\ commands' = Append(commands, Barrier(f, accepted)) /\ accepted' = accepted
        /\ settled' = settled /\ batch' = batch
    BY <1>5 DEF SendBarrier, runVars, logVars
  <2> QED BY <2>1, <2>2, FifoSend
<1>6. ASSUME NEW f \in Flushers, CancelFlush(f) PROVE FifoAccounting'
  <2>1. UNCHANGED <<batch, settled, accepted>>
    BY <1>6 DEF CancelFlush, logVars
  <2>2. Len(commands') = Len(commands)
    BY <1>6, CancelKeeps
  <2>3. \A i \in DOMAIN commands :
          commands'[i].at = commands[i].at /\ commands'[i].event = commands[i].event
    BY <1>6, CancelKeeps
  <2>4. DOMAIN commands' = DOMAIN commands /\ DOMAIN commands = 1 .. Len(commands)
        /\ Len(commands) \in Nat
    BY <1>6, CancelKeeps DEF TypeOK
  <2>5. \A i \in 1 .. Len(commands) + 1 : Before(i)' = Before(i)
    BY <2>1, <2>3, <2>4 DEF Before
  <2> QED BY <2>1, <2>2, <2>3, <2>4, <2>5 DEF FifoAccounting
<1>7. ASSUME NEW k \in Closers, Close(k) \/ CloseReturn(k) PROVE FifoAccounting'
  BY <1>0, <1>7 DEF Close, CloseReturn, chanVars, runVars, logVars
<1>8. CASE CloseStep
  BY <1>0, <1>8 DEF CloseStep, InitiateLock, CloseChannel, chanVars, runVars, logVars
<1>9. CASE RunReceiveEvent \/ RunReceiveBarrier
  BY <1>9, FifoReceive DEF RunReceiveEvent, RunReceiveBarrier, logVars
<1>10. CASE RunReceiveClosed \/ RunTick
  BY <1>0, <1>10 DEF RunReceiveClosed, RunTick, chanVars, logVars
<1>11. ASSUME NEW o \in Outcomes, RunFlush(o) \/ RunAnswer(o) \/ RunClose(o)
       PROVE  FifoAccounting'
  <2>1. FlushBatch(o) /\ commands' = commands /\ accepted' = accepted
    BY <1>11 DEF RunFlush, RunAnswer, RunClose, Reply, chanVars
  <2> QED BY <2>1, FifoFlush
<1>12. CASE UNCHANGED vars
  BY <1>0, <1>12 DEF vars, chanVars, runVars, logVars
<1> QED
  BY <1>1, <1>2, <1>3, <1>4, <1>5, <1>6, <1>7, <1>8, <1>9, <1>10, <1>11, <1>12
     DEF Next, RunStep

\* Nothing accepted is lost, duplicated or reordered on its way to an insert.
THEOREM WriterFifo == Spec => []FifoAccounting
<1>1. Init => FifoAccounting
  BY DEF Init, FifoAccounting, Before
<1> QED BY <1>1, WriterTypes, FifoStep, PTL DEF Spec

-----------------------------------------------------------------------------
(* The barrier of a waiting Flush is in one place: in the channel, with the *)
(* run goroutine, or answered.  Wherever it is, what its Flush asked for is *)
(* in front of it.                                                          *)
BarrierOf(f) ==
  /\ mark[f] <= accepted
  /\ \A i \in DOMAIN commands : commands[i].barrier = f =>
       /\ pc[f] = "wait" /\ asker # f /\ reply[f] = "none"
       /\ mark[f] <= commands[i].at /\ ~commands[i].event
       /\ \A j \in DOMAIN commands : commands[j].barrier = f => j = i
  /\ asker = f => /\ runPc = "answer" /\ pc[f] = "wait" /\ reply[f] = "none"
                  /\ mark[f] <= settled + Len(batch)
  /\ reply[f] # "none" => pc[f] = "wait" /\ mark[f] <= settled
  /\ pc[f] = "wait" => \/ reply[f] # "none" \/ asker = f
                       \/ \E i \in DOMAIN commands : commands[i].barrier = f
  /\ result[f] \in {"ok", "err"} => mark[f] <= settled

\* What the arithmetic of the barriers needs to know of the state.
LEMMA Sizes ==
  ASSUME TypeOK
  PROVE  /\ Len(commands) \in Nat /\ DOMAIN commands = 1 .. Len(commands)
         /\ Len(batch) \in Nat
         /\ \A i \in DOMAIN commands : commands[i] \in Command
         /\ \A f \in Flushers : mark[f] \in Nat
         /\ accepted \in Nat /\ settled \in Nat
  BY LenProperties, ElementOfSeq DEF TypeOK

\* Steps of other goroutines that leave channel, batch and log alone.
LEMMA BarrierKept ==
  ASSUME NEW f \in Flushers, BarrierOf(f),
         UNCHANGED <<commands, asker, batch, settled, accepted, reply, mark>>,
         \/ runPc' = runPc \/ runPc # "answer",
         pc'[f] = pc[f] \/ ("wait" \notin {pc[f], pc'[f]}),
         result'[f] = result[f] \/ result'[f] \notin {"ok", "err"}
  PROVE  BarrierOf(f)'
  BY DEF BarrierOf

\* A command sent by another client does not touch the barrier of f.
LEMMA BarrierSend ==
  ASSUME TypeOK, NEW f \in Flushers, BarrierOf(f), NEW c \in Command, c.barrier # f,
         commands' = Append(commands, c),
         accepted' \in Nat, accepted <= accepted',
         UNCHANGED <<asker, batch, settled, reply, mark, runPc>>,
         pc'[f] = pc[f], result'[f] = result[f]
  PROVE  BarrierOf(f)'
<1> USE Sizes
<1>1. PICK n \in Nat : n = Len(commands)
  OBVIOUS
<1>2. /\ DOMAIN commands = 1 .. n /\ DOMAIN commands' = 1 .. n + 1
      /\ commands'[n + 1] = c /\ \A i \in 1 .. n : commands'[i] = commands[i]
  BY <1>1 DEF TypeOK
<1>3. \A i \in DOMAIN commands' : commands'[i].barrier = f =>
        i \in DOMAIN commands /\ commands'[i] = commands[i]
  BY <1>2
<1>4. \A i \in DOMAIN commands' : commands'[i].barrier = f =>
        /\ pc'[f] = "wait" /\ asker' # f /\ reply'[f] = "none"
        /\ mark'[f] <= commands'[i].at /\ ~commands'[i].event
        /\ \A j \in DOMAIN commands' : commands'[j].barrier = f => j = i
  BY <1>3 DEF BarrierOf
<1>5. mark'[f] <= accepted'
  BY DEF BarrierOf
<1>6. pc'[f] = "wait" => \/ reply'[f] # "none" \/ asker' = f
                         \/ \E i \in DOMAIN commands' : commands'[i].barrier = f
  BY <1>2 DEF BarrierOf
<1> QED BY <1>4, <1>5, <1>6 DEF BarrierOf

\* Flush puts its barrier behind everything accepted when it was called.
LEMMA BarrierSent ==
  ASSUME TypeOK, NEW f \in Flushers, BarrierOf(f), SendBarrier(f)
  PROVE  BarrierOf(f)'
<1> USE Sizes
<1>1. PICK n \in Nat : n = Len(commands)
  OBVIOUS
<1>2. /\ DOMAIN commands = 1 .. n /\ DOMAIN commands' = 1 .. n + 1
      /\ commands'[n + 1] = Barrier(f, accepted)
      /\ \A i \in 1 .. n : commands'[i] = commands[i]
  BY <1>1 DEF TypeOK, SendBarrier, Barrier, Command
<1>3. /\ pc[f] = "send" /\ pc'[f] = "wait" /\ f \in Clients
      /\ UNCHANGED <<result, reply, mark, runPc, asker, batch, settled, accepted>>
  BY DEF SendBarrier, runVars, logVars, TypeOK, Clients
<1>4. \A i \in 1 .. n : commands[i].barrier # f
  BY <1>2, <1>3 DEF BarrierOf
<1>5. asker # f /\ reply[f] = "none"
  BY <1>3 DEF BarrierOf
<1>6. /\ commands'[n + 1].barrier = f /\ commands'[n + 1].at = accepted
      /\ ~commands'[n + 1].event
  BY <1>2 DEF Barrier
<1> QED BY <1>2, <1>3, <1>4, <1>5, <1>6 DEF BarrierOf

\* The run goroutine takes the head of the channel.
LEMMA BarrierReceive ==
  ASSUME TypeOK, FifoAccounting, NEW f \in Flushers, BarrierOf(f),
         RunReceiveEvent \/ RunReceiveBarrier
  PROVE  BarrierOf(f)'
<1> USE Sizes
<1>1. PICK n \in Nat : n = Len(commands)
  OBVIOUS
<1>2. /\ n # 0 /\ DOMAIN commands = 1 .. n /\ DOMAIN commands' = 1 .. n - 1
      /\ \A i \in 1 .. n - 1 : commands'[i] = commands[i + 1]
      /\ Head(commands) = commands[1] /\ 1 \in DOMAIN commands
  <2>1. commands # <<>> /\ commands' = Tail(commands)
    BY DEF RunReceiveEvent, RunReceiveBarrier
  <2> QED BY <1>1, <2>1 DEF TypeOK
<1>3. /\ UNCHANGED <<pc, result, reply, mark, settled, accepted>>
      /\ runPc = "select" /\ asker # f
  BY DEF RunReceiveEvent, RunReceiveBarrier, callVars, logVars, BarrierOf
<1>4. \A i \in DOMAIN commands' : i + 1 \in DOMAIN commands /\ commands'[i] = commands[i + 1]
  BY <1>2
<1>5. CASE commands[1].barrier # f
  <2>1. asker' # f
    BY <1>2, <1>3, <1>5 DEF RunReceiveEvent, RunReceiveBarrier
  <2>2. ASSUME NEW i \in DOMAIN commands', commands'[i].barrier = f
        PROVE  /\ pc[f] = "wait" /\ reply[f] = "none"
               /\ mark[f] <= commands'[i].at /\ ~commands'[i].event
               /\ \A j \in DOMAIN commands' : commands'[j].barrier = f => j = i
    <3>1. /\ pc[f] = "wait" /\ reply[f] = "none"
          /\ mark[f] <= commands'[i].at /\ ~commands'[i].event
      BY <1>4, <2>2 DEF BarrierOf
    <3>2. ASSUME NEW j \in DOMAIN commands', commands'[j].barrier = f PROVE j = i
      <4>1. j + 1 = i + 1
        BY <1>4, <2>2, <3>2 DEF BarrierOf
      <4> QED BY <1>2, <4>1
    <3> QED BY <3>1, <3>2
  <2>3. ASSUME NEW i \in DOMAIN commands, commands[i].barrier = f
        PROVE  \E j \in DOMAIN commands' : commands'[j].barrier = f
    <3>1. i - 1 \in DOMAIN commands' /\ commands'[i - 1] = commands[i]
      BY <1>2, <1>5, <2>3
    <3> QED BY <2>3, <3>1
  <2> QED BY <1>3, <2>1, <2>2, <2>3 DEF BarrierOf
<1>6. CASE commands[1].barrier = f
  <2>1. /\ pc[f] = "wait" /\ reply[f] = "none" /\ mark[f] <= commands[1].at
        /\ ~commands[1].event /\ \A j \in DOMAIN commands : commands[j].barrier = f => j = 1
    BY <1>2, <1>6 DEF BarrierOf
  <2>2. asker' = f /\ runPc' = "answer" /\ batch' = batch
    BY <1>2, <1>6, <2>1 DEF RunReceiveEvent, RunReceiveBarrier
  <2>3. commands[1].at = settled + Len(batch)
    <3>1. Before(1) = settled + Len(batch)
      BY DEF Before
    <3> QED BY <1>2, <2>1, <3>1 DEF FifoAccounting
  <2>4. \A i \in DOMAIN commands' : commands'[i].barrier # f
    BY <1>2, <1>4, <2>1
  <2> QED BY <1>3, <2>1, <2>2, <2>3, <2>4 DEF BarrierOf
<1> QED BY <1>5, <1>6

\* A flush of the batch; an answer follows the flush.
LEMMA BarrierFlush ==
  ASSUME TypeOK, NEW f \in Flushers, BarrierOf(f), NEW o \in Outcomes,
         RunFlush(o) \/ RunAnswer(o) \/ RunClose(o)
  PROVE  BarrierOf(f)'
<1> USE Sizes
<1>1. settled' = settled + Len(batch) /\ batch' = <<>>
  BY DEF RunFlush, RunAnswer, RunClose, FlushBatch
<1>2. settled <= settled' /\ settled' + Len(batch') = settled + Len(batch) /\ settled' \in Nat
  BY <1>1
<1>3. CASE RunFlush(o) \/ RunClose(o)
  <2>1. /\ UNCHANGED <<commands, pc, result, reply, mark, asker, accepted>>
        /\ asker # f
    BY <1>3 DEF RunFlush, RunClose, chanVars, callVars, BarrierOf
  <2> QED BY <1>2, <2>1 DEF BarrierOf
<1>4. CASE RunAnswer(o)
  <2>1. /\ UNCHANGED <<commands, pc, result, mark, accepted>>
        /\ asker' = NoFlusher /\ asker' # f
    BY <1>4 DEF RunAnswer, Reply, chanVars
  <2>2. CASE asker = f
    <3>1. reply'[f] # "none"
      BY <1>4, <2>2 DEF RunAnswer, Reply, TypeOK
    <3>2. pc[f] = "wait" /\ mark[f] <= settled' /\ \A i \in DOMAIN commands : commands[i].barrier # f
      BY <1>2, <1>1, <2>2 DEF BarrierOf
    <3> QED BY <1>2, <2>1, <3>1, <3>2 DEF BarrierOf
  <2>3. CASE asker # f
    <3>1. reply'[f] = reply[f]
      BY <1>4, <2>3 DEF RunAnswer, Reply, TypeOK
    <3> QED BY <1>2, <2>1, <2>3, <3>1 DEF BarrierOf
  <2> QED BY <2>2, <2>3
<1> QED BY <1>3, <1>4

\* Every step keeps the barriers in place.
LEMMA BarrierStep ==
  ASSUME TypeOK, FifoAccounting, [Next]_vars, NEW f \in Flushers, BarrierOf(f)
  PROVE  BarrierOf(f)'
<1> USE Sizes
<1>0. f \in Clients /\ NoFlusher # f /\ \A p \in Producers : p # f
  BY DEF Clients
<1>1. ASSUME NEW c \in Clients, CheckClosing(c) \/ RLock(c) \/ Admit(c) PROVE BarrierOf(f)'
  <2>1. UNCHANGED <<commands, asker, batch, settled, accepted, reply, mark, runPc>>
    BY <1>1 DEF CheckClosing, RLock, Admit, chanVars, runVars, logVars
  <2>2. pc'[f] = pc[f] \/ "wait" \notin {pc[f], pc'[f]}
    BY <1>0, <1>1 DEF CheckClosing, RLock, Admit, Return, TypeOK
  <2>3. result'[f] = result[f] \/ result'[f] \notin {"ok", "err"}
    BY <1>1 DEF CheckClosing, RLock, Admit, Return, TypeOK
  <2> QED BY <2>1, <2>2, <2>3, BarrierKept
<1>2. ASSUME NEW p \in Producers, CallEnqueue(p) PROVE BarrierOf(f)'
  <2>1. /\ UNCHANGED <<commands, asker, batch, settled, accepted, reply, mark, runPc, result>>
        /\ pc'[f] = pc[f]
    BY <1>0, <1>2 DEF CallEnqueue, chanVars, runVars, logVars, TypeOK
  <2> QED BY <2>1, BarrierKept
<1>3. ASSUME NEW p \in Producers, SendEvent(p) PROVE BarrierOf(f)'
  <2>1. /\ UNCHANGED <<asker, batch, settled, reply, mark, runPc, result>>
        /\ pc'[f] = pc[f]
    BY <1>0, <1>3 DEF SendEvent, Return, runVars, logVars, TypeOK, Clients
  <2>2. CASE UNCHANGED <<commands, accepted>>
    BY <2>1, <2>2, BarrierKept
  <2>3. CASE commands' = Append(commands, Event(accepted + 1)) /\ accepted' = accepted + 1
    <3>1. Event(accepted + 1) \in Command /\ Event(accepted + 1).barrier # f
      BY <1>0 DEF Event, Command
    <3> QED BY <2>1, <2>3, <3>1, BarrierSend
  <2> QED BY <1>3, <2>2, <2>3 DEF SendEvent
<1>4. ASSUME NEW g \in Flushers, CallFlush(g) PROVE BarrierOf(f)'
  <2>1. /\ UNCHANGED <<commands, asker, batch, settled, accepted, reply, runPc>>
        /\ pc[g] = "idle"
    BY <1>4 DEF CallFlush, chanVars, runVars, logVars
  <2>2. CASE g = f
    <3>1. pc'[f] = "check" /\ result'[f] = "pending" /\ mark'[f] = accepted
      BY <1>0, <1>4, <2>2 DEF CallFlush, TypeOK
    <3> QED BY <2>1, <2>2, <3>1 DEF BarrierOf
  <2>3. CASE g # f
    <3>1. pc'[f] = pc[f] /\ result'[f] = result[f] /\ mark'[f] = mark[f]
      BY <1>0, <1>4, <2>3 DEF CallFlush, TypeOK, Clients
    <3> QED BY <2>1, <3>1 DEF BarrierOf
  <2> QED BY <2>2, <2>3
<1>5. ASSUME NEW g \in Flushers, SendBarrier(g) PROVE BarrierOf(f)'
  <2>1. CASE g = f
    BY <1>5, <2>1, BarrierSent
  <2>2. CASE g # f
    <3>1. Barrier(g, accepted) \in Command /\ Barrier(g, accepted).barrier # f
      BY <2>2 DEF Barrier, Command
    <3>2. /\ UNCHANGED <<asker, batch, settled, reply, mark, runPc, result, accepted>>
          /\ pc'[f] = pc[f] /\ commands' = Append(commands, Barrier(g, accepted))
      BY <1>0, <1>5, <2>2 DEF SendBarrier, runVars, logVars, TypeOK, Clients
    <3> QED BY <3>1, <3>2, BarrierSend
  <2> QED BY <2>1, <2>2
<1>6. ASSUME NEW g \in Flushers, TakeReply(g) PROVE BarrierOf(f)'
  <2>1. /\ UNCHANGED <<commands, asker, batch, settled, accepted, mark, runPc>>
        /\ reply[g] # "none"
    BY <1>6 DEF TakeReply, chanVars, runVars, logVars
  <2>2. CASE g = f
    <3>1. pc'[f] = "idle" /\ reply'[f] = "none"
      BY <1>0, <1>6, <2>2 DEF TakeReply, Return, TypeOK
    <3>2. /\ mark[f] <= settled /\ asker # f
          /\ \A i \in DOMAIN commands : commands[i].barrier # f
      BY <2>1, <2>2 DEF BarrierOf
    <3> QED BY <2>1, <3>1, <3>2 DEF BarrierOf
  <2>3. CASE g # f
    <3>1. pc'[f] = pc[f] /\ result'[f] = result[f] /\ reply'[f] = reply[f]
      BY <1>0, <1>6, <2>3 DEF TakeReply, Return, TypeOK, Clients
    <3> QED BY <2>1, <3>1 DEF BarrierOf
  <2> QED BY <2>2, <2>3
<1>7. ASSUME NEW g \in Flushers, CancelFlush(g) PROVE BarrierOf(f)'
  <2>1. UNCHANGED <<batch, settled, accepted, mark, runPc>>
    BY <1>7 DEF CancelFlush, logVars
  <2>2. /\ DOMAIN commands' = DOMAIN commands
        /\ \A i \in DOMAIN commands :
             /\ commands'[i].at = commands[i].at
             /\ commands'[i].event = commands[i].event
             /\ commands'[i].barrier = IF commands[i].barrier = g
                                       THEN NoFlusher ELSE commands[i].barrier
    BY <1>7, CancelKeeps
  <2>3. CASE g = f
    <3>1. /\ pc'[f] = "idle" /\ reply'[f] = "none" /\ asker' # f /\ result'[f] = "cancelled"
          /\ \A i \in DOMAIN commands' : commands'[i].barrier # f
      BY <1>0, <1>7, <2>2, <2>3 DEF CancelFlush, Return, TypeOK
    <3> QED BY <2>1, <3>1 DEF BarrierOf
  <2>4. CASE g # f
    <3>1. /\ pc'[f] = pc[f] /\ result'[f] = result[f] /\ reply'[f] = reply[f]
          /\ asker' = f <=> asker = f
      BY <1>0, <1>7, <2>4 DEF CancelFlush, Return, TypeOK, Clients
    <3>2. \A i \in DOMAIN commands : commands'[i].barrier = f <=> commands[i].barrier = f
      BY <1>0, <2>2, <2>4
    <3> QED BY <2>1, <2>2, <3>1, <3>2 DEF BarrierOf
  <2> QED BY <2>3, <2>4
<1>8. ASSUME NEW k \in Closers, Close(k) \/ CloseReturn(k) PROVE BarrierOf(f)'
  BY <1>8, BarrierKept DEF Close, CloseReturn, chanVars, runVars, logVars
<1>9. CASE CloseStep
  BY <1>9, BarrierKept DEF CloseStep, InitiateLock, CloseChannel, chanVars, callVars, runVars, logVars
<1>10. CASE RunReceiveEvent \/ RunReceiveBarrier
  BY <1>10, BarrierReceive
<1>11. CASE RunReceiveClosed \/ RunTick
  <2>1. /\ UNCHANGED <<commands, asker, batch, settled, accepted, reply, mark, pc, result>>
        /\ runPc # "answer"
    BY <1>11 DEF RunReceiveClosed, RunTick, chanVars, callVars, logVars
  <2> QED BY <2>1, BarrierKept
<1>12. ASSUME NEW o \in Outcomes, RunFlush(o) \/ RunAnswer(o) \/ RunClose(o)
       PROVE  BarrierOf(f)'
  BY <1>12, BarrierFlush
<1>13. CASE UNCHANGED vars
  BY <1>13, BarrierKept DEF vars, chanVars, callVars, runVars, logVars
<1> QED
  BY <1>1, <1>2, <1>3, <1>4, <1>5, <1>6, <1>7, <1>8, <1>9, <1>10, <1>11, <1>12, <1>13
     DEF Next, RunStep

Barriers == \A f \in Flushers : BarrierOf(f)

\* The barriers are in place in every reachable state.
LEMMA BarriersAlways == Spec => []Barriers
<1>1. Init => Barriers
  BY DEF Init, Barriers, BarrierOf, Clients
<1>2. TypeOK /\ FifoAccounting /\ Barriers /\ [Next]_vars => Barriers'
  BY BarrierStep DEF Barriers
<1> QED BY <1>1, <1>2, WriterTypes, WriterFifo, PTL DEF Spec

\* Flush returns an answer only after everything accepted before the call was
\* handled, whatever else runs.
THEOREM WriterFlushIsBarrier == Spec => []FlushIsBarrier
<1>1. Barriers => FlushIsBarrier
  BY DEF Barriers, BarrierOf, FlushIsBarrier
<1> QED BY <1>1, BarriersAlways, PTL

-----------------------------------------------------------------------------
(* The log: what was stored, what failed, and who was told.                 *)

\* Between flushes the log does not change.
LEMMA LogKept ==
  ASSUME [Next]_vars, \A o \in Outcomes : ~(RunFlush(o) \/ RunAnswer(o) \/ RunClose(o))
  PROVE  UNCHANGED <<settled, stored, failed, reported, pendingErr>>
<1>1. ASSUME NEW c \in Clients, CheckClosing(c) \/ RLock(c) \/ Admit(c)
      PROVE  UNCHANGED <<settled, stored, failed, reported, pendingErr>>
  BY <1>1 DEF CheckClosing, RLock, Admit, runVars, logVars
<1>2. ASSUME NEW p \in Producers, CallEnqueue(p) \/ SendEvent(p)
      PROVE  UNCHANGED <<settled, stored, failed, reported, pendingErr>>
  BY <1>2 DEF CallEnqueue, SendEvent, runVars, logVars
<1>3. ASSUME NEW f \in Flushers,
             CallFlush(f) \/ SendBarrier(f) \/ TakeReply(f) \/ CancelFlush(f)
      PROVE  UNCHANGED <<settled, stored, failed, reported, pendingErr>>
  BY <1>3 DEF CallFlush, SendBarrier, TakeReply, CancelFlush, runVars, logVars
<1>4. ASSUME NEW k \in Closers, Close(k) \/ CloseReturn(k)
      PROVE  UNCHANGED <<settled, stored, failed, reported, pendingErr>>
  BY <1>4 DEF Close, CloseReturn, runVars, logVars
<1>5. CASE CloseStep \/ RunReceiveEvent \/ RunReceiveBarrier \/ RunReceiveClosed \/ RunTick
  BY <1>5 DEF CloseStep, InitiateLock, CloseChannel, RunReceiveEvent, RunReceiveBarrier,
              RunReceiveClosed, RunTick, runVars, logVars
<1>6. CASE UNCHANGED vars
  BY <1>6 DEF vars, runVars, logVars
<1> QED BY <1>1, <1>2, <1>3, <1>4, <1>5, <1>6 DEF Next, RunStep

\* The batch is the run of events right behind the settled ones.
LEMMA BatchItems ==
  ASSUME TypeOK, FifoAccounting
  PROVE  Items(batch) = settled + 1 .. settled + Len(batch)
<1>1. /\ Len(batch) \in Nat /\ settled \in Nat /\ DOMAIN batch = 1 .. Len(batch)
      /\ \A i \in DOMAIN batch : batch[i] = settled + i
  BY LenProperties DEF TypeOK, FifoAccounting
<1>2. ASSUME NEW e \in Items(batch) PROVE e \in settled + 1 .. settled + Len(batch)
  <2>1. PICK i \in DOMAIN batch : e = batch[i]
    BY <1>2, Zenon DEF Items
  <2> QED BY <1>1, <2>1
<1>3. ASSUME NEW e \in settled + 1 .. settled + Len(batch) PROVE e \in Items(batch)
  <2>1. e - settled \in DOMAIN batch /\ batch[e - settled] = e
    BY <1>1
  <2> QED BY <2>1, Zenon DEF Items
<1> QED BY <1>2, <1>3

\* A flush, whether it is the last one, one asked for or one of the batch
\* size or the ticker, moves the batch into the log with its outcome.
LEMMA ErrorsFlush ==
  ASSUME TypeOK, FifoAccounting, ErrorsHandedOver, NEW o \in Outcomes,
         RunFlush(o) \/ RunAnswer(o) \/ RunClose(o)
  PROVE  ErrorsHandedOver'
<1> DEFINE fresh == settled + 1 .. settled + Len(batch)
<1>1. Len(batch) \in Nat /\ settled \in Nat
  BY DEF TypeOK
<1>2. Items(batch) = fresh
  BY BatchItems
<1>3. /\ settled' = settled + Len(batch)
      /\ stored' = IF o = "failed" THEN stored ELSE stored \cup fresh
      /\ failed' = IF o = "sent" THEN failed ELSE failed \cup fresh
  BY <1>2 DEF RunFlush, RunAnswer, RunClose, FlushBatch
<1>4. 1 .. settled' = 1 .. settled \cup fresh /\ 1 .. settled \cap fresh = {}
  BY <1>1, <1>3
<1>5. stored' \cup failed' = stored \cup failed \cup fresh
  BY <1>3
<1>6. Joined(o) = IF o = "sent" THEN pendingErr ELSE pendingErr \cup fresh
  BY <1>2 DEF Joined
<1>7. failed' = Joined(o) \cup reported
  BY <1>3, <1>6 DEF ErrorsHandedOver
<1>8. Joined(o) \cap reported = {}
  BY <1>4, <1>6 DEF ErrorsHandedOver
<1>9. \/ pendingErr' = Joined(o) /\ reported' = reported
      \/ pendingErr' = {} /\ reported' = reported \cup Joined(o)
  BY DEF RunFlush, RunAnswer, RunClose, Reply
<1> QED BY <1>4, <1>5, <1>7, <1>8, <1>9 DEF ErrorsHandedOver

\* The error of every failed insert is pending or was handed to one barrier.
THEOREM WriterErrorsHandedOver == Spec => []ErrorsHandedOver
<1>1. Init => ErrorsHandedOver
  BY DEF Init, ErrorsHandedOver
<1>2. TypeOK /\ FifoAccounting /\ ErrorsHandedOver /\ [Next]_vars => ErrorsHandedOver'
  <2> SUFFICES ASSUME TypeOK, FifoAccounting, ErrorsHandedOver, [Next]_vars
               PROVE  ErrorsHandedOver'
      OBVIOUS
  <2>1. CASE \E o \in Outcomes : RunFlush(o) \/ RunAnswer(o) \/ RunClose(o)
    BY <2>1, ErrorsFlush
  <2>2. CASE \A o \in Outcomes : ~(RunFlush(o) \/ RunAnswer(o) \/ RunClose(o))
    BY <2>2, LogKept DEF ErrorsHandedOver
  <2> QED BY <2>1, <2>2
<1> QED BY <1>1, <1>2, WriterTypes, WriterFifo, PTL DEF Spec

\* A nil error, returned or on its way in the barrier channel, covers what
\* its Flush asked for.
OkCovers(f) == "ok" \in {reply[f], result[f]} => 1 .. mark[f] \subseteq stored \cup reported

\* Every step keeps what a nil error promises.
LEMMA OkStep ==
  ASSUME TypeOK, FifoAccounting, ErrorsHandedOver, ErrorsHandedOver', Barriers, [Next]_vars,
         NEW f \in Flushers, OkCovers(f)
  PROVE  OkCovers(f)'
<1> USE Sizes
<1>0. f \in Clients /\ BarrierOf(f)
  BY DEF Clients, Barriers
<1>1. CASE \E o \in Outcomes : RunFlush(o) \/ RunAnswer(o) \/ RunClose(o)
  <2>1. PICK o \in Outcomes : RunFlush(o) \/ RunAnswer(o) \/ RunClose(o)
    BY <1>1
  <2>2. /\ stored \subseteq stored' /\ reported \subseteq reported' /\ settled' = settled + Len(batch)
        /\ UNCHANGED <<mark, result>>
    BY <2>1 DEF RunFlush, RunAnswer, RunClose, FlushBatch, Reply, callVars
  <2>3. CASE reply'[f] = reply[f]
    BY <2>2, <2>3 DEF OkCovers
  <2>4. CASE reply'[f] # reply[f] /\ reply'[f] = "ok"
    <3>1. RunAnswer(o) /\ asker = f
      BY <2>1, <2>4 DEF RunFlush, RunAnswer, RunClose, Reply, callVars, TypeOK
    <3>2. Joined(o) = {} /\ pendingErr' = {}
      BY <3>1, <2>4 DEF RunAnswer, Reply, TypeOK
    <3>3. 1 .. settled' \subseteq stored' \cup reported'
      BY <3>2 DEF ErrorsHandedOver
    <3>4. mark[f] <= settled'
      BY <1>0, <2>2, <3>1 DEF BarrierOf
    <3>5. mark[f] \in Nat /\ settled' \in Nat
      BY <2>2
    <3> QED BY <2>2, <3>3, <3>4, <3>5 DEF OkCovers
  <2>5. CASE reply'[f] # reply[f] /\ reply'[f] # "ok"
    BY <2>2, <2>5 DEF OkCovers
  <2> QED BY <2>3, <2>4, <2>5
<1>2. CASE \A o \in Outcomes : ~(RunFlush(o) \/ RunAnswer(o) \/ RunClose(o))
  <2>1. UNCHANGED <<stored, reported>>
    BY <1>2, LogKept
  <2>2. ASSUME \/ mark'[f] = mark[f] /\ (reply'[f] = "ok" => "ok" \in {reply[f], result[f]})
                                     /\ (result'[f] = "ok" => "ok" \in {reply[f], result[f]})
               \/ "ok" \notin {reply'[f], result'[f]}
        PROVE  OkCovers(f)'
    BY <2>1, <2>2 DEF OkCovers
  <2>3. ASSUME NEW c \in Clients, CheckClosing(c) \/ RLock(c) \/ Admit(c) PROVE OkCovers(f)'
    <3>1. UNCHANGED <<mark, reply>> /\ result'[f] \in {result[f], "refused"}
      BY <2>3 DEF CheckClosing, RLock, Admit, Return, TypeOK
    <3> QED BY <2>2, <3>1
  <2>4. ASSUME NEW p \in Producers, CallEnqueue(p) \/ SendEvent(p) PROVE OkCovers(f)'
    <3>1. UNCHANGED <<mark, reply, result>>
      BY <2>4 DEF CallEnqueue, SendEvent, Return
    <3> QED BY <2>2, <3>1
  <2>5. ASSUME NEW g \in Flushers, CallFlush(g) PROVE OkCovers(f)'
    <3>1. CASE g = f
      <4>1. reply[f] = "none" /\ reply' = reply /\ result'[f] = "pending"
        BY <1>0, <2>5, <3>1 DEF CallFlush, BarrierOf, TypeOK
      <4> QED BY <2>2, <4>1
    <3>2. CASE g # f
      <4>1. reply' = reply /\ result'[f] = result[f] /\ mark'[f] = mark[f]
        BY <2>5, <3>2 DEF CallFlush, TypeOK
      <4> QED BY <2>2, <4>1
    <3> QED BY <3>1, <3>2
  <2>6. ASSUME NEW g \in Flushers, SendBarrier(g) PROVE OkCovers(f)'
    <3>1. UNCHANGED <<mark, reply, result>>
      BY <2>6 DEF SendBarrier
    <3> QED BY <2>2, <3>1
  <2>7. ASSUME NEW g \in Flushers, TakeReply(g) \/ CancelFlush(g) PROVE OkCovers(f)'
    <3>1. /\ mark' = mark /\ reply'[f] \in {reply[f], "none"}
          /\ result'[f] \in {result[f], reply[f], "cancelled"}
      BY <2>7 DEF TakeReply, CancelFlush, Return, TypeOK
    <3> QED BY <2>2, <3>1
  <2>8. ASSUME NEW k \in Closers, Close(k) \/ CloseReturn(k) PROVE OkCovers(f)'
    BY <2>2, <2>8 DEF Close, CloseReturn
  <2>9. CASE CloseStep \/ RunReceiveEvent \/ RunReceiveBarrier \/ RunReceiveClosed \/ RunTick
    <3>1. UNCHANGED <<mark, reply, result>>
      BY <2>9 DEF CloseStep, InitiateLock, CloseChannel, RunReceiveEvent, RunReceiveBarrier,
                  RunReceiveClosed, RunTick, callVars
    <3> QED BY <2>2, <3>1
  <2>10. CASE UNCHANGED vars
    BY <2>2, <2>10 DEF vars, callVars
  <2> QED BY <1>2, <2>3, <2>4, <2>5, <2>6, <2>7, <2>8, <2>9, <2>10 DEF Next, RunStep
<1> QED BY <1>1, <1>2

\* Flush returning nil: everything accepted before the call is in ClickHouse
\* or is a failure an earlier barrier was told about.
THEOREM WriterFlushOkMeansStored == Spec => []FlushOkMeansStored
<1> DEFINE Covers == \A f \in Flushers : OkCovers(f)
<1>1. Init => Covers
  BY DEF Init, OkCovers
<1>2. TypeOK /\ FifoAccounting /\ ErrorsHandedOver /\ ErrorsHandedOver' /\ Barriers
        /\ Covers /\ [Next]_vars => Covers'
  BY OkStep
<1>3. Covers => FlushOkMeansStored
  BY DEF OkCovers, FlushOkMeansStored
<1> HIDE DEF Covers
<1> QED
  BY <1>1, <1>2, <1>3, WriterTypes, WriterFifo, WriterErrorsHandedOver, BarriersAlways, PTL DEF Spec

-----------------------------------------------------------------------------
(* The end of the run goroutine.                                            *)
Ending ==
  /\ runPc \in {"close", "done"} => commands = <<>> /\ chanClosed
  /\ runPc = "done" => batch = <<>> /\ closeErr = pendingErr

\* Every step keeps the end final.
LEMMA EndingStep == TypeOK /\ Gate /\ Ending /\ [Next]_vars => Ending'
<1> SUFFICES ASSUME TypeOK, Gate, Ending, [Next]_vars PROVE Ending'
    OBVIOUS
<1> USE DEF Ending
<1>0. ASSUME UNCHANGED <<commands, runVars>>, chanClosed => chanClosed' PROVE Ending'
  BY <1>0 DEF runVars
<1>1. ASSUME NEW c \in Clients, CheckClosing(c) \/ RLock(c) \/ Admit(c) PROVE Ending'
  BY <1>0, <1>1 DEF CheckClosing, RLock, Admit, chanVars
<1>2. ASSUME NEW p \in Producers, CallEnqueue(p) PROVE Ending'
  BY <1>0, <1>2 DEF CallEnqueue, chanVars
<1>3. ASSUME NEW p \in Producers, SendEvent(p) PROVE Ending'
  <2>1. ~chanClosed /\ UNCHANGED runVars
    BY <1>3 DEF Gate, NoSendOnClosed, SendEvent, Clients
  <2> QED BY <2>1 DEF runVars
<1>4. ASSUME NEW f \in Flushers, SendBarrier(f) PROVE Ending'
  <2>1. ~chanClosed /\ UNCHANGED runVars
    BY <1>4 DEF Gate, NoSendOnClosed, SendBarrier, Clients
  <2> QED BY <2>1 DEF runVars
<1>5. ASSUME NEW f \in Flushers, CallFlush(f) \/ TakeReply(f) PROVE Ending'
  BY <1>0, <1>5 DEF CallFlush, TakeReply, chanVars
<1>6. ASSUME NEW f \in Flushers, CancelFlush(f) PROVE Ending'
  <2>1. /\ UNCHANGED <<chanClosed, runPc, batch, pendingErr, closeErr>>
        /\ commands' \in Seq(Command) /\ Len(commands') = Len(commands)
    BY <1>6, CancelKeeps DEF CancelFlush
  <2>2. commands = <<>> => commands' = <<>>
    BY <2>1
  <2> QED BY <2>1, <2>2
<1>7. ASSUME NEW k \in Closers, Close(k) \/ CloseReturn(k) PROVE Ending'
  BY <1>0, <1>7 DEF Close, CloseReturn, chanVars
<1>8. CASE CloseStep
  BY <1>0, <1>8 DEF CloseStep, InitiateLock, CloseChannel, chanVars
<1>9. CASE RunReceiveEvent \/ RunReceiveBarrier \/ RunReceiveClosed \/ RunTick
  BY <1>9 DEF RunReceiveEvent, RunReceiveBarrier, RunReceiveClosed, RunTick, chanVars
<1>10. ASSUME NEW o \in Outcomes, RunFlush(o) \/ RunAnswer(o) \/ RunClose(o) PROVE Ending'
  BY <1>10 DEF RunFlush, RunAnswer, RunClose, FlushBatch, Reply, chanVars
<1>11. CASE UNCHANGED vars
  BY <1>0, <1>11 DEF vars, chanVars
<1> QED
  BY <1>1, <1>2, <1>3, <1>4, <1>5, <1>6, <1>7, <1>8, <1>9, <1>10, <1>11 DEF Next, RunStep

\* When done is closed nothing accepted is left behind, no failure is
\* unreported and no Flush waits for a barrier nobody will answer.
THEOREM WriterDrainedWhenDone == Spec => []DrainedWhenDone
<1>1. Init => Ending
  BY DEF Init, Ending
<1>2. TypeOK /\ FifoAccounting /\ Barriers /\ ErrorsHandedOver /\ Ending => DrainedWhenDone
  <2> SUFFICES ASSUME TypeOK, FifoAccounting, Barriers, ErrorsHandedOver, Ending, runPc = "done"
               PROVE  /\ commands = <<>> /\ settled = accepted
                      /\ failed = reported \cup closeErr
                      /\ \A f \in Flushers : pc[f] = "wait" => reply[f] # "none"
      BY DEF DrainedWhenDone
  <2>1. commands = <<>> /\ batch = <<>> /\ closeErr = pendingErr
    BY DEF Ending
  <2>2. settled = accepted
    BY <2>1 DEF FifoAccounting, Before, TypeOK
  <2>3. failed = reported \cup closeErr
    BY <2>1 DEF ErrorsHandedOver
  <2>4. ASSUME NEW f \in Flushers, pc[f] = "wait" PROVE reply[f] # "none"
    BY <2>1, <2>4 DEF Barriers, BarrierOf
  <2> QED BY <2>1, <2>2, <2>3, <2>4
<1> QED
  BY <1>1, <1>2, EndingStep, WriterTypes, WriterFifo, WriterErrorsHandedOver, BarriersAlways,
     GateAlways, PTL DEF Spec

-----------------------------------------------------------------------------
(* The writer implements the event log of EventSink.  The log settles in    *)
(* batches: the mapping needs that the batch ends before the acceptances    *)
(* do, which follows from the order of the numbers in the channel.          *)
Handled == settled + Len(batch)

Ordered ==
  /\ Handled <= accepted
  /\ \A i \in DOMAIN commands : Handled <= commands[i].at /\ commands[i].at <= accepted
  /\ \A i, j \in DOMAIN commands : i <= j => commands[i].at <= commands[j].at

\* A Flush is asked for exactly while its call is under way.
Pending == \A f \in Flushers : result[f] = "pending" <=> pc[f] # "idle"

\* Sending at the end keeps the numbers in the channel ordered.
LEMMA OrderedSend ==
  ASSUME TypeOK, Ordered, NEW c \in Command, c.at = accepted', accepted <= accepted',
         commands' = Append(commands, c), batch' = batch, settled' = settled, accepted' \in Nat
  PROVE  Ordered'
<1> USE Sizes
<1>1. PICK n \in Nat : n = Len(commands)
  OBVIOUS
<1>2. /\ DOMAIN commands = 1 .. n /\ DOMAIN commands' = 1 .. n + 1
      /\ commands'[n + 1] = c /\ \A i \in 1 .. n : commands'[i] = commands[i]
  BY <1>1 DEF TypeOK
<1>3. \A i \in 1 .. n : commands[i].at \in Nat
  BY <1>2 DEF Command
<1>4. Handled' = Handled /\ Handled \in Nat
  BY DEF Handled
<1> QED BY <1>2, <1>3, <1>4 DEF Ordered

\* Receiving from the front keeps them ordered too.
LEMMA OrderedReceive ==
  ASSUME TypeOK, FifoAccounting, Ordered, RunReceiveEvent \/ RunReceiveBarrier
  PROVE  Ordered'
<1> USE Sizes
<1>1. PICK n \in Nat : n = Len(commands)
  OBVIOUS
<1>2. /\ n # 0 /\ DOMAIN commands = 1 .. n /\ DOMAIN commands' = 1 .. n - 1
      /\ \A i \in 1 .. n - 1 : commands'[i] = commands[i + 1]
      /\ Head(commands) = commands[1] /\ 1 \in DOMAIN commands
  <2>1. commands # <<>> /\ commands' = Tail(commands)
    BY DEF RunReceiveEvent, RunReceiveBarrier
  <2> QED BY <1>1, <2>1 DEF TypeOK
<1>3. accepted' = accepted /\ settled' = settled
  BY DEF RunReceiveEvent, RunReceiveBarrier, logVars
<1>4. commands[1].at = Handled + (IF commands[1].event THEN 1 ELSE 0)
  <2>1. Before(1) = Handled
    BY DEF Before, Handled
  <2> QED BY <1>2, <2>1 DEF FifoAccounting
<1>5. Handled' = commands[1].at
  <2>1. CASE RunReceiveEvent
    <3>1. commands[1].event /\ batch' = Append(batch, commands[1].at) /\ commands[1].at \in Nat
      BY <1>2, <2>1 DEF RunReceiveEvent, Command
    <3>2. Len(batch') = Len(batch) + 1
      BY <3>1 DEF TypeOK
    <3> QED BY <1>3, <1>4, <3>1, <3>2 DEF Handled
  <2>2. CASE RunReceiveBarrier
    <3>1. ~commands[1].event /\ batch' = batch
      BY <1>2, <2>2 DEF RunReceiveBarrier
    <3> QED BY <1>3, <1>4, <3>1 DEF Handled
  <2> QED BY <2>1, <2>2
<1>6. \A i \in 1 .. n - 1 : i + 1 \in DOMAIN commands /\ commands'[i] = commands[i + 1] /\ 1 <= i + 1
  BY <1>2
<1>7. \A i, j \in 1 .. n - 1 : i <= j => commands'[i].at <= commands'[j].at
  <2> SUFFICES ASSUME NEW i \in 1 .. n - 1, NEW j \in 1 .. n - 1, i <= j
               PROVE  commands[i + 1].at <= commands[j + 1].at
      BY <1>6
  <2> QED BY <1>6 DEF Ordered
<1> QED BY <1>2, <1>3, <1>5, <1>6, <1>7 DEF Ordered

\* Every step keeps the order of the channel.
LEMMA OrderedStep == TypeOK /\ FifoAccounting /\ Ordered /\ [Next]_vars => Ordered'
<1> SUFFICES ASSUME TypeOK, FifoAccounting, Ordered, [Next]_vars PROVE Ordered'
    OBVIOUS
<1> USE Sizes
<1>0. ASSUME UNCHANGED <<commands, accepted>>, Handled' = Handled PROVE Ordered'
  BY <1>0 DEF Ordered
<1>1. ASSUME NEW c \in Clients, CheckClosing(c) \/ RLock(c) \/ Admit(c) PROVE Ordered'
  BY <1>0, <1>1 DEF CheckClosing, RLock, Admit, chanVars, runVars, logVars, Handled
<1>2. ASSUME NEW p \in Producers, CallEnqueue(p) PROVE Ordered'
  BY <1>0, <1>2 DEF CallEnqueue, chanVars, runVars, logVars, Handled
<1>3. ASSUME NEW p \in Producers, SendEvent(p) PROVE Ordered'
  <2>1. batch' = batch /\ settled' = settled
    BY <1>3 DEF SendEvent, runVars, logVars
  <2>2. CASE UNCHANGED <<commands, accepted>>
    BY <1>0, <2>1, <2>2 DEF Handled
  <2>3. CASE commands' = Append(commands, Event(accepted + 1)) /\ accepted' = accepted + 1
    <3>1. Event(accepted + 1) \in Command /\ Event(accepted + 1).at = accepted + 1
      BY DEF Event, Command
    <3>2. accepted + 1 \in Nat /\ accepted <= accepted + 1
      OBVIOUS
    <3> QED BY <2>1, <2>3, <3>1, <3>2, OrderedSend
  <2> QED BY <1>3, <2>2, <2>3 DEF SendEvent
<1>4. ASSUME NEW f \in Flushers, CallFlush(f) \/ TakeReply(f) PROVE Ordered'
  BY <1>0, <1>4 DEF CallFlush, TakeReply, chanVars, runVars, logVars, Handled
<1>5. ASSUME NEW f \in Flushers, SendBarrier(f) PROVE Ordered'
  <2>1. /\ Barrier(f, accepted) \in Command /\ Barrier(f, accepted).at = accepted
        /\ accepted <= accepted
    BY DEF Barrier, Command
  <2>2. /\ commands' = Append(commands, Barrier(f, accepted)) /\ accepted' = accepted
        /\ batch' = batch /\ settled' = settled
    BY <1>5 DEF SendBarrier, runVars, logVars
  <2> QED BY <2>1, <2>2, OrderedSend
<1>6. ASSUME NEW f \in Flushers, CancelFlush(f) PROVE Ordered'
  <2>1. /\ DOMAIN commands' = DOMAIN commands
        /\ \A i \in DOMAIN commands : commands'[i].at = commands[i].at
    BY <1>6, CancelKeeps
  <2>2. accepted' = accepted /\ Handled' = Handled
    BY <1>6 DEF CancelFlush, logVars, Handled
  <2> QED BY <2>1, <2>2 DEF Ordered
<1>7. ASSUME NEW k \in Closers, Close(k) \/ CloseReturn(k) PROVE Ordered'
  BY <1>0, <1>7 DEF Close, CloseReturn, chanVars, runVars, logVars, Handled
<1>8. CASE CloseStep
  BY <1>0, <1>8 DEF CloseStep, InitiateLock, CloseChannel, chanVars, runVars, logVars, Handled
<1>9. CASE RunReceiveEvent \/ RunReceiveBarrier
  BY <1>9, OrderedReceive
<1>10. CASE RunReceiveClosed \/ RunTick
  BY <1>0, <1>10 DEF RunReceiveClosed, RunTick, chanVars, logVars, Handled
<1>11. ASSUME NEW o \in Outcomes, RunFlush(o) \/ RunAnswer(o) \/ RunClose(o) PROVE Ordered'
  <2>1. UNCHANGED <<commands, accepted>> /\ settled' = settled + Len(batch) /\ batch' = <<>>
    BY <1>11 DEF RunFlush, RunAnswer, RunClose, Reply, FlushBatch, chanVars
  <2>2. Handled' = Handled
    BY <2>1 DEF Handled
  <2> QED BY <1>0, <2>1, <2>2
<1>12. CASE UNCHANGED vars
  BY <1>0, <1>12 DEF vars, chanVars, runVars, logVars, Handled
<1> QED
  BY <1>1, <1>2, <1>3, <1>4, <1>5, <1>6, <1>7, <1>8, <1>9, <1>10, <1>11, <1>12
     DEF Next, RunStep

\* Every step keeps calls and results in agreement.
LEMMA PendingStep == TypeOK /\ Pending /\ [Next]_vars => Pending'
<1> SUFFICES ASSUME TypeOK, Pending, [Next]_vars, NEW f \in Flushers
             PROVE  result'[f] = "pending" <=> pc'[f] # "idle"
    BY DEF Pending
<1> USE DEF TypeOK
<1>0. f \in Clients /\ (result[f] = "pending" <=> pc[f] # "idle")
  BY DEF Pending, Clients
<1>1. ASSUME NEW c \in Clients, CheckClosing(c) \/ RLock(c) \/ Admit(c)
      PROVE  result'[f] = "pending" <=> pc'[f] # "idle"
  BY <1>0, <1>1 DEF CheckClosing, RLock, Admit, Return
<1>2. ASSUME NEW p \in Producers, CallEnqueue(p) \/ SendEvent(p)
      PROVE  result'[f] = "pending" <=> pc'[f] # "idle"
  <2>1. pc'[f] = pc[f] /\ result' = result
    BY <1>0, <1>2 DEF CallEnqueue, SendEvent, Return, Clients
  <2> QED BY <1>0, <2>1
<1>3. ASSUME NEW g \in Flushers,
             CallFlush(g) \/ SendBarrier(g) \/ TakeReply(g) \/ CancelFlush(g)
      PROVE  result'[f] = "pending" <=> pc'[f] # "idle"
  <2>1. CASE g # f
    <3>1. pc'[f] = pc[f] /\ result'[f] = result[f]
      BY <1>0, <1>3, <2>1 DEF CallFlush, SendBarrier, TakeReply, CancelFlush, Return, Clients
    <3> QED BY <1>0, <3>1
  <2>2. CASE g = f /\ (CallFlush(f) \/ SendBarrier(f))
    <3>1. pc'[f] \in {"check", "wait"} /\ result'[f] = "pending"
      BY <1>0, <2>2 DEF CallFlush, SendBarrier
    <3> QED BY <3>1
  <2>3. CASE g = f /\ (TakeReply(f) \/ CancelFlush(f))
    <3>1. pc'[f] = "idle" /\ result'[f] \in {"ok", "err", "cancelled"}
      BY <1>0, <2>3 DEF TakeReply, CancelFlush, Return
    <3> QED BY <3>1
  <2> QED BY <1>3, <2>1, <2>2, <2>3
<1>4. ASSUME UNCHANGED <<pc, result>> PROVE result'[f] = "pending" <=> pc'[f] # "idle"
  BY <1>0, <1>4
<1>5. ASSUME NEW k \in Closers, Close(k) \/ CloseReturn(k) PROVE UNCHANGED <<pc, result>>
  BY <1>5 DEF Close, CloseReturn
<1>6. CASE CloseStep \/ RunStep \/ UNCHANGED vars
  <2>1. UNCHANGED <<pc, result>>
    BY <1>6 DEF CloseStep, InitiateLock, CloseChannel, RunStep, RunReceiveEvent,
                RunReceiveBarrier, RunReceiveClosed, RunTick, RunFlush, RunAnswer, RunClose,
                Reply, vars, callVars
  <2> QED BY <1>4, <2>1
<1> QED BY <1>1, <1>2, <1>3, <1>4, <1>5, <1>6 DEF Next

\* Every step of the writer is a step of the event log or leaves it alone.
LEMMA SinkStep ==
  ASSUME TypeOK, Gate, FifoAccounting, Ordered, Barriers, Pending, [Next]_vars
  PROVE  [Sink!Next]_(Sink!vars)
<1> USE Sizes
<1>0. ASSUME UNCHANGED <<accepted, settled, stored, failed, chanClosed, mark, result>>
      PROVE  [Sink!Next]_(Sink!vars)
  BY <1>0 DEF Sink!vars
<1>1. ASSUME NEW c \in Clients, CheckClosing(c) \/ RLock(c) \/ Admit(c)
      PROVE  [Sink!Next]_(Sink!vars)
  <2>1. UNCHANGED <<accepted, settled, stored, failed, chanClosed, mark>>
    BY <1>1 DEF CheckClosing, RLock, Admit, chanVars, logVars
  <2>2. CASE result' = result
    BY <1>0, <2>1, <2>2
  <2>3. CASE result' # result
    <3>1. /\ c \in Flushers /\ result[c] = "pending"
          /\ result' = [result EXCEPT ![c] = "refused"]
      BY <1>1, <2>3 DEF CheckClosing, RLock, Admit, Return, Pending
    <3>2. Sink!Answer(c)
      BY <2>1, <3>1 DEF Sink!Answer
    <3> QED BY <3>1, <3>2 DEF Sink!Next
  <2> QED BY <2>2, <2>3
<1>2. ASSUME NEW p \in Producers, CallEnqueue(p) PROVE [Sink!Next]_(Sink!vars)
  BY <1>0, <1>2 DEF CallEnqueue, chanVars, logVars
<1>3. ASSUME NEW p \in Producers, SendEvent(p) PROVE [Sink!Next]_(Sink!vars)
  <2>1. /\ UNCHANGED <<settled, stored, failed, chanClosed, mark, result>>
        /\ ~chanClosed
    BY <1>3 DEF SendEvent, Return, logVars, Gate, NoSendOnClosed, Clients
  <2>2. CASE accepted' = accepted
    BY <1>0, <2>1, <2>2
  <2>3. CASE accepted' = accepted + 1
    BY <2>1, <2>3 DEF Sink!Accept, Sink!Next
  <2> QED BY <1>3, <2>2, <2>3 DEF SendEvent
<1>4. ASSUME NEW f \in Flushers, CallFlush(f) PROVE [Sink!Next]_(Sink!vars)
  <2>1. /\ UNCHANGED <<accepted, settled, stored, failed, chanClosed>>
        /\ result[f] # "pending"
    BY <1>4 DEF CallFlush, chanVars, logVars, Pending
  <2>2. Sink!Ask(f)
    BY <1>4, <2>1 DEF CallFlush, Sink!Ask
  <2> QED BY <2>2 DEF Sink!Next
<1>5. ASSUME NEW f \in Flushers, SendBarrier(f) PROVE [Sink!Next]_(Sink!vars)
  BY <1>0, <1>5 DEF SendBarrier, logVars
<1>6. ASSUME NEW f \in Flushers, TakeReply(f) PROVE [Sink!Next]_(Sink!vars)
  <2>1. /\ UNCHANGED <<accepted, settled, stored, failed, chanClosed, mark>>
        /\ result[f] = "pending" /\ reply[f] \in {"ok", "err"}
        /\ result' = [result EXCEPT ![f] = reply[f]]
    BY <1>6 DEF TakeReply, Return, chanVars, logVars, Pending, TypeOK
  <2>2. mark[f] <= settled
    BY <2>1 DEF Barriers, BarrierOf
  <2>3. Sink!Answer(f)
    BY <2>1, <2>2 DEF Sink!Answer
  <2> QED BY <2>3 DEF Sink!Next
<1>7. ASSUME NEW f \in Flushers, CancelFlush(f) PROVE [Sink!Next]_(Sink!vars)
  <2>1. /\ UNCHANGED <<accepted, settled, stored, failed, chanClosed, mark>>
        /\ result[f] = "pending" /\ result' = [result EXCEPT ![f] = "cancelled"]
    BY <1>7 DEF CancelFlush, Return, logVars, Pending
  <2>2. Sink!Answer(f)
    BY <2>1 DEF Sink!Answer
  <2> QED BY <2>2 DEF Sink!Next
<1>8. ASSUME NEW k \in Closers, Close(k) \/ CloseReturn(k) PROVE [Sink!Next]_(Sink!vars)
  BY <1>0, <1>8 DEF Close, CloseReturn, chanVars, logVars
<1>9. CASE InitiateLock
  BY <1>0, <1>9 DEF InitiateLock, chanVars, callVars, logVars
<1>10. CASE CloseChannel
  BY <1>10 DEF CloseChannel, callVars, logVars, Sink!Seal, Sink!Next
<1>11. CASE RunReceiveEvent \/ RunReceiveBarrier \/ RunReceiveClosed \/ RunTick
  BY <1>0, <1>11 DEF RunReceiveEvent, RunReceiveBarrier, RunReceiveClosed, RunTick,
                     chanVars, callVars, logVars
<1>12. ASSUME NEW o \in Outcomes, RunFlush(o) \/ RunAnswer(o) \/ RunClose(o)
       PROVE  [Sink!Next]_(Sink!vars)
  <2>1. UNCHANGED <<accepted, chanClosed, mark, result>> /\ FlushBatch(o)
    BY <1>12 DEF RunFlush, RunAnswer, RunClose, Reply, chanVars, callVars
  <2>2. Items(batch) = settled + 1 .. Handled
    BY BatchItems DEF Handled
  <2>3. CASE Len(batch) = 0
    <3>1. Items(batch) = {} /\ settled' = settled
      BY <2>1, <2>2, <2>3 DEF Handled, FlushBatch
    <3>2. stored' = stored /\ failed' = failed
      BY <2>1, <3>1 DEF FlushBatch
    <3> QED BY <1>0, <2>1, <3>1, <3>2
  <2>4. CASE Len(batch) # 0
    <3>1. Handled \in settled + 1 .. accepted
      BY <2>4 DEF Handled, Ordered
    <3>2. Sink!SettleTo(Handled, o)
      BY <2>1, <2>2 DEF FlushBatch, Handled, Sink!SettleTo
    <3>3. Sink!Settle
      BY <2>1, <3>1, <3>2 DEF Sink!Settle
    <3> QED BY <3>3 DEF Sink!Next
  <2> QED BY <2>3, <2>4
<1>13. CASE UNCHANGED vars
  BY <1>0, <1>13 DEF vars, chanVars, callVars, logVars
<1> QED
  BY <1>1, <1>2, <1>3, <1>4, <1>5, <1>6, <1>7, <1>8, <1>9, <1>10, <1>11, <1>12, <1>13
     DEF Next, CloseStep, RunStep

\* The writer implements the event log the rest of the sampler relies on:
\* its locks, channel, batches and barriers never show a caller a state or a
\* step the log does not allow.
THEOREM WriterImplementsSink == Spec => Sink!SafeSpec
<1>1. Init => Ordered /\ Pending
  BY DEF Init, Ordered, Handled, Pending, Clients
<1>2. Init => Sink!Init
  BY DEF Init, Sink!Init
<1> QED
  BY <1>1, <1>2, OrderedStep, PendingStep, SinkStep, WriterTypes, WriterFifo, GateAlways,
     BarriersAlways, PTL DEF Spec, Sink!SafeSpec
=============================================================================
