------------------------------- MODULE Dialer -------------------------------
(***************************************************************************)
(* Building a dialer from a proxy URL and dialing one connection through   *)
(* an HTTP or HTTPS proxy (internal/proxydial).  The caller's context can  *)
(* be cancelled at any time; context.AfterFunc then closes the transport   *)
(* connection from a goroutine of its own, which is what interrupts a      *)
(* handshake with a proxy that says nothing.  The SOCKS5 dialer and the    *)
(* operations of net.Conn are external.                                    *)
(***************************************************************************)
EXTENDS GoInt

CONSTANT DialHorizon    \* bound: the clock stops here
ASSUME DialerAssumption == DialHorizon \in Nat /\ Nil \notin {"conn", "error"}

VARIABLES
  proxyURL,     \* [scheme, address]: what parseURL and FromURL look at
  ctxDeadline,  \* of the caller's context, Nil if none
  timeout,      \* of base, 0 if none
  clock,
  ctxDone,      \* the context is cancelled or its deadline passed
  dial,         \* where DialContext stands
  transport,    \* "none", "open", "closed"
  deadline,     \* of the transport connection, Nil if none
  callback,     \* the AfterFunc: "none", "armed", "started", "ran", "stopped"
  dialed        \* Nil, "conn" or "error": what DialContext returned

dialVars == <<proxyURL, ctxDeadline, timeout, clock, ctxDone, dial, transport,
              deadline, callback, dialed>>
request == <<proxyURL, ctxDeadline, timeout>>

DialFresh == clock = 0 /\ ctxDone = FALSE /\ transport = "none" /\ deadline = Nil /\ callback = "none" /\ dialed = Nil
DialInit ==
  /\ proxyURL \in [scheme : {"http", "https", "socks5", "ftp"}, address : {"host:port", "host"}]
  /\ ctxDeadline \in {Nil, 1, 2} /\ timeout \in {0, 1}
  /\ dial = "fromURL" /\ DialFresh
DialIdle ==
  /\ proxyURL = Nil /\ ctxDeadline = Nil /\ timeout = 0 /\ dial = "idle" /\ DialFresh

-----------------------------------------------------------------------------
\* Mutant of ConnectDeadline: only the context's own deadline counts.
ConnectDeadlineOfContext(startedAt) == ctxDeadline
\* connectDeadline: the earlier of the timeout and the context's deadline.
ConnectDeadline(startedAt) ==
  IF timeout > 0 /\ (ctxDeadline = Nil \/ startedAt + timeout < ctxDeadline)
  THEN startedAt + timeout ELSE ctxDeadline

Expired(at) == at # Nil /\ clock >= at

\* parseURL and the switch of FromURL.
FromURL ==
  /\ dial = "fromURL"
  /\ IF proxyURL.address # "host:port" \/ proxyURL.scheme \notin {"socks5", "http", "https"}
     THEN dial' = "done" /\ dialed' = "error"
     ELSE dial' = (IF proxyURL.scheme = "socks5" THEN "socks" ELSE "dial") /\ UNCHANGED dialed
  /\ UNCHANGED <<request, clock, ctxDone, transport, deadline, callback>>

\* golang.org/x/net/proxy: returns an open connection or none.
DialSocks ==
  /\ dial = "socks" /\ dial' = "done"
  /\ \/ dialed' = "conn" /\ transport' = "open" /\ ~ctxDone
     \/ dialed' = "error" /\ UNCHANGED transport
  /\ UNCHANGED <<request, clock, ctxDone, deadline, callback>>

\* The deferred calls run after any failure past the dial, last one first.
FailTo == /\ dial' = "deferStop"
          /\ UNCHANGED <<request, clock, ctxDone, transport, deadline, callback, dialed>>
GoOn(next) == /\ dial' = next
              /\ UNCHANGED <<request, clock, ctxDone, transport, deadline, callback, dialed>>

DialTCP ==
  /\ dial = "dial" /\ ~ctxDone /\ ~Expired(ConnectDeadline(0))
  /\ transport' = "open" /\ dial' = "setDeadline"
  /\ UNCHANGED <<request, clock, ctxDone, deadline, callback, dialed>>
\* refused, timed out or cancelled: there is nothing to close.
DialTCPFails ==
  /\ dial = "dial" /\ dial' = "done" /\ dialed' = "error"
  /\ UNCHANGED <<request, clock, ctxDone, transport, deadline, callback>>

SetDeadline ==
  /\ dial = "setDeadline"
  /\ dial' = "afterFunc" /\ deadline' = ConnectDeadline(0)
  /\ UNCHANGED <<request, clock, ctxDone, transport, callback, dialed>>
SetDeadlineFails == dial = "setDeadline" /\ ConnectDeadline(0) # Nil /\ FailTo

\* On a context that is already done the function starts at once.
AfterFunc ==
  /\ dial = "afterFunc"
  /\ callback' = IF ctxDone THEN "started" ELSE "armed"
  /\ dial' = IF proxyURL.scheme = "https" THEN "handshake" ELSE "write"
  /\ UNCHANGED <<request, clock, ctxDone, transport, deadline, dialed>>

\* HandshakeContext, request.Write and ReadResponse on the connection: the
\* proxy may answer, fail or say nothing at all.
AfterOperation == [handshake |-> "write", write |-> "read", read |-> "status"]
OperationSucceeds ==
  /\ dial \in DOMAIN AfterOperation /\ transport = "open" /\ ~Expired(deadline)
  /\ GoOn(AfterOperation[dial])
OperationFails == dial \in DOMAIN AfterOperation /\ FailTo
OperationInterrupted ==
  /\ dial \in DOMAIN AfterOperation
  /\ transport = "closed" \/ Expired(deadline) \/ (dial = "handshake" /\ ctxDone)
  /\ FailTo

CheckStatus == dial = "status" /\ (GoOn("ctxErr") \/ FailTo)
CheckContext == dial = "ctxErr" /\ IF ctxDone THEN FailTo ELSE GoOn("stop")

\* Mutant of StopCancellation: its result is ignored.
StopCancellationIgnored ==
  /\ dial = "stop" /\ dial' = "clear"
  /\ callback' = IF callback = "armed" THEN "stopped" ELSE callback
  /\ UNCHANGED <<request, clock, ctxDone, transport, deadline, dialed>>
\* False if the context was cancelled since and the function has started.
StopCancellation ==
  /\ dial = "stop"
  /\ IF callback = "armed"
     THEN /\ callback' = "stopped" /\ dial' = "clear"
          /\ UNCHANGED <<request, clock, ctxDone, transport, deadline, dialed>>
     ELSE FailTo

ClearDeadline ==
  /\ dial = "clear" /\ dial' = "done" /\ dialed' = "conn" /\ deadline' = Nil
  /\ UNCHANGED <<request, clock, ctxDone, transport, callback>>
ClearDeadlineFails == dial = "clear" /\ FailTo

\* No effect if it was stopped before.
DeferredStop ==
  /\ dial = "deferStop" /\ dial' = "deferClose"
  /\ callback' = IF callback = "armed" THEN "stopped" ELSE callback
  /\ UNCHANGED <<request, clock, ctxDone, transport, deadline, dialed>>
DeferredClose ==
  /\ dial = "deferClose" /\ dial' = "done" /\ dialed' = "error" /\ transport' = "closed"
  /\ UNCHANGED <<request, clock, ctxDone, deadline, callback>>

-----------------------------------------------------------------------------
(* The context and the clock.                                              *)

Done == /\ ctxDone' = TRUE
        /\ callback' = IF callback = "armed" THEN "started" ELSE callback
Cancel ==
  /\ dial # "idle" /\ ~ctxDone /\ Done
  /\ UNCHANGED <<request, clock, dial, transport, deadline, dialed>>
\* The clock starts with the call of DialContext.
TimePasses ==
  /\ dial \notin {"idle", "fromURL"} /\ clock < DialHorizon /\ clock' = clock + 1
  /\ IF ~ctxDone /\ ctxDeadline # Nil /\ clock' >= ctxDeadline
     THEN Done ELSE UNCHANGED <<ctxDone, callback>>
  /\ UNCHANGED <<request, dial, transport, deadline, dialed>>
\* The function given to AfterFunc closes the transport connection.
CancellationCloses ==
  /\ callback = "started" /\ callback' = "ran" /\ transport' = "closed"
  /\ UNCHANGED <<request, clock, ctxDone, dial, deadline, dialed>>

DialAdvances ==
  \/ FromURL \/ DialSocks \/ SetDeadline \/ AfterFunc \/ OperationInterrupted
  \/ CheckStatus \/ CheckContext \/ StopCancellation \/ ClearDeadline \/ DeferredStop \/ DeferredClose
  \/ (DialTCPFails /\ (ctxDone \/ Expired(ConnectDeadline(0))))
Dialing ==
  \/ DialAdvances \/ DialTCP \/ DialTCPFails \/ SetDeadlineFails \/ OperationSucceeds \/ OperationFails
  \/ ClearDeadlineFails \/ Cancel \/ TimePasses \/ CancellationCloses

\* The caller's goroutine, the goroutine of AfterFunc and the clock go on; that
\* the proxy answers is not counted on.
DialFairness == WF_dialVars(DialAdvances) /\ WF_dialVars(TimePasses) /\ WF_dialVars(CancellationCloses)

-----------------------------------------------------------------------------
(* Properties.                                                             *)

\* A connection DialContext handed to its caller is open, has no deadline and
\* stays so: a cancellation that comes later, or came while the last answer of
\* the proxy was read, never closes it.  And a failed dial leaves no connection open.
DialLeavesConnection ==
  /\ dialed = "conn"  => transport = "open" /\ deadline = Nil /\ callback # "started"
  /\ dialed = "error" => transport # "open"

\* A dial under a timeout or a context with a deadline returns, even if the
\* proxy accepts the connection and then says nothing.
DialReturns == (dial = "dial" /\ (timeout > 0 \/ ctxDeadline # Nil)) ~> (dialed # Nil)
=============================================================================
