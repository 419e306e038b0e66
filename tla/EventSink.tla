----------------------------- MODULE EventSink -----------------------------
(***************************************************************************)
(* What the sampler relies on when it talks to the ClickHouse writer       *)
(* (the EventSink interface: Enqueue and Flush).  Accepted events form a   *)
(* log; the events are their positions in it.  The log settles from the    *)
(* front: a run of events is inserted, or lost, or inserted although the   *)
(* writer was told otherwise.  A flush is answered only when everything    *)
(* accepted before it was asked has settled, unless it is given up.        *)
(* No channel, no batch, no lock: those belong to ChWriter.                *)
(***************************************************************************)
EXTENDS Naturals

CONSTANTS Flushers,   \* callers of Flush
          Outcomes    \* what a batch insert may come to

VARIABLES accepted,   \* number of events accepted so far
          settled,    \* events 1..settled are no longer in memory
          stored,     \* events inserted in ClickHouse
          failed,     \* events whose insert was reported as failed
          sealed,     \* no event is accepted any more
          asked,      \* per flusher: the value of accepted when it called
          answer      \* per flusher: the state of its last call

vars == <<accepted, settled, stored, failed, sealed, asked, answer>>

Init ==
  /\ accepted = 0 /\ settled = 0
  /\ stored = {} /\ failed = {}
  /\ sealed = FALSE
  /\ asked = [f \in Flushers |-> 0]
  /\ answer = [f \in Flushers |-> "none"]

Accept ==
  /\ ~sealed
  /\ accepted' = accepted + 1
  /\ UNCHANGED <<settled, stored, failed, sealed, asked, answer>>

\* The next n events leave memory together, with one outcome.
SettleTo(n, o) ==
  /\ settled' = n
  /\ stored' = IF o = "failed" THEN stored ELSE stored \cup (settled + 1 .. n)
  /\ failed' = IF o = "sent" THEN failed ELSE failed \cup (settled + 1 .. n)
  /\ UNCHANGED <<accepted, sealed>>

Settle ==
  /\ \E n \in settled + 1 .. accepted, o \in Outcomes : SettleTo(n, o)
  /\ UNCHANGED <<asked, answer>>

Ask(f) ==
  /\ answer[f] # "pending"
  /\ asked' = [asked EXCEPT ![f] = accepted]
  /\ answer' = [answer EXCEPT ![f] = "pending"]
  /\ UNCHANGED <<accepted, settled, stored, failed, sealed>>

\* "ok" and "err" are the two answers of a barrier that was reached.
Answer(f) ==
  /\ answer[f] = "pending"
  /\ \/ /\ settled >= asked[f]
        /\ \E a \in {"ok", "err"} : answer' = [answer EXCEPT ![f] = a]
     \/ \E a \in {"refused", "cancelled"} : answer' = [answer EXCEPT ![f] = a]
  /\ UNCHANGED <<accepted, settled, stored, failed, sealed, asked>>

Seal ==
  /\ sealed' = TRUE
  /\ UNCHANGED <<accepted, settled, stored, failed, asked, answer>>

Next ==
  \/ Accept \/ Settle \/ Seal
  \/ \E f \in Flushers : Ask(f) \/ Answer(f)

\* Every accepted event settles and every flush comes back.
Fairness == WF_vars(Settle) /\ \A f \in Flushers : WF_vars(Answer(f))

SafeSpec == Init /\ [][Next]_vars
Spec == SafeSpec /\ Fairness
=============================================================================
