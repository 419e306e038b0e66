-------------------------- MODULE ReputationCache --------------------------
(***************************************************************************)
(* What the enrichment service promises about the reputation cache,        *)
(* without goroutines, keys or semaphores: an address is refreshed only    *)
(* when its row is missing or at least TTL old, by one refresh at a time,  *)
(* and at most Slots refreshes run in the whole process.  Enrich is shown  *)
(* to implement it.                                                        *)
(***************************************************************************)
EXTENDS Naturals, FiniteSets

CONSTANTS Addrs, Slots, TTL, MaxTime

VARIABLES cache,       \* per address: no row, or when it was first seen and last refreshed
          clock,
          refreshing   \* addresses whose providers are being asked

NoRow == [first |-> 0, refreshed |-> 0]

Fresh(a) == cache[a] # NoRow /\ clock - cache[a].refreshed < TTL

Init == cache = [a \in Addrs |-> NoRow] /\ clock = 1 /\ refreshing = {}

Tick == clock < MaxTime /\ clock' = clock + 1 /\ UNCHANGED <<cache, refreshing>>

Begin(a) ==
  /\ a \notin refreshing /\ ~Fresh(a) /\ Cardinality(refreshing) < Slots
  /\ refreshing' = refreshing \cup {a}
  /\ UNCHANGED <<cache, clock>>

\* The refresh is stored while it runs, with a time not after the clock; an
\* address that has a row keeps the time it was first seen.
Store(a) ==
  /\ a \in refreshing /\ ~Fresh(a)
  /\ \E t \in 1 .. clock :
       /\ cache[a] # NoRow => t >= cache[a].refreshed + TTL
       /\ cache' = [cache EXCEPT ![a] = [first |-> IF @ = NoRow THEN t ELSE @.first, refreshed |-> t]]
  /\ UNCHANGED <<clock, refreshing>>

End(a) ==
  /\ a \in refreshing
  /\ refreshing' = refreshing \ {a}
  /\ UNCHANGED <<cache, clock>>

Next == Tick \/ \E a \in Addrs : Begin(a) \/ Store(a) \/ End(a)

Spec == Init /\ [][Next]_<<cache, clock, refreshing>>
=============================================================================
