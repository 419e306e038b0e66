------------------------------- MODULE Enrich -------------------------------
(***************************************************************************)
(* The enrichment service (internal/enrich/service.go): concurrent Lookups *)
(* of exit addresses by the workers, a Postgres cache with a time to live, *)
(* one reference-counted key per address that serialises its lookups, and  *)
(* a process-wide semaphore around the providers.                          *)
(*                                                                         *)
(* A row of the cache is reduced to its two times; what the providers say  *)
(* is the subject of Reputation.  The clock never runs backwards.  Keys    *)
(* are heap objects: an identity is reused once nothing refers to it.      *)
(***************************************************************************)
EXTENDS Naturals, FiniteSets

CONSTANTS
  Callers,    \* goroutines that call Lookup
  Addrs,      \* unmapped addresses
  Keys,       \* identities of enrichmentKey objects
  NoKey,
  Slots,      \* weight of the process-wide semaphore
  Providers,  \* length of the provider list
  TTL,
  MaxTime     \* bound of the clock

ASSUME EnrichAssumption ==
  /\ IsFiniteSet(Callers) /\ Callers # {} /\ IsFiniteSet(Addrs)
  /\ NoKey \notin Keys /\ IsFiniteSet(Keys) /\ Cardinality(Keys) >= Cardinality(Callers)
  /\ Slots \in Nat \ {0} /\ Providers \in Nat
  /\ TTL \in Nat \ {0} /\ MaxTime \in Nat \ {0}

VARIABLES
  cache,   \* ip_reputation_cache
  clock,
  keys,    \* s.keys: address -> key
  key,     \* key objects: is the token in the channel, and refs
  used,    \* weight taken from the semaphore
  call     \* per caller: where its Lookup is and its locals

vars == <<cache, clock, keys, key, used, call>>

NoRow  == [first |-> 0, refreshed |-> 0]
NoCall == [pc |-> "idle", ip |-> 0, key |-> NoKey, asked |-> 0, at |-> 0]

Fresh(a) == cache[a] # NoRow /\ clock - cache[a].refreshed < TTL

Goto(c, p) == call' = [call EXCEPT ![c].pc = p]

Init ==
  /\ cache = [a \in Addrs |-> NoRow] /\ clock = 1
  /\ keys = [a \in Addrs |-> NoKey]
  /\ key = [k \in Keys |-> [token |-> FALSE, refs |-> 0]]
  /\ used = 0
  /\ call = [c \in Callers |-> NoCall]

-----------------------------------------------------------------------------
Tick ==
  /\ clock < MaxTime
  /\ clock' = clock + 1
  /\ UNCHANGED <<cache, keys, key, used, call>>

Lookup(c, a) ==
  /\ call[c].pc = "idle"
  /\ call' = [call EXCEPT ![c].pc = "read", ![c].ip = a]
  /\ UNCHANGED <<cache, clock, keys, key, used>>

\* The first look at the cache: a fresh row or an error is returned.
ReadCache(c) ==
  /\ call[c].pc = "read"
  /\ \/ ~Fresh(call[c].ip) /\ Goto(c, "enter")
     \/ call' = [call EXCEPT ![c] = NoCall]   \* fresh, or the read failed
  /\ UNCHANGED <<cache, clock, keys, key, used>>

\* acquireKey under keyMu: find or make the key, and count the reference.
EnterKey(c) ==
  /\ call[c].pc = "enter"
  /\ LET a == call[c].ip
     IN \E k \in Keys :
          /\ IF keys[a] # NoKey THEN k = keys[a] /\ key' = [key EXCEPT ![k].refs = @ + 1]
             ELSE /\ key[k].refs = 0 /\ \A b \in Addrs : keys[b] # k
                  /\ key' = [key EXCEPT ![k] = [token |-> TRUE, refs |-> 1]]
          /\ keys' = [keys EXCEPT ![a] = k]
          /\ call' = [call EXCEPT ![c].pc = "token", ![c].key = k]
  /\ UNCHANGED <<cache, clock, used>>

\* Mutant of TakeToken: the token is looked at, not taken.
TakeTokenPeeking(c) ==
  /\ call[c].pc = "token"
  /\ key[call[c].key].token
  /\ Goto(c, "recheck")
  /\ UNCHANGED <<cache, clock, keys, key, used>>

TakeToken(c) ==
  /\ call[c].pc = "token"
  /\ key[call[c].key].token
  /\ key' = [key EXCEPT ![call[c].key].token = FALSE]
  /\ Goto(c, "recheck")
  /\ UNCHANGED <<cache, clock, keys, used>>

\* ctx.Done() while waiting; both cases of the select may be ready.
GiveUpToken(c) ==
  /\ call[c].pc = "token"
  /\ Goto(c, "unref")
  /\ UNCHANGED <<cache, clock, keys, key, used>>

\* Mutant of Recheck: the cache is not read again under the key.
RecheckSkipped(c) ==
  /\ call[c].pc = "recheck"
  /\ Goto(c, "slot")
  /\ UNCHANGED <<cache, clock, keys, key, used>>

\* Mutant of Recheck: a hit returns without the deferred release.
RecheckKeeping(c) ==
  /\ call[c].pc = "recheck"
  /\ IF Fresh(call[c].ip) THEN Goto(c, "unref") ELSE Goto(c, "slot")
  /\ UNCHANGED <<cache, clock, keys, key, used>>

\* The second look, with the token: another caller may have stored the row.
Recheck(c) ==
  /\ call[c].pc = "recheck"
  /\ \/ ~Fresh(call[c].ip) /\ Goto(c, "slot")
     \/ Goto(c, "putToken")                   \* fresh, or the read failed
  /\ UNCHANGED <<cache, clock, keys, key, used>>

AcquireSlot(c) ==
  /\ call[c].pc = "slot"
  /\ used < Slots
  /\ used' = used + 1
  /\ call' = [call EXCEPT ![c].pc = "ask", ![c].asked = 0]
  /\ UNCHANGED <<cache, clock, keys, key>>

GiveUpSlot(c) ==
  /\ call[c].pc = "slot"
  /\ Goto(c, "putToken")
  /\ UNCHANGED <<cache, clock, keys, key, used>>

\* The provider loop: an error of one provider does not end it.
AskProvider(c) ==
  /\ call[c].pc = "ask" /\ call[c].asked < Providers
  /\ call' = [call EXCEPT ![c].asked = @ + 1]
  /\ UNCHANGED <<cache, clock, keys, key, used>>

\* refreshedAt is read before the row is written.
Stamp(c) ==
  /\ call[c].pc = "ask" /\ call[c].asked = Providers
  /\ call' = [call EXCEPT ![c].pc = "save", ![c].at = clock]
  /\ UNCHANGED <<cache, clock, keys, key, used>>

\* INSERT ... ON CONFLICT DO UPDATE, which leaves first_seen alone.
Upsert(a, t) ==
  cache' = [cache EXCEPT ![a] = [first |-> IF @ = NoRow THEN t ELSE @.first, refreshed |-> t]]

\* SaveReputation; the write may fail, or be committed and reported failed.
SaveReputation(c) ==
  /\ call[c].pc = "save"
  /\ Upsert(call[c].ip, call[c].at) \/ UNCHANGED cache
  /\ Goto(c, "putSlot")
  /\ UNCHANGED <<clock, keys, key, used>>

\* The deferred releases run in reverse order: the slot, then the key.
ReleaseSlot(c) ==
  /\ call[c].pc = "putSlot"
  /\ used' = used - 1
  /\ Goto(c, "putToken")
  /\ UNCHANGED <<cache, clock, keys, key>>

\* A send on a channel of capacity one.
PutToken(c) ==
  /\ call[c].pc = "putToken"
  /\ ~key[call[c].key].token
  /\ key' = [key EXCEPT ![call[c].key].token = TRUE]
  /\ Goto(c, "unref")
  /\ UNCHANGED <<cache, clock, keys, used>>

\* releaseKeyReference under keyMu: the last reference removes the entry.
ReleaseKeyReference(c) ==
  LET a == call[c].ip
      k == call[c].key
  IN /\ call[c].pc = "unref"
     /\ key' = [key EXCEPT ![k] = IF @.refs = 1 THEN [token |-> FALSE, refs |-> 0]
                                                ELSE [token |-> @.token, refs |-> @.refs - 1]]
     /\ keys' = IF key[k].refs = 1 /\ keys[a] = k THEN [keys EXCEPT ![a] = NoKey] ELSE keys
     /\ call' = [call EXCEPT ![c] = NoCall]
     /\ UNCHANGED <<cache, clock, used>>

-----------------------------------------------------------------------------
Step(c) ==
  \/ ReadCache(c) \/ EnterKey(c) \/ TakeToken(c) \/ GiveUpToken(c) \/ Recheck(c)
  \/ AcquireSlot(c) \/ GiveUpSlot(c) \/ AskProvider(c) \/ Stamp(c) \/ SaveReputation(c)
  \/ ReleaseSlot(c) \/ PutToken(c) \/ ReleaseKeyReference(c)

Next ==
  \/ Tick
  \/ \E c \in Callers : Step(c) \/ \E a \in Addrs : Lookup(c, a)

Spec == Init /\ [][Next]_vars

\* A goroutine keeps running, and a caller that waits for a token or for the
\* first-come-first-served semaphore is served although its context never
\* ends: giving up is not something fairness may count on.
Persist(c) ==
  \/ ReadCache(c) \/ EnterKey(c) \/ Recheck(c) \/ AskProvider(c) \/ Stamp(c)
  \/ SaveReputation(c) \/ ReleaseSlot(c) \/ PutToken(c) \/ ReleaseKeyReference(c)
Fairness == \A c \in Callers :
  WF_vars(Persist(c)) /\ SF_vars(TakeToken(c)) /\ SF_vars(AcquireSlot(c))

FairSpec == Spec /\ Fairness
-----------------------------------------------------------------------------
(* Properties.                                                             *)

Pcs == {"idle", "read", "enter", "token", "recheck", "slot", "ask", "save", "putSlot",
        "putToken", "unref"}
Refers(c)   == call[c].pc \in {"token", "recheck", "slot", "ask", "save", "putSlot", "putToken", "unref"}
HasToken(c) == call[c].pc \in {"recheck", "slot", "ask", "save", "putSlot", "putToken"}
HasSlot(c)  == call[c].pc \in {"ask", "save", "putSlot"}
Asking(c)   == call[c].pc \in {"recheck", "slot", "ask", "save"}

TypeOK ==
  /\ cache \in [Addrs -> [first : 0 .. MaxTime, refreshed : 0 .. MaxTime]]
  /\ clock \in 1 .. MaxTime
  /\ keys \in [Addrs -> Keys \cup {NoKey}]
  /\ key \in [Keys -> [token : BOOLEAN, refs : 0 .. Cardinality(Callers)]]
  /\ used \in 0 .. Slots
  /\ call \in [Callers -> [pc : Pcs, ip : Addrs \cup {0}, key : Keys \cup {NoKey},
                           asked : 0 .. Providers, at : 0 .. MaxTime]]

\* The key of an address stays in the map as long as anyone refers to it, and
\* no longer: all callers that wait for an address wait for one key, the key
\* is forgotten with its last reference, and its token is either in the
\* channel or with exactly one caller, so that putting it back never blocks.
KeyAccounting ==
  /\ \A c \in Callers : Refers(c) => keys[call[c].ip] = call[c].key
  /\ \A a \in Addrs : keys[a] # NoKey =>
       /\ key[keys[a]].refs = Cardinality({c \in Callers : Refers(c) /\ call[c].ip = a})
       /\ key[keys[a]].refs > 0
       /\ key[keys[a]].token <=> \A c \in Callers : call[c].ip = a => ~HasToken(c)

\* At most one caller at a time is between its second look at the cache and
\* the row it stores, however many workers saw the address: its decision to
\* ask the providers is not made stale by another caller.
OneLookupPerAddress ==
  \A c, d \in Callers : Asking(c) /\ Asking(d) /\ call[c].ip = call[d].ip => c = d

\* What holds between any two steps, however the callers interleave, fail and
\* give up (enrich/service.go: keyMu, the key's channel and the semaphore).
LookupsConsistent == TypeOK /\ KeyAccounting /\ OneLookupPerAddress

\* Every Lookup returns, although callers wait for each other's token and for
\* the shared slots, and although any of them may fail or give up.
LookupsReturn == \A c \in Callers : call[c].pc # "idle" ~> call[c].pc = "idle"

\* The service implements the cache it promises.
Promise == INSTANCE ReputationCache WITH
  refreshing <- {call[c].ip : c \in {d \in Callers : HasSlot(d)}}
RefinesPromise == Promise!Spec
=============================================================================
