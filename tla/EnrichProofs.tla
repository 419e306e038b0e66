---------------------------- MODULE EnrichProofs ----------------------------
(***************************************************************************)
(* Proofs about Enrich, for every set of callers and addresses, number of  *)
(* slots and providers, time to live and bound of the clock.               *)
(***************************************************************************)
EXTENDS Enrich, FiniteSetTheorems, TLAPS

Referring(a) == {c \in Callers : Refers(c) /\ call[c].ip = a}
Holders      == {c \in Callers : HasSlot(c)}

\* A call under way has an address and, from acquireKey on, a key; no two
\* addresses share a key.
Placed ==
  /\ \A c \in Callers : call[c].pc # "idle" => call[c].ip \in Addrs
  /\ \A c \in Callers : Refers(c) => call[c].key \in Keys
  /\ \A a, b \in Addrs : keys[a] # NoKey /\ keys[a] = keys[b] => a = b

\* The token of a key is with one caller at most.
TokenExclusive ==
  \A c, d \in Callers : HasToken(c) /\ HasToken(d) /\ call[c].ip = call[d].ip => c = d

SlotsCounted == used = Cardinality(Holders)

\* The decision to ask the providers stays right until the row is stored.
Decided ==
  \A c \in Callers :
    /\ call[c].pc \in {"slot", "ask", "save"} => ~Fresh(call[c].ip)
    /\ call[c].pc = "save" =>
         /\ call[c].at \in 1 .. clock
         /\ cache[call[c].ip] # NoRow => call[c].at >= cache[call[c].ip].refreshed + TTL

IInv == TypeOK /\ KeyAccounting /\ Placed /\ TokenExclusive /\ SlotsCounted /\ Decided

CallType == [pc : Pcs, ip : Addrs \cup {0}, key : Keys \cup {NoKey},
             asked : 0 .. Providers, at : 0 .. MaxTime]

-----------------------------------------------------------------------------
\* The sets that are counted are finite, and their sizes within bounds.
LEMMA Counting ==
  /\ \A a : IsFiniteSet(Referring(a)) /\ Cardinality(Referring(a)) \in 0 .. Cardinality(Callers)
  /\ IsFiniteSet(Holders) /\ Cardinality(Holders) \in Nat
  /\ Cardinality(Callers) \in Nat
<1>1. ASSUME NEW T \in SUBSET Callers
      PROVE  IsFiniteSet(T) /\ Cardinality(T) \in 0 .. Cardinality(Callers) /\ Cardinality(Callers) \in Nat
  <2>1. IsFiniteSet(Callers)
    BY EnrichAssumption
  <2>2. IsFiniteSet(T) /\ Cardinality(T) <= Cardinality(Callers)
    BY <2>1, FS_Subset
  <2> QED
    BY <2>1, <2>2, FS_CardinalityType
<1>2. \A a : Referring(a) \in SUBSET Callers
  BY DEF Referring
<1>3. Holders \in SUBSET Callers
  BY DEF Holders
<1> QED
  BY <1>1, <1>2, <1>3

\* The lemma in the next state.
LEMMA CountingNext ==
  /\ \A a : IsFiniteSet(Referring(a)') /\ Cardinality(Referring(a)') \in 0 .. Cardinality(Callers)
  /\ IsFiniteSet(Holders') /\ Cardinality(Holders') \in Nat
<1>1. ASSUME NEW T \in SUBSET Callers
      PROVE  IsFiniteSet(T) /\ Cardinality(T) \in 0 .. Cardinality(Callers)
  <2>1. IsFiniteSet(Callers)
    BY EnrichAssumption
  <2>2. IsFiniteSet(T) /\ Cardinality(T) <= Cardinality(Callers)
    BY <2>1, FS_Subset
  <2> QED
    BY <2>1, <2>2, FS_CardinalityType
<1>2. \A a : Referring(a)' \in SUBSET Callers
  BY DEF Referring
<1>3. Holders' \in SUBSET Callers
  BY DEF Holders
<1> QED
  BY <1>1, <1>2, <1>3

\* Initially no call is under way.
LEMMA InitIInv == Init => IInv
<1> SUFFICES ASSUME Init PROVE IInv
  OBVIOUS
<1>1. TypeOK
  <2>1. Cardinality(Callers) \in Nat
    BY Counting
  <2> QED
    BY <2>1, EnrichAssumption DEF Init, TypeOK, NoRow, NoCall, Pcs
<1>2. \A c \in Callers : call[c].pc = "idle"
  BY DEF Init, NoCall
<1>3. KeyAccounting
  BY <1>2 DEF KeyAccounting, Refers, Init
<1>4. Placed
  BY <1>2 DEF Placed, Init, Refers
<1>5. TokenExclusive
  BY <1>2 DEF TokenExclusive, HasToken
<1>6. SlotsCounted
  <2>1. Holders = {}
    BY <1>2 DEF Holders, HasSlot
  <2> QED
    BY <2>1, FS_EmptySet DEF SlotsCounted, Init
<1>7. Decided
  BY <1>2 DEF Decided
<1> QED
  BY <1>1, <1>3, <1>4, <1>5, <1>6, <1>7 DEF IInv

-----------------------------------------------------------------------------
(* What a step does to the record of its caller and to the key objects.    *)

Becomes(c, p, a, k, n, t) ==
  /\ call' \in [Callers -> CallType]
  /\ call'[c].pc = p /\ call'[c].ip = a /\ call'[c].key = k /\ call'[c].asked = n /\ call'[c].at = t
  /\ \A d \in Callers : d # c => call'[d] = call[d]

\* Only the program counter moves.
Moves(c, p) == Becomes(c, p, call[c].ip, call[c].key, call[c].asked, call[c].at)

KeyBecomes(k, tk, n) ==
  /\ DOMAIN key' = Keys /\ key'[k] = [token |-> tk, refs |-> n]
  /\ \A j \in Keys : j # k => key'[j] = key[j]

\* Goto moves the program counter and nothing else.
LEMMA GotoMoves ==
  ASSUME TypeOK, NEW c \in Callers, NEW p \in Pcs, Goto(c, p)
  PROVE  Moves(c, p)
<1>1. call \in [Callers -> CallType] /\ call' = [call EXCEPT ![c].pc = p]
  BY DEF TypeOK, CallType, Goto
<1> QED
  BY <1>1 DEF CallType, Moves, Becomes

\* A returned call is forgotten.
LEMMA ForgetBecomes ==
  ASSUME TypeOK, NEW c \in Callers, call' = [call EXCEPT ![c] = NoCall]
  PROVE  Becomes(c, "idle", 0, NoKey, 0, 0)
<1>1. call \in [Callers -> CallType]
  BY DEF TypeOK, CallType
<1>2. NoCall \in CallType
  BY EnrichAssumption DEF NoCall, CallType, Pcs
<1> QED
  BY <1>1, <1>2 DEF Becomes, NoCall

\* The steps that set a second local as well.
LEMMA TwoFields ==
  ASSUME TypeOK, NEW c \in Callers, NEW p \in Pcs
  PROVE  /\ \A a \in Addrs : call' = [call EXCEPT ![c].pc = p, ![c].ip = a] =>
              Becomes(c, p, a, call[c].key, call[c].asked, call[c].at)
         /\ \A k \in Keys : call' = [call EXCEPT ![c].pc = p, ![c].key = k] =>
              Becomes(c, p, call[c].ip, k, call[c].asked, call[c].at)
         /\ \A n \in 0 .. Providers : call' = [call EXCEPT ![c].pc = p, ![c].asked = n] =>
              Becomes(c, p, call[c].ip, call[c].key, n, call[c].at)
         /\ \A t \in 0 .. MaxTime : call' = [call EXCEPT ![c].pc = p, ![c].at = t] =>
              Becomes(c, p, call[c].ip, call[c].key, call[c].asked, t)
<1> DEFINE f == [call EXCEPT ![c].pc = p]
<1>1. call \in [Callers -> CallType]
  BY DEF TypeOK, CallType
<1>2. /\ f \in [Callers -> CallType] /\ f[c].pc = p /\ f[c].ip = call[c].ip /\ f[c].key = call[c].key
      /\ f[c].asked = call[c].asked /\ f[c].at = call[c].at
      /\ \A d \in Callers : d # c => f[d] = call[d]
  BY <1>1 DEF CallType
<1> HIDE DEF f
<1>3. ASSUME NEW a \in Addrs, call' = [f EXCEPT ![c].ip = a]
      PROVE  Becomes(c, p, a, call[c].key, call[c].asked, call[c].at)
  BY <1>2, <1>3 DEF CallType, Becomes
<1>4. ASSUME NEW k \in Keys, call' = [f EXCEPT ![c].key = k]
      PROVE  Becomes(c, p, call[c].ip, k, call[c].asked, call[c].at)
  BY <1>2, <1>4 DEF CallType, Becomes
<1>5. ASSUME NEW n \in 0 .. Providers, call' = [f EXCEPT ![c].asked = n]
      PROVE  Becomes(c, p, call[c].ip, call[c].key, n, call[c].at)
  BY <1>2, <1>5 DEF CallType, Becomes
<1>6. ASSUME NEW t \in 0 .. MaxTime, call' = [f EXCEPT ![c].at = t]
      PROVE  Becomes(c, p, call[c].ip, call[c].key, call[c].asked, t)
  BY <1>2, <1>6 DEF CallType, Becomes
<1>7. ASSUME NEW a \in Addrs, call' = [call EXCEPT ![c].pc = p, ![c].ip = a]
      PROVE  call' = [f EXCEPT ![c].ip = a]
  BY <1>1, <1>7 DEF f
<1>8. ASSUME NEW k \in Keys, call' = [call EXCEPT ![c].pc = p, ![c].key = k]
      PROVE  call' = [f EXCEPT ![c].key = k]
  BY <1>1, <1>8 DEF f
<1>9. ASSUME NEW n \in 0 .. Providers, call' = [call EXCEPT ![c].pc = p, ![c].asked = n]
      PROVE  call' = [f EXCEPT ![c].asked = n]
  BY <1>1, <1>9 DEF f
<1>10. ASSUME NEW t \in 0 .. MaxTime, call' = [call EXCEPT ![c].pc = p, ![c].at = t]
       PROVE  call' = [f EXCEPT ![c].at = t]
  BY <1>1, <1>10 DEF f
<1> QED
  BY <1>3, <1>4, <1>5, <1>6, <1>7, <1>8, <1>9, <1>10

\* Every step of a caller, by what it does to the record of the caller.
LEMMA Transitions ==
  ASSUME TypeOK, NEW c \in Callers
  PROVE  /\ \A a \in Addrs : Lookup(c, a) =>
              Becomes(c, "read", a, call[c].key, call[c].asked, call[c].at)
         /\ ReadCache(c) => Moves(c, "enter") \/ Becomes(c, "idle", 0, NoKey, 0, 0)
         /\ TakeToken(c) => Moves(c, "recheck")
         /\ GiveUpToken(c) => Moves(c, "unref")
         /\ Recheck(c) => (Moves(c, "slot") /\ ~Fresh(call[c].ip)) \/ Moves(c, "putToken")
         /\ AcquireSlot(c) => Becomes(c, "ask", call[c].ip, call[c].key, 0, call[c].at)
         /\ GiveUpSlot(c) => Moves(c, "putToken")
         /\ AskProvider(c) => \E n \in 0 .. Providers :
              Becomes(c, "ask", call[c].ip, call[c].key, n, call[c].at)
         /\ Stamp(c) => Becomes(c, "save", call[c].ip, call[c].key, call[c].asked, clock)
         /\ SaveReputation(c) => Moves(c, "putSlot")
         /\ ReleaseSlot(c) => Moves(c, "putToken")
         /\ PutToken(c) => Moves(c, "unref")
         /\ ReleaseKeyReference(c) => Becomes(c, "idle", 0, NoKey, 0, 0)
<1>0. /\ {"read", "enter", "token", "recheck", "slot", "ask", "save", "putSlot", "putToken", "unref"} \subseteq Pcs
      /\ 0 \in 0 .. Providers /\ clock \in 0 .. MaxTime
  BY EnrichAssumption DEF Pcs, TypeOK
<1>1. ASSUME NEW a \in Addrs, Lookup(c, a)
      PROVE  Becomes(c, "read", a, call[c].key, call[c].asked, call[c].at)
  BY <1>0, <1>1, TwoFields DEF Lookup
<1>2. ReadCache(c) => Moves(c, "enter") \/ Becomes(c, "idle", 0, NoKey, 0, 0)
  BY <1>0, GotoMoves, ForgetBecomes DEF ReadCache
<1>3. TakeToken(c) => Moves(c, "recheck")
  BY <1>0, GotoMoves DEF TakeToken
<1>4. GiveUpToken(c) => Moves(c, "unref")
  BY <1>0, GotoMoves DEF GiveUpToken
<1>5. Recheck(c) => (Moves(c, "slot") /\ ~Fresh(call[c].ip)) \/ Moves(c, "putToken")
  BY <1>0, GotoMoves DEF Recheck
<1>6. AcquireSlot(c) => Becomes(c, "ask", call[c].ip, call[c].key, 0, call[c].at)
  BY <1>0, TwoFields DEF AcquireSlot
<1>7. GiveUpSlot(c) => Moves(c, "putToken")
  BY <1>0, GotoMoves DEF GiveUpSlot
<1>8. ASSUME AskProvider(c)
      PROVE  \E n \in 0 .. Providers : Becomes(c, "ask", call[c].ip, call[c].key, n, call[c].at)
  <2>1. call \in [Callers -> CallType]
    BY DEF TypeOK, CallType
  <2>2. call[c].asked + 1 \in 0 .. Providers
    BY <1>8, <2>1, EnrichAssumption DEF CallType, AskProvider
  <2>3. call' = [call EXCEPT ![c].asked = call[c].asked + 1] /\ call[c].pc = "ask"
    BY <1>8, <2>1 DEF AskProvider
  <2>4. Becomes(c, "ask", call[c].ip, call[c].key, call[c].asked + 1, call[c].at)
    BY <2>1, <2>2, <2>3 DEF CallType, Becomes
  <2> QED
    BY <2>2, <2>4
<1>9. Stamp(c) => Becomes(c, "save", call[c].ip, call[c].key, call[c].asked, clock)
  BY <1>0, TwoFields DEF Stamp
<1>10. SaveReputation(c) => Moves(c, "putSlot")
  BY <1>0, GotoMoves DEF SaveReputation
<1>11. ReleaseSlot(c) => Moves(c, "putToken")
  BY <1>0, GotoMoves DEF ReleaseSlot
<1>12. PutToken(c) => Moves(c, "unref")
  BY <1>0, GotoMoves DEF PutToken
<1>13. ReleaseKeyReference(c) => Becomes(c, "idle", 0, NoKey, 0, 0)
  BY ForgetBecomes DEF ReleaseKeyReference
<1> QED
  BY <1>1, <1>2, <1>3, <1>4, <1>5, <1>6, <1>7, <1>8, <1>9, <1>10, <1>11, <1>12, <1>13

\* The steps that change a key object.
LEMMA KeyTransitions ==
  ASSUME TypeOK, NEW c \in Callers, call[c].key \in Keys
  PROVE  /\ TakeToken(c) => KeyBecomes(call[c].key, FALSE, key[call[c].key].refs)
         /\ PutToken(c)  => KeyBecomes(call[c].key, TRUE, key[call[c].key].refs)
         /\ ReleaseKeyReference(c) =>
              IF key[call[c].key].refs = 1 THEN KeyBecomes(call[c].key, FALSE, 0)
              ELSE KeyBecomes(call[c].key, key[call[c].key].token, key[call[c].key].refs - 1)
<1> DEFINE KeyType == [token : BOOLEAN, refs : 0 .. Cardinality(Callers)]
<1>1. key \in [Keys -> KeyType]
  BY DEF TypeOK
<1>2. TakeToken(c) => KeyBecomes(call[c].key, FALSE, key[call[c].key].refs)
  <2>1. TakeToken(c) => key' = [key EXCEPT ![call[c].key].token = FALSE]
    BY DEF TakeToken
  <2> QED
    BY <1>1, <2>1 DEF KeyBecomes
<1>3. PutToken(c) => KeyBecomes(call[c].key, TRUE, key[call[c].key].refs)
  <2>1. PutToken(c) => key' = [key EXCEPT ![call[c].key].token = TRUE]
    BY DEF PutToken
  <2> QED
    BY <1>1, <2>1 DEF KeyBecomes
<1>4. ASSUME ReleaseKeyReference(c)
      PROVE  IF key[call[c].key].refs = 1 THEN KeyBecomes(call[c].key, FALSE, 0)
             ELSE KeyBecomes(call[c].key, key[call[c].key].token, key[call[c].key].refs - 1)
  <2>1. key' = [key EXCEPT ![call[c].key] = IF key[call[c].key].refs = 1 THEN [token |-> FALSE, refs |-> 0]
                  ELSE [token |-> key[call[c].key].token, refs |-> key[call[c].key].refs - 1]]
    BY <1>1, <1>4 DEF ReleaseKeyReference
  <2> QED
    BY <1>1, <2>1 DEF KeyBecomes
<1> QED
  BY <1>2, <1>3, <1>4

\* EnterKey finds the key of the address or makes one.
LEMMA EnterTransition ==
  ASSUME TypeOK, Placed, NEW c \in Callers, EnterKey(c)
  PROVE  \E k \in Keys :
           /\ Becomes(c, "token", call[c].ip, k, call[c].asked, call[c].at)
           /\ keys' = [keys EXCEPT ![call[c].ip] = k] /\ call[c].ip \in Addrs
           /\ \/ keys[call[c].ip] = k /\ KeyBecomes(k, key[k].token, key[k].refs + 1)
              \/ /\ keys[call[c].ip] = NoKey /\ \A b \in Addrs : keys[b] # k
                 /\ KeyBecomes(k, TRUE, 1)
<1> DEFINE KeyType == [token : BOOLEAN, refs : 0 .. Cardinality(Callers)]
<1>1. key \in [Keys -> KeyType] /\ "token" \in Pcs /\ call[c].ip \in Addrs
  BY DEF TypeOK, Pcs, Placed, EnterKey
<1>2. PICK k \in Keys :
        /\ IF keys[call[c].ip] # NoKey THEN k = keys[call[c].ip] /\ key' = [key EXCEPT ![k].refs = @ + 1]
           ELSE /\ key[k].refs = 0 /\ \A b \in Addrs : keys[b] # k
                /\ key' = [key EXCEPT ![k] = [token |-> TRUE, refs |-> 1]]
        /\ keys' = [keys EXCEPT ![call[c].ip] = k]
        /\ call' = [call EXCEPT ![c].pc = "token", ![c].key = k]
  BY DEF EnterKey
<1>3. Becomes(c, "token", call[c].ip, k, call[c].asked, call[c].at)
  BY <1>1, <1>2, TwoFields
<1>4. CASE keys[call[c].ip] # NoKey
  <2>1. keys[call[c].ip] = k /\ key' = [key EXCEPT ![k].refs = key[k].refs + 1]
    BY <1>1, <1>2, <1>4
  <2>2. KeyBecomes(k, key[k].token, key[k].refs + 1)
    BY <1>1, <2>1 DEF KeyBecomes
  <2> QED
    BY <1>1, <1>2, <1>3, <2>1, <2>2
<1>5. CASE keys[call[c].ip] = NoKey
  <2>1. KeyBecomes(k, TRUE, 1)
    BY <1>1, <1>2, <1>5 DEF KeyBecomes
  <2> QED
    BY <1>1, <1>2, <1>3, <1>5, <2>1
<1> QED
  BY <1>4, <1>5

-----------------------------------------------------------------------------
(* The keys.                                                               *)

KeysInv == KeyAccounting /\ Placed /\ TokenExclusive

\* A step that neither takes nor gives back a reference or a token, of a
\* caller that keeps its address while it refers to a key, disturbs no key.
LEMMA QuietStep ==
  ASSUME TypeOK, KeysInv, NEW c \in Callers,
         UNCHANGED <<keys, key>>,
         \A d \in Callers : d # c => call'[d] = call[d],
         Refers(c)' <=> Refers(c), HasToken(c)' <=> HasToken(c),
         Refers(c) => call'[c].ip = call[c].ip /\ call'[c].key = call[c].key,
         call'[c].pc # "idle" => call'[c].ip \in Addrs
  PROVE  KeysInv'
<1> USE DEF Refers, HasToken
<1>1. \A d \in Callers : /\ Refers(d)' <=> Refers(d)
                         /\ HasToken(d)' <=> HasToken(d)
                         /\ Refers(d) => call'[d].ip = call[d].ip /\ call'[d].key = call[d].key
  BY DEF Refers, HasToken
<1>2. \A d \in Callers : HasToken(d) => Refers(d)
  BY DEF Refers, HasToken
<1>3. \A a : Referring(a)' = Referring(a)
  BY <1>1 DEF Referring
<1>4. Placed'
  BY <1>1 DEF Placed, KeysInv
<1>5. TokenExclusive'
  BY <1>1, <1>2 DEF TokenExclusive, KeysInv
<1>6. ASSUME NEW a \in Addrs, keys'[a] # NoKey
      PROVE  /\ key'[keys'[a]].refs = Cardinality(Referring(a)') /\ key'[keys'[a]].refs > 0
             /\ key'[keys'[a]].token <=> \A d \in Callers : call'[d].ip = a => ~HasToken(d)'
  <2>1. (\A d \in Callers : call'[d].ip = a => ~HasToken(d)') <=> (\A d \in Callers : call[d].ip = a => ~HasToken(d))
    BY <1>1, <1>2
  <2>2. /\ key[keys[a]].refs = Cardinality(Referring(a)) /\ key[keys[a]].refs > 0
        /\ key[keys[a]].token <=> \A d \in Callers : call[d].ip = a => ~HasToken(d)
    BY <1>6 DEF KeysInv, KeyAccounting, Referring
  <2>3. key'[keys'[a]] = key[keys[a]]
    OBVIOUS
  <2> QED
    BY <1>3, <2>1, <2>2, <2>3
<1>7. \A d \in Callers : Refers(d)' => keys'[call'[d].ip] = call'[d].key
  BY <1>1 DEF KeysInv, KeyAccounting
<1>8. KeyAccounting'
  BY <1>6, <1>7 DEF KeyAccounting, Referring
<1> QED
  BY <1>4, <1>5, <1>8 DEF KeysInv

\* Taking the token: it was in the channel, so nobody had it.
LEMMA TakeStep ==
  ASSUME TypeOK, KeysInv, NEW c \in Callers, TakeToken(c)
  PROVE  KeysInv'
<1> USE DEF Refers, HasToken
<1> DEFINE k == call[c].key
           a == call[c].ip
<1>1. /\ Moves(c, "recheck") /\ call[c].pc = "token" /\ key[k].token /\ UNCHANGED keys
      /\ k \in Keys /\ a \in Addrs /\ keys[a] = k /\ k # NoKey
  BY Transitions, EnrichAssumption DEF TakeToken, KeysInv, Placed, KeyAccounting, Refers
<1>2. KeyBecomes(k, FALSE, key[k].refs)
  BY <1>1, KeyTransitions
<1>3. /\ \A d \in Callers : /\ Refers(d)' <=> Refers(d)
                            /\ call'[d].ip = call[d].ip /\ call'[d].key = call[d].key
                            /\ HasToken(d)' <=> HasToken(d) \/ d = c
      /\ ~HasToken(c)
  BY <1>1 DEF Moves, Becomes, Refers, HasToken
<1>4. \A d \in Callers : call[d].ip = a => ~HasToken(d)
  BY <1>1 DEF KeysInv, KeyAccounting
<1>5. Placed'
  BY <1>1, <1>3 DEF Placed, KeysInv, Moves, Becomes
<1>6. TokenExclusive'
  BY <1>3, <1>4 DEF TokenExclusive, KeysInv
<1>7. \A b : Referring(b)' = Referring(b)
  BY <1>3 DEF Referring
<1>8. ASSUME NEW b \in Addrs, keys'[b] # NoKey
      PROVE  /\ key'[keys'[b]].refs = Cardinality(Referring(b)') /\ key'[keys'[b]].refs > 0
             /\ key'[keys'[b]].token <=> \A d \in Callers : call'[d].ip = b => ~HasToken(d)'
  <2>1. keys[b] \in Keys /\ (keys[b] = k => b = a)
    BY <1>1, <1>8 DEF TypeOK, KeysInv, Placed
  <2>2. CASE b = a
    BY <1>1, <1>2, <1>3, <1>7, <2>2 DEF KeysInv, KeyAccounting, KeyBecomes, Referring
  <2>3. CASE b # a
    BY <1>1, <1>2, <1>3, <1>7, <1>8, <2>1, <2>3 DEF KeysInv, KeyAccounting, KeyBecomes, Referring
  <2> QED
    BY <2>2, <2>3
<1>9. \A d \in Callers : Refers(d)' => keys'[call'[d].ip] = call'[d].key
  BY <1>1, <1>3 DEF KeysInv, KeyAccounting
<1> QED
  BY <1>5, <1>6, <1>8, <1>9 DEF KeysInv, KeyAccounting, Referring

\* Putting it back: nobody else has one of that address.
LEMMA PutStep ==
  ASSUME TypeOK, KeysInv, NEW c \in Callers, PutToken(c)
  PROVE  KeysInv'
<1> USE DEF Refers, HasToken
<1> DEFINE k == call[c].key
           a == call[c].ip
<1>1. /\ Moves(c, "unref") /\ call[c].pc = "putToken" /\ UNCHANGED keys
      /\ k \in Keys /\ a \in Addrs /\ keys[a] = k /\ k # NoKey
  <2>1. call[c].pc = "putToken" /\ UNCHANGED keys
    BY DEF PutToken
  <2>2. Moves(c, "unref")
    BY Transitions
  <2> QED
    BY <2>1, <2>2, EnrichAssumption DEF KeysInv, Placed, KeyAccounting
<1>2. KeyBecomes(k, TRUE, key[k].refs)
  BY <1>1, KeyTransitions
<1>3. /\ \A d \in Callers : /\ Refers(d)' <=> Refers(d)
                            /\ call'[d].ip = call[d].ip /\ call'[d].key = call[d].key
                            /\ HasToken(d)' <=> HasToken(d) /\ d # c
      /\ HasToken(c)
  BY <1>1 DEF Moves, Becomes, Refers, HasToken
<1>4. \A d \in Callers : call[d].ip = a /\ d # c => ~HasToken(d)
  BY <1>3 DEF KeysInv, TokenExclusive
<1>5. Placed'
  BY <1>1, <1>3 DEF Placed, KeysInv, Moves, Becomes
<1>6. TokenExclusive'
  BY <1>3 DEF TokenExclusive, KeysInv
<1>7. \A b : Referring(b)' = Referring(b)
  BY <1>3 DEF Referring
<1>8. ASSUME NEW b \in Addrs, keys'[b] # NoKey
      PROVE  /\ key'[keys'[b]].refs = Cardinality(Referring(b)') /\ key'[keys'[b]].refs > 0
             /\ key'[keys'[b]].token <=> \A d \in Callers : call'[d].ip = b => ~HasToken(d)'
  <2>1. keys[b] \in Keys /\ (keys[b] = k => b = a)
    BY <1>1, <1>8 DEF TypeOK, KeysInv, Placed
  <2>2. CASE b = a
    <3>1. key'[keys'[b]].token = TRUE /\ key'[keys'[b]].refs = key[k].refs
      BY <1>1, <1>2, <2>2 DEF KeyBecomes
    <3>2. key[k].refs = Cardinality(Referring(a)) /\ key[k].refs > 0
      BY <1>1 DEF KeysInv, KeyAccounting, Referring
    <3>3. \A d \in Callers : call'[d].ip = b => ~HasToken(d)'
      BY <1>3, <1>4, <2>2
    <3> QED
      BY <1>7, <2>2, <3>1, <3>2, <3>3
  <2>3. CASE b # a
    <3>1. key'[keys'[b]] = key[keys[b]]
      BY <1>1, <1>2, <2>1, <2>3 DEF KeyBecomes
    <3>2. (\A d \in Callers : call'[d].ip = b => ~HasToken(d)') <=> (\A d \in Callers : call[d].ip = b => ~HasToken(d))
      BY <1>3, <2>3
    <3>3. /\ key[keys[b]].refs = Cardinality(Referring(b)) /\ key[keys[b]].refs > 0
          /\ key[keys[b]].token <=> \A d \in Callers : call[d].ip = b => ~HasToken(d)
      BY <1>1, <1>8 DEF KeysInv, KeyAccounting, Referring
    <3> QED
      BY <1>7, <3>1, <3>2, <3>3
  <2> QED
    BY <2>2, <2>3
<1>9. \A d \in Callers : Refers(d)' => keys'[call'[d].ip] = call'[d].key
  BY <1>1, <1>3 DEF KeysInv, KeyAccounting
<1> QED
  BY <1>5, <1>6, <1>8, <1>9 DEF KeysInv, KeyAccounting, Referring

\* A caller enters: it refers to the key that is in the map then.
LEMMA EnterStep ==
  ASSUME TypeOK, KeysInv, NEW c \in Callers, EnterKey(c)
  PROVE  KeysInv'
<1> USE DEF Refers, HasToken
<1> PICK a : a = call[c].ip
  OBVIOUS
<1>0. Placed /\ call[c].pc = "enter"
  BY DEF KeysInv, EnterKey
<1>1. PICK k \in Keys :
        /\ Becomes(c, "token", a, k, call[c].asked, call[c].at)
        /\ keys' = [keys EXCEPT ![a] = k] /\ a \in Addrs
        /\ \/ keys[a] = k /\ KeyBecomes(k, key[k].token, key[k].refs + 1)
           \/ keys[a] = NoKey /\ (\A b \in Addrs : keys[b] # k) /\ KeyBecomes(k, TRUE, 1)
  BY <1>0, EnterTransition
<1>2. /\ keys \in [Addrs -> Keys \cup {NoKey}] /\ k # NoKey
      /\ \A b \in Addrs : b # a => keys'[b] = keys[b] /\ keys[b] # k
      /\ keys'[a] = k
  BY <1>0, <1>1, EnrichAssumption DEF TypeOK, Placed
<1>3. /\ \A d \in Callers : d # c => call'[d] = call[d]
      /\ ~Refers(c) /\ Refers(c)' /\ ~HasToken(c) /\ ~HasToken(c)'
      /\ call'[c].ip = a /\ call'[c].key = k /\ call'[c].pc = "token"
  BY <1>0, <1>1 DEF Becomes
<1>4. Placed'
  BY <1>0, <1>1, <1>2, <1>3 DEF Placed
<1>5. TokenExclusive'
  BY <1>3 DEF TokenExclusive, KeysInv
<1>6. \A d \in Callers : Refers(d)' => keys'[call'[d].ip] = call'[d].key
  <2> SUFFICES ASSUME NEW d \in Callers, Refers(d)', d # c PROVE keys'[call'[d].ip] = call'[d].key
    BY <1>2, <1>3
  <2>1. keys[call[d].ip] = call[d].key /\ call[d].key \in Keys /\ call[d].ip \in Addrs
    BY <1>0, <1>3 DEF KeysInv, KeyAccounting, Placed
  <2>2. CASE call[d].ip = a
    BY <1>1, <1>2, <1>3, <2>1, <2>2, EnrichAssumption
  <2>3. CASE call[d].ip # a
    BY <1>2, <1>3, <2>1, <2>3
  <2> QED
    BY <2>2, <2>3
<1>7. ASSUME NEW b \in Addrs, keys'[b] # NoKey
      PROVE  /\ key'[keys'[b]].refs = Cardinality(Referring(b)') /\ key'[keys'[b]].refs > 0
             /\ key'[keys'[b]].token <=> \A d \in Callers : call'[d].ip = b => ~HasToken(d)'
  <2>1. (\A d \in Callers : call'[d].ip = b => ~HasToken(d)') <=> (\A d \in Callers : call[d].ip = b => ~HasToken(d))
    BY <1>3
  <2>2. CASE b # a
    <3>1. key'[keys'[b]] = key[keys[b]] /\ keys[b] # NoKey
      BY <1>1, <1>2, <1>7, <2>2 DEF KeyBecomes
    <3>2. Referring(b)' = Referring(b)
      BY <1>3, <2>2 DEF Referring
    <3>3. /\ key[keys[b]].refs = Cardinality(Referring(b)) /\ key[keys[b]].refs > 0
          /\ key[keys[b]].token <=> \A d \in Callers : call[d].ip = b => ~HasToken(d)
      BY <3>1 DEF KeysInv, KeyAccounting, Referring
    <3> QED
      BY <2>1, <3>1, <3>2, <3>3
  <2>3. CASE b = a
    <3>1. Referring(a)' = Referring(a) \cup {c} /\ c \notin Referring(a)
      BY <1>3 DEF Referring
    <3>2. Cardinality(Referring(a)') = Cardinality(Referring(a)) + 1 /\ Cardinality(Referring(a)) \in Nat
      <4>1. IsFiniteSet(Referring(a)) /\ Cardinality(Referring(a)) \in Nat
        BY Counting
      <4>2. Cardinality(Referring(a) \cup {c}) = Cardinality(Referring(a)) + 1
        BY <3>1, <4>1, FS_AddElement
      <4> QED
        BY <3>1, <4>1, <4>2
    <3>3. CASE keys[a] = k /\ KeyBecomes(k, key[k].token, key[k].refs + 1)
      <4>1. key'[keys'[b]].token = key[k].token /\ key'[keys'[b]].refs = key[k].refs + 1
        BY <1>2, <2>3, <3>3 DEF KeyBecomes
      <4>2. /\ key[k].refs = Cardinality(Referring(a)) /\ key[k].refs > 0
            /\ key[k].token <=> \A d \in Callers : call[d].ip = a => ~HasToken(d)
        BY <1>1, <1>2, <3>3 DEF KeysInv, KeyAccounting, Referring
      <4>3. key'[keys'[b]].refs = Cardinality(Referring(b)') /\ key'[keys'[b]].refs > 0
        BY <2>3, <3>2, <4>1, <4>2
      <4> QED
        BY <2>1, <2>3, <4>1, <4>2, <4>3
    <3>4. CASE keys[a] = NoKey /\ KeyBecomes(k, TRUE, 1)
      <4>1. key'[keys'[b]].token = TRUE /\ key'[keys'[b]].refs = 1
        BY <1>2, <2>3, <3>4 DEF KeyBecomes
      <4>2. \A d \in Callers : ~(Refers(d) /\ call[d].ip = a)
        BY <3>4, EnrichAssumption DEF KeysInv, KeyAccounting, Placed
      <4>3. Referring(a) = {}
        BY <4>2 DEF Referring
      <4>4. key'[keys'[b]].refs = Cardinality(Referring(b)') /\ key'[keys'[b]].refs > 0
        BY <2>3, <3>2, <4>1, <4>3, FS_EmptySet
      <4>5. \A d \in Callers : call[d].ip = b => ~HasToken(d)
        BY <2>3, <4>2
      <4> QED
        BY <2>1, <4>1, <4>4, <4>5
    <3> QED
      BY <1>1, <3>3, <3>4
  <2> QED
    BY <2>2, <2>3
<1> QED
  BY <1>4, <1>5, <1>6, <1>7 DEF KeysInv, KeyAccounting, Referring

\* A caller leaves: the entry goes with the last reference.
LEMMA ReleaseStep ==
  ASSUME TypeOK, KeysInv, NEW c \in Callers, ReleaseKeyReference(c)
  PROVE  KeysInv'
<1> USE DEF Refers, HasToken
<1> DEFINE k == call[c].key
<1> PICK a : a = call[c].ip
  OBVIOUS
<1>1. /\ call[c].pc = "unref" /\ k \in Keys /\ a \in Addrs /\ keys[a] = k /\ k # NoKey
      /\ keys \in [Addrs -> Keys \cup {NoKey}]
      /\ \A b \in Addrs : b # a => keys[b] # k
  BY EnrichAssumption DEF ReleaseKeyReference, KeysInv, KeyAccounting, Placed, TypeOK
<1>2. Becomes(c, "idle", 0, NoKey, 0, 0)
  BY Transitions
<1>3. /\ \A d \in Callers : d # c => call'[d] = call[d]
      /\ Refers(c) /\ ~Refers(c)' /\ ~HasToken(c) /\ ~HasToken(c)' /\ call'[c].pc = "idle"
  BY <1>1, <1>2 DEF Becomes
<1>4. /\ key[k].refs = Cardinality(Referring(a)) /\ key[k].refs > 0
      /\ key[k].token <=> \A d \in Callers : call[d].ip = a => ~HasToken(d)
  BY <1>1 DEF KeysInv, KeyAccounting, Referring
<1>5. Referring(a)' = Referring(a) \ {c} /\ c \in Referring(a)
  BY <1>3 DEF Referring
<1>6. Cardinality(Referring(a)') = Cardinality(Referring(a)) - 1 /\ Cardinality(Referring(a)) \in Nat
  <2>1. IsFiniteSet(Referring(a)) /\ Cardinality(Referring(a)) \in Nat
    BY Counting
  <2>2. Cardinality(Referring(a) \ {c}) = Cardinality(Referring(a)) - 1
    BY <1>5, <2>1, FS_RemoveElement
  <2> QED
    BY <1>5, <2>1, <2>2
<1>7. keys' = IF key[k].refs = 1 THEN [keys EXCEPT ![a] = NoKey] ELSE keys
  BY <1>1 DEF ReleaseKeyReference
<1>8. \A b \in Addrs : b # a => keys'[b] = keys[b]
  BY <1>1, <1>7
<1>9. Placed'
  BY <1>1, <1>3, <1>7 DEF Placed, KeysInv
<1>10. TokenExclusive'
  BY <1>3 DEF TokenExclusive, KeysInv
<1>11. CASE key[k].refs = 1
  <2>1. Referring(a)' = {}
    BY <1>4, <1>6, <1>11, CountingNext, FS_EmptySet
  <2>2. \A d \in Callers : Refers(d)' => call'[d].ip # a
    BY <2>1 DEF Referring
  <2>3. \A d \in Callers : Refers(d)' => keys'[call'[d].ip] = call'[d].key
    BY <1>3, <1>8, <2>2 DEF KeysInv, KeyAccounting, Placed
  <2>4. KeyBecomes(k, FALSE, 0)
    BY <1>1, <1>11, KeyTransitions
  <2>5. ASSUME NEW b \in Addrs, keys'[b] # NoKey
        PROVE  /\ key'[keys'[b]].refs = Cardinality(Referring(b)') /\ key'[keys'[b]].refs > 0
               /\ key'[keys'[b]].token <=> \A d \in Callers : call'[d].ip = b => ~HasToken(d)'
    <3>1. b # a
      BY <1>1, <1>7, <1>11, <2>5
    <3>2. key'[keys'[b]] = key[keys[b]] /\ keys[b] # NoKey
      BY <1>1, <1>8, <2>4, <2>5, <3>1 DEF KeyBecomes
    <3>3. Referring(b)' = Referring(b)
      BY <1>3, <3>1 DEF Referring
    <3>4. (\A d \in Callers : call'[d].ip = b => ~HasToken(d)') <=> (\A d \in Callers : call[d].ip = b => ~HasToken(d))
      BY <1>3
    <3>5. /\ key[keys[b]].refs = Cardinality(Referring(b)) /\ key[keys[b]].refs > 0
          /\ key[keys[b]].token <=> \A d \in Callers : call[d].ip = b => ~HasToken(d)
      BY <3>2 DEF KeysInv, KeyAccounting, Referring
    <3> QED
      BY <3>2, <3>3, <3>4, <3>5
  <2> QED
    BY <1>9, <1>10, <2>3, <2>5 DEF KeysInv, KeyAccounting, Referring
<1>12. CASE key[k].refs # 1
  <2>1. keys' = keys
    BY <1>7, <1>12
  <2>2. KeyBecomes(k, key[k].token, key[k].refs - 1)
    BY <1>1, <1>12, KeyTransitions
  <2>3. \A d \in Callers : Refers(d)' => keys'[call'[d].ip] = call'[d].key
    BY <1>3, <2>1 DEF KeysInv, KeyAccounting
  <2>4. ASSUME NEW b \in Addrs, keys'[b] # NoKey
        PROVE  /\ key'[keys'[b]].refs = Cardinality(Referring(b)') /\ key'[keys'[b]].refs > 0
               /\ key'[keys'[b]].token <=> \A d \in Callers : call'[d].ip = b => ~HasToken(d)'
    <3>1. (\A d \in Callers : call'[d].ip = b => ~HasToken(d)') <=> (\A d \in Callers : call[d].ip = b => ~HasToken(d))
      BY <1>3
    <3>2. CASE b = a
      <4>1. key'[keys'[b]].token = key[k].token /\ key'[keys'[b]].refs = key[k].refs - 1
        BY <1>1, <2>1, <2>2, <3>2 DEF KeyBecomes
      <4>2. key'[keys'[b]].refs = Cardinality(Referring(b)') /\ key'[keys'[b]].refs > 0
        BY <1>4, <1>6, <1>12, <3>2, <4>1
      <4> QED
        BY <1>4, <3>1, <3>2, <4>1, <4>2
    <3>3. CASE b # a
      <4>1. key'[keys'[b]] = key[keys[b]] /\ keys[b] # NoKey
        BY <1>1, <2>1, <2>2, <2>4, <3>3 DEF KeyBecomes
      <4>2. Referring(b)' = Referring(b)
        BY <1>3, <3>3 DEF Referring
      <4>3. /\ key[keys[b]].refs = Cardinality(Referring(b)) /\ key[keys[b]].refs > 0
            /\ key[keys[b]].token <=> \A d \in Callers : call[d].ip = b => ~HasToken(d)
        BY <4>1 DEF KeysInv, KeyAccounting, Referring
      <4> QED
        BY <3>1, <4>1, <4>2, <4>3
    <3> QED
      BY <3>2, <3>3
  <2> QED
    BY <1>9, <1>10, <2>3, <2>4 DEF KeysInv, KeyAccounting, Referring
<1> QED
  BY <1>11, <1>12

\* Every step of a caller keeps the keys in order.
LEMMA KeysStep == IInv /\ [Next]_vars => KeysInv'
<1> SUFFICES ASSUME IInv, [Next]_vars PROVE KeysInv'
  OBVIOUS
<1>0. TypeOK /\ KeysInv /\ Placed
  BY DEF IInv, KeysInv
<1> USE DEF Refers, HasToken
<1>1. CASE Tick \/ UNCHANGED vars
  <2>1. UNCHANGED <<keys, key, call>>
    BY <1>1 DEF Tick, vars
  <2> QED
    BY <1>0, <2>1 DEF KeysInv, KeyAccounting, Placed, TokenExclusive
<1>2. ASSUME NEW c \in Callers, NEW a \in Addrs, Lookup(c, a) PROVE KeysInv'
  <2>1. call[c].pc = "idle" /\ UNCHANGED <<keys, key>>
    BY <1>2 DEF Lookup
  <2>2. Becomes(c, "read", a, call[c].key, call[c].asked, call[c].at)
    BY <1>0, <1>2, Transitions
  <2> QED
    BY <1>0, <2>1, <2>2, QuietStep DEF Becomes
<1>3. ASSUME NEW c \in Callers, ReadCache(c) PROVE KeysInv'
  <2>1. call[c].pc = "read" /\ UNCHANGED <<keys, key>> /\ call[c].ip \in Addrs
    BY <1>0, <1>3 DEF ReadCache, Placed
  <2>2. Moves(c, "enter") \/ Becomes(c, "idle", 0, NoKey, 0, 0)
    BY <1>0, <1>3, Transitions
  <2> QED
    BY <1>0, <2>1, <2>2, QuietStep DEF Moves, Becomes
<1>4. ASSUME NEW c \in Callers, GiveUpToken(c) PROVE KeysInv'
  <2>1. call[c].pc = "token" /\ UNCHANGED <<keys, key>> /\ call[c].ip \in Addrs
    BY <1>0, <1>4 DEF GiveUpToken, Placed
  <2>2. Moves(c, "unref")
    BY <1>0, <1>4, Transitions
  <2> QED
    BY <1>0, <2>1, <2>2, QuietStep DEF Moves, Becomes
<1>5. ASSUME NEW c \in Callers, Recheck(c) PROVE KeysInv'
  <2>1. call[c].pc = "recheck" /\ UNCHANGED <<keys, key>> /\ call[c].ip \in Addrs
    BY <1>0, <1>5 DEF Recheck, Placed
  <2>2. Moves(c, "slot") \/ Moves(c, "putToken")
    BY <1>0, <1>5, Transitions
  <2> QED
    BY <1>0, <2>1, <2>2, QuietStep DEF Moves, Becomes
<1>6. ASSUME NEW c \in Callers, AcquireSlot(c) PROVE KeysInv'
  <2>1. call[c].pc = "slot" /\ UNCHANGED <<keys, key>> /\ call[c].ip \in Addrs
    BY <1>0, <1>6 DEF AcquireSlot, Placed
  <2>2. Becomes(c, "ask", call[c].ip, call[c].key, 0, call[c].at)
    BY <1>0, <1>6, Transitions
  <2> QED
    BY <1>0, <2>1, <2>2, QuietStep DEF Moves, Becomes
<1>7. ASSUME NEW c \in Callers, GiveUpSlot(c) PROVE KeysInv'
  <2>1. call[c].pc = "slot" /\ UNCHANGED <<keys, key>> /\ call[c].ip \in Addrs
    BY <1>0, <1>7 DEF GiveUpSlot, Placed
  <2>2. Moves(c, "putToken")
    BY <1>0, <1>7, Transitions
  <2> QED
    BY <1>0, <2>1, <2>2, QuietStep DEF Moves, Becomes
<1>8. ASSUME NEW c \in Callers, AskProvider(c) PROVE KeysInv'
  <2>1. call[c].pc = "ask" /\ UNCHANGED <<keys, key>> /\ call[c].ip \in Addrs
    BY <1>0, <1>8 DEF AskProvider, Placed
  <2>2. \E m \in 0 .. Providers : Becomes(c, "ask", call[c].ip, call[c].key, m, call[c].at)
    BY <1>0, <1>8, Transitions
  <2> QED
    BY <1>0, <2>1, <2>2, QuietStep DEF Moves, Becomes
<1>9. ASSUME NEW c \in Callers, Stamp(c) PROVE KeysInv'
  <2>1. call[c].pc = "ask" /\ UNCHANGED <<keys, key>> /\ call[c].ip \in Addrs
    BY <1>0, <1>9 DEF Stamp, Placed
  <2>2. Becomes(c, "save", call[c].ip, call[c].key, call[c].asked, clock)
    BY <1>0, <1>9, Transitions
  <2> QED
    BY <1>0, <2>1, <2>2, QuietStep DEF Moves, Becomes
<1>10. ASSUME NEW c \in Callers, SaveReputation(c) PROVE KeysInv'
  <2>1. call[c].pc = "save" /\ UNCHANGED <<keys, key>> /\ call[c].ip \in Addrs
    BY <1>0, <1>10 DEF SaveReputation, Placed
  <2>2. Moves(c, "putSlot")
    BY <1>0, <1>10, Transitions
  <2> QED
    BY <1>0, <2>1, <2>2, QuietStep DEF Moves, Becomes
<1>11. ASSUME NEW c \in Callers, ReleaseSlot(c) PROVE KeysInv'
  <2>1. call[c].pc = "putSlot" /\ UNCHANGED <<keys, key>> /\ call[c].ip \in Addrs
    BY <1>0, <1>11 DEF ReleaseSlot, Placed
  <2>2. Moves(c, "putToken")
    BY <1>0, <1>11, Transitions
  <2> QED
    BY <1>0, <2>1, <2>2, QuietStep DEF Moves, Becomes
<1>12. ASSUME NEW c \in Callers, TakeToken(c) PROVE KeysInv'
  BY <1>0, <1>12, TakeStep
<1>13. ASSUME NEW c \in Callers, PutToken(c) PROVE KeysInv'
  BY <1>0, <1>13, PutStep
<1>14. ASSUME NEW c \in Callers, EnterKey(c) PROVE KeysInv'
  BY <1>0, <1>14, EnterStep
<1>15. ASSUME NEW c \in Callers, ReleaseKeyReference(c) PROVE KeysInv'
  BY <1>0, <1>15, ReleaseStep
<1> QED
  BY <1>1, <1>2, <1>3, <1>4, <1>5, <1>6, <1>7, <1>8, <1>9, <1>10, <1>11, <1>12, <1>13, <1>14, <1>15 DEF Next, Step

-----------------------------------------------------------------------------
(* The slots.                                                              *)

\* The semaphore's weight is the number of callers between Acquire and Release.
LEMMA SlotsStep == IInv /\ [Next]_vars => SlotsCounted' /\ used' \in 0 .. Slots
<1> SUFFICES ASSUME IInv, [Next]_vars PROVE SlotsCounted' /\ used' \in 0 .. Slots
  OBVIOUS
<1> USE DEF HasSlot
<1>0. TypeOK /\ Placed /\ SlotsCounted /\ used \in 0 .. Slots /\ Slots \in Nat
  BY EnrichAssumption DEF IInv, TypeOK
<1>1. ASSUME UNCHANGED used, \A d \in Callers : HasSlot(d)' <=> HasSlot(d)
      PROVE  SlotsCounted' /\ used' \in 0 .. Slots
  <2>1. Holders' = Holders
    BY <1>1 DEF Holders
  <2> QED
    BY <1>0, <1>1, <2>1 DEF SlotsCounted
<1>2. CASE Tick \/ UNCHANGED vars
  BY <1>1, <1>2 DEF Tick, vars
<1>3. ASSUME NEW c \in Callers, NEW a \in Addrs, Lookup(c, a) PROVE SlotsCounted' /\ used' \in 0 .. Slots
  <2>1. call[c].pc = "idle" /\ UNCHANGED used
    BY <1>3 DEF Lookup
  <2>2. Becomes(c, "read", a, call[c].key, call[c].asked, call[c].at)
    BY <1>0, <1>3, Transitions
  <2> QED
    BY <1>1, <2>1, <2>2 DEF Becomes
<1>4. ASSUME NEW c \in Callers, EnterKey(c) PROVE SlotsCounted' /\ used' \in 0 .. Slots
  <2>1. call[c].pc = "enter" /\ UNCHANGED used
    BY <1>4 DEF EnterKey
  <2>2. \E k \in Keys : Becomes(c, "token", call[c].ip, k, call[c].asked, call[c].at)
    BY <1>0, <1>4, EnterTransition
  <2> QED
    BY <1>1, <2>1, <2>2 DEF Becomes
<1>5. ASSUME NEW c \in Callers, ReadCache(c) PROVE SlotsCounted' /\ used' \in 0 .. Slots
  <2>1. call[c].pc = "read" /\ UNCHANGED used
    BY <1>5 DEF ReadCache
  <2>2. Moves(c, "enter") \/ Becomes(c, "idle", 0, NoKey, 0, 0)
    BY <1>0, <1>5, Transitions
  <2> QED
    BY <1>1, <2>1, <2>2 DEF Moves, Becomes
<1>6. ASSUME NEW c \in Callers, TakeToken(c) PROVE SlotsCounted' /\ used' \in 0 .. Slots
  <2>1. call[c].pc = "token" /\ UNCHANGED used
    BY <1>6 DEF TakeToken
  <2>2. Moves(c, "recheck")
    BY <1>0, <1>6, Transitions
  <2> QED
    BY <1>1, <2>1, <2>2 DEF Moves, Becomes
<1>7. ASSUME NEW c \in Callers, GiveUpToken(c) PROVE SlotsCounted' /\ used' \in 0 .. Slots
  <2>1. call[c].pc = "token" /\ UNCHANGED used
    BY <1>7 DEF GiveUpToken
  <2>2. Moves(c, "unref")
    BY <1>0, <1>7, Transitions
  <2> QED
    BY <1>1, <2>1, <2>2 DEF Moves, Becomes
<1>8. ASSUME NEW c \in Callers, Recheck(c) PROVE SlotsCounted' /\ used' \in 0 .. Slots
  <2>1. call[c].pc = "recheck" /\ UNCHANGED used
    BY <1>8 DEF Recheck
  <2>2. Moves(c, "slot") \/ Moves(c, "putToken")
    BY <1>0, <1>8, Transitions
  <2> QED
    BY <1>1, <2>1, <2>2 DEF Moves, Becomes
<1>9. ASSUME NEW c \in Callers, GiveUpSlot(c) PROVE SlotsCounted' /\ used' \in 0 .. Slots
  <2>1. call[c].pc = "slot" /\ UNCHANGED used
    BY <1>9 DEF GiveUpSlot
  <2>2. Moves(c, "putToken")
    BY <1>0, <1>9, Transitions
  <2> QED
    BY <1>1, <2>1, <2>2 DEF Moves, Becomes
<1>10. ASSUME NEW c \in Callers, AskProvider(c) PROVE SlotsCounted' /\ used' \in 0 .. Slots
  <2>1. call[c].pc = "ask" /\ UNCHANGED used
    BY <1>10 DEF AskProvider
  <2>2. \E m \in 0 .. Providers : Becomes(c, "ask", call[c].ip, call[c].key, m, call[c].at)
    BY <1>0, <1>10, Transitions
  <2> QED
    BY <1>1, <2>1, <2>2 DEF Moves, Becomes
<1>11. ASSUME NEW c \in Callers, Stamp(c) PROVE SlotsCounted' /\ used' \in 0 .. Slots
  <2>1. call[c].pc = "ask" /\ UNCHANGED used
    BY <1>11 DEF Stamp
  <2>2. Becomes(c, "save", call[c].ip, call[c].key, call[c].asked, clock)
    BY <1>0, <1>11, Transitions
  <2> QED
    BY <1>1, <2>1, <2>2 DEF Moves, Becomes
<1>12. ASSUME NEW c \in Callers, SaveReputation(c) PROVE SlotsCounted' /\ used' \in 0 .. Slots
  <2>1. call[c].pc = "save" /\ UNCHANGED used
    BY <1>12 DEF SaveReputation
  <2>2. Moves(c, "putSlot")
    BY <1>0, <1>12, Transitions
  <2> QED
    BY <1>1, <2>1, <2>2 DEF Moves, Becomes
<1>13. ASSUME NEW c \in Callers, PutToken(c) PROVE SlotsCounted' /\ used' \in 0 .. Slots
  <2>1. call[c].pc = "putToken" /\ UNCHANGED used
    BY <1>13 DEF PutToken
  <2>2. Moves(c, "unref")
    BY <1>0, <1>13, Transitions
  <2> QED
    BY <1>1, <2>1, <2>2 DEF Moves, Becomes
<1>14. ASSUME NEW c \in Callers, ReleaseKeyReference(c) PROVE SlotsCounted' /\ used' \in 0 .. Slots
  <2>1. call[c].pc = "unref" /\ UNCHANGED used
    BY <1>14 DEF ReleaseKeyReference
  <2>2. Becomes(c, "idle", 0, NoKey, 0, 0)
    BY <1>0, <1>14, Transitions
  <2> QED
    BY <1>1, <2>1, <2>2 DEF Moves, Becomes
<1>15. ASSUME NEW c \in Callers, AcquireSlot(c) PROVE SlotsCounted' /\ used' \in 0 .. Slots
  <2>1. call[c].pc = "slot" /\ used < Slots /\ used' = used + 1
    BY <1>15 DEF AcquireSlot
  <2>2. Becomes(c, "ask", call[c].ip, call[c].key, 0, call[c].at)
    BY <1>0, <1>15, Transitions
  <2>3. Holders' = Holders \cup {c} /\ c \notin Holders
    BY <2>1, <2>2 DEF Becomes, Holders
  <2>4. Cardinality(Holders \cup {c}) = Cardinality(Holders) + 1
    BY <2>3, Counting, FS_AddElement
  <2> QED
    BY <1>0, <2>1, <2>3, <2>4 DEF SlotsCounted
<1>16. ASSUME NEW c \in Callers, ReleaseSlot(c) PROVE SlotsCounted' /\ used' \in 0 .. Slots
  <2>1. call[c].pc = "putSlot" /\ used' = used - 1
    BY <1>16 DEF ReleaseSlot
  <2>2. Moves(c, "putToken")
    BY <1>0, <1>16, Transitions
  <2>3. Holders' = Holders \ {c} /\ c \in Holders
    BY <2>1, <2>2 DEF Moves, Becomes, Holders
  <2>4. Cardinality(Holders \ {c}) = Cardinality(Holders) - 1 /\ Cardinality(Holders) # 0 /\ Cardinality(Holders) \in Nat
    BY <2>3, Counting, FS_RemoveElement, FS_EmptySet
  <2> QED
    BY <1>0, <2>1, <2>3, <2>4 DEF SlotsCounted
<1> QED
  BY <1>2, <1>3, <1>4, <1>5, <1>6, <1>7, <1>8, <1>9, <1>10, <1>11, <1>12, <1>13, <1>14, <1>15, <1>16 DEF Next, Step

-----------------------------------------------------------------------------
(* The types.                                                              *)

\* The cache and the clock.
LEMMA CacheTypes ==
  IInv /\ [Next]_vars =>
    /\ cache' \in [Addrs -> [first : 0 .. MaxTime, refreshed : 0 .. MaxTime]]
    /\ clock' \in 1 .. MaxTime
<1> SUFFICES ASSUME IInv, [Next]_vars
             PROVE  /\ cache' \in [Addrs -> [first : 0 .. MaxTime, refreshed : 0 .. MaxTime]]
                    /\ clock' \in 1 .. MaxTime
  OBVIOUS
<1>0. /\ cache \in [Addrs -> [first : 0 .. MaxTime, refreshed : 0 .. MaxTime]] /\ clock \in 1 .. MaxTime
      /\ call \in [Callers -> CallType] /\ MaxTime \in Nat
  BY EnrichAssumption DEF IInv, TypeOK, CallType
<1>1. CASE UNCHANGED <<cache, clock>>
  BY <1>0, <1>1
<1>2. CASE Tick
  BY <1>0, <1>2 DEF Tick
<1>3. ASSUME NEW c \in Callers, SaveReputation(c), cache' # cache
      PROVE  /\ cache' \in [Addrs -> [first : 0 .. MaxTime, refreshed : 0 .. MaxTime]]
             /\ clock' = clock
  <2>1. Upsert(call[c].ip, call[c].at) /\ call[c].ip \in Addrs /\ clock' = clock
    BY <1>3 DEF SaveReputation, IInv, Placed
  <2>2. call[c].at \in 0 .. MaxTime
    BY <1>0 DEF CallType
  <2> QED
    BY <1>0, <2>1, <2>2 DEF Upsert, NoRow
<1> QED
  BY <1>0, <1>1, <1>2, <1>3
  DEF Next, Step, vars, Lookup, ReadCache, EnterKey, TakeToken, GiveUpToken, Recheck, AcquireSlot, GiveUpSlot,
      AskProvider, Stamp, SaveReputation, ReleaseSlot, PutToken, ReleaseKeyReference

\* The callers' records.
LEMMA CallTypes == IInv /\ [Next]_vars => call' \in [Callers -> CallType]
<1> SUFFICES ASSUME IInv, [Next]_vars PROVE call' \in [Callers -> CallType]
  OBVIOUS
<1>0. TypeOK /\ Placed
  BY DEF IInv
<1>1. CASE Tick \/ UNCHANGED vars
  BY <1>0, <1>1 DEF Tick, vars, TypeOK, CallType
<1>2. ASSUME NEW c \in Callers, NEW a \in Addrs, Lookup(c, a) PROVE call' \in [Callers -> CallType]
  BY <1>0, <1>2, Transitions DEF Becomes
<1>3. ASSUME NEW c \in Callers, EnterKey(c) PROVE call' \in [Callers -> CallType]
  BY <1>0, <1>3, EnterTransition DEF Becomes
<1>4. ASSUME NEW c \in Callers, Step(c), ~EnterKey(c) PROVE call' \in [Callers -> CallType]
  BY <1>0, <1>4, Transitions DEF Becomes, Moves, Step
<1> QED
  BY <1>1, <1>2, <1>3, <1>4 DEF Next

\* The map and the key objects: a reference count that changes is that of a
\* key in the map, and counts callers.
LEMMA KeyTypes ==
  IInv /\ [Next]_vars =>
    /\ keys' \in [Addrs -> Keys \cup {NoKey}]
    /\ key' \in [Keys -> [token : BOOLEAN, refs : 0 .. Cardinality(Callers)]]
<1> DEFINE KeyType == [token : BOOLEAN, refs : 0 .. Cardinality(Callers)]
<1> SUFFICES ASSUME IInv, [Next]_vars
             PROVE  keys' \in [Addrs -> Keys \cup {NoKey}] /\ key' \in [Keys -> KeyType]
  OBVIOUS
<1>0. /\ TypeOK /\ Placed /\ KeysInv /\ KeysInv' /\ Cardinality(Callers) \in Nat
      /\ keys \in [Addrs -> Keys \cup {NoKey}] /\ key \in [Keys -> KeyType]
  BY KeysStep, Counting DEF IInv, KeysInv, TypeOK
<1>1. CASE UNCHANGED <<keys, key>>
  BY <1>0, <1>1
<1>2. ASSUME NEW k \in Keys, NEW tk \in BOOLEAN, NEW n \in 0 .. Cardinality(Callers), KeyBecomes(k, tk, n),
             key' = [j \in Keys |-> key'[j]]
      PROVE  key' \in [Keys -> KeyType]
  <2>1. [token |-> tk, refs |-> n] \in KeyType
    OBVIOUS
  <2>2. \A j \in Keys : key'[j] \in KeyType
    BY <1>0, <1>2, <2>1 DEF KeyBecomes
  <2> HIDE DEF KeyType
  <2> QED
    BY <1>2, <2>2
<1>3. ASSUME NEW c \in Callers, Refers(c)
      PROVE  call[c].key \in Keys /\ call[c].ip \in Addrs /\ keys[call[c].ip] = call[c].key
             /\ key[call[c].key].refs > 0 /\ key[call[c].key] \in KeyType
  <2>1. call[c].key \in Keys /\ call[c].ip \in Addrs
    BY <1>0, <1>3 DEF Placed, Refers
  <2>2. keys[call[c].ip] = call[c].key /\ keys[call[c].ip] # NoKey
    BY <1>0, <1>3, <2>1, EnrichAssumption DEF KeysInv, KeyAccounting
  <2>3. key[keys[call[c].ip]].refs > 0
    BY <1>0, <2>1, <2>2 DEF KeysInv, KeyAccounting
  <2> QED
    BY <1>0, <2>1, <2>2, <2>3
<1>4. ASSUME NEW c \in Callers, TakeToken(c)
      PROVE  keys' = keys /\ key' \in [Keys -> KeyType]
  <2>1. Refers(c)
    BY <1>4 DEF TakeToken, Refers
  <2>2. KeyBecomes(call[c].key, FALSE, key[call[c].key].refs)
    BY <1>0, <1>3, <1>4, <2>1, KeyTransitions
  <2> QED
    BY <1>0, <1>2, <1>3, <1>4, <2>1, <2>2 DEF TakeToken
<1>5. ASSUME NEW c \in Callers, PutToken(c)
      PROVE  keys' = keys /\ key' \in [Keys -> KeyType]
  <2>1. Refers(c)
    BY <1>5 DEF PutToken, Refers
  <2>2. KeyBecomes(call[c].key, TRUE, key[call[c].key].refs)
    BY <1>0, <1>3, <1>5, <2>1, KeyTransitions
  <2> QED
    BY <1>0, <1>2, <1>3, <1>5, <2>1, <2>2 DEF PutToken
<1>6. ASSUME NEW c \in Callers, ReleaseKeyReference(c)
      PROVE  keys' \in [Addrs -> Keys \cup {NoKey}] /\ key' \in [Keys -> KeyType]
  <2>1. Refers(c)
    BY <1>6 DEF ReleaseKeyReference, Refers
  <2>2. keys' \in [Addrs -> Keys \cup {NoKey}] /\ key' = [j \in Keys |-> key'[j]]
    BY <1>0, <1>6 DEF ReleaseKeyReference
  <2>3. KeyBecomes(call[c].key, FALSE, 0)
        \/ KeyBecomes(call[c].key, key[call[c].key].token, key[call[c].key].refs - 1)
    BY <1>0, <1>3, <1>6, <2>1, KeyTransitions
  <2>4. key[call[c].key].refs - 1 \in 0 .. Cardinality(Callers) /\ key[call[c].key].token \in BOOLEAN
    BY <1>0, <1>3, <2>1
  <2>5. 0 \in 0 .. Cardinality(Callers) /\ FALSE \in BOOLEAN /\ call[c].key \in Keys
    BY <1>0, <1>3, <2>1
  <2>6. KeyBecomes(call[c].key, FALSE, 0) => key' \in [Keys -> KeyType]
    BY <1>2, <2>2, <2>5
  <2>7. KeyBecomes(call[c].key, key[call[c].key].token, key[call[c].key].refs - 1) => key' \in [Keys -> KeyType]
    BY <1>2, <2>2, <2>4, <2>5
  <2> QED
    BY <2>2, <2>3, <2>6, <2>7
<1>7. ASSUME NEW c \in Callers, EnterKey(c)
      PROVE  keys' \in [Addrs -> Keys \cup {NoKey}] /\ key' \in [Keys -> KeyType]
  <2>1. PICK k \in Keys :
          /\ keys' = [keys EXCEPT ![call[c].ip] = k] /\ call[c].ip \in Addrs
          /\ \/ keys[call[c].ip] = k /\ KeyBecomes(k, key[k].token, key[k].refs + 1)
             \/ KeyBecomes(k, TRUE, 1)
    BY <1>0, <1>7, EnterTransition
  <2>2. keys' \in [Addrs -> Keys \cup {NoKey}] /\ key' = [j \in Keys |-> key'[j]] /\ k # NoKey
    BY <1>0, <1>7, <2>1, EnrichAssumption DEF EnterKey
  <2>3. PICK a \in Addrs : keys'[a] = k
    BY <1>0, <2>1
  <2>4. key'[k].refs = Cardinality(Referring(a)')
    BY <1>0, <2>2, <2>3 DEF KeysInv, KeyAccounting, Referring
  <2>5. key'[k].refs \in 0 .. Cardinality(Callers)
    BY <2>4, CountingNext
  <2>6. PICK tk \in BOOLEAN : KeyBecomes(k, tk, key'[k].refs)
    <3>1. key[k].token \in BOOLEAN
      BY <1>0
    <3>2. CASE KeyBecomes(k, key[k].token, key[k].refs + 1)
      <4>1. key'[k].refs = key[k].refs + 1
        BY <3>2 DEF KeyBecomes
      <4>2. KeyBecomes(k, key[k].token, key'[k].refs)
        BY <3>2, <4>1
      <4> QED
        BY <3>1, <4>2
    <3>3. CASE KeyBecomes(k, TRUE, 1)
      <4>1. key'[k].refs = 1
        BY <3>3 DEF KeyBecomes
      <4>2. KeyBecomes(k, TRUE, key'[k].refs)
        BY <3>3, <4>1
      <4> QED
        BY <4>2
    <3> QED
      BY <2>1, <3>2, <3>3
  <2> QED
    BY <1>2, <2>2, <2>5, <2>6
<1> QED
  BY <1>0, <1>1, <1>4, <1>5, <1>6, <1>7
  DEF Next, Step, vars, Tick, Lookup, ReadCache, GiveUpToken, Recheck, AcquireSlot, GiveUpSlot,
      AskProvider, Stamp, SaveReputation, ReleaseSlot

-----------------------------------------------------------------------------
(* The decision to refresh.                                                *)

\* One caller's conjunct of Decided.
DecidedBy(c) ==
  /\ call[c].pc \in {"slot", "ask", "save"} => ~Fresh(call[c].ip)
  /\ call[c].pc = "save" =>
       /\ call[c].at \in 1 .. clock
       /\ cache[call[c].ip] # NoRow => call[c].at >= cache[call[c].ip].refreshed + TTL

\* A row that is not fresh does not become fresh while time passes and nobody
\* stores it; only the caller with the token of an address stores its row.
LEMMA DecidedStep == IInv /\ [Next]_vars => Decided'
<1> SUFFICES ASSUME IInv, [Next]_vars PROVE Decided'
  OBVIOUS
<1>0. /\ TypeOK /\ Placed /\ \A d \in Callers : DecidedBy(d)
      /\ cache \in [Addrs -> [first : 0 .. MaxTime, refreshed : 0 .. MaxTime]]
      /\ clock \in Nat \ {0} /\ TTL \in Nat /\ MaxTime \in Nat
  BY EnrichAssumption DEF IInv, Decided, DecidedBy, TypeOK
<1>1. SUFFICES \A d \in Callers : DecidedBy(d)'
  BY DEF Decided, DecidedBy
<1>2. ASSUME UNCHANGED <<cache, clock>>, NEW d \in Callers, call'[d] = call[d] PROVE DecidedBy(d)'
  BY <1>0, <1>2 DEF DecidedBy, Fresh
<1>3. ASSUME NEW c \in Callers, UNCHANGED <<cache, clock>>,
             \A d \in Callers : d # c => call'[d] = call[d], DecidedBy(c)'
      PROVE  \A d \in Callers : DecidedBy(d)'
  BY <1>2, <1>3
<1>4. CASE Tick
  <2>1. UNCHANGED <<cache, call>> /\ clock' = clock + 1
    BY <1>4 DEF Tick
  <2>2. ASSUME NEW d \in Callers PROVE DecidedBy(d)'
    <3>1. CASE call[d].pc \notin {"slot", "ask", "save"}
      BY <2>1, <3>1 DEF DecidedBy
    <3>2. CASE call[d].pc \in {"slot", "ask", "save"}
      <4>1. call[d].ip \in Addrs /\ DecidedBy(d)
        BY <1>0, <3>2 DEF Placed
      <4>2. cache[call[d].ip].refreshed \in Nat
        BY <1>0, <4>1
      <4> QED
        BY <1>0, <2>1, <3>2, <4>1, <4>2 DEF DecidedBy, Fresh
    <3> QED
      BY <3>1, <3>2
  <2> QED
    BY <2>2
<1>5. CASE UNCHANGED vars
  BY <1>2, <1>5 DEF vars
<1>6. ASSUME NEW c \in Callers, NEW a \in Addrs, Lookup(c, a) PROVE \A d \in Callers : DecidedBy(d)'
  <2>1. Becomes(c, "read", a, call[c].key, call[c].asked, call[c].at) /\ UNCHANGED <<cache, clock>>
    BY <1>0, <1>6, Transitions DEF Lookup
  <2>2. DecidedBy(c)'
    BY <2>1 DEF Becomes, DecidedBy
  <2> QED
    BY <1>3, <2>1, <2>2 DEF Becomes
<1>7. ASSUME NEW c \in Callers, EnterKey(c) PROVE \A d \in Callers : DecidedBy(d)'
  <2>1. (\E k \in Keys : Becomes(c, "token", call[c].ip, k, call[c].asked, call[c].at)) /\ UNCHANGED <<cache, clock>>
    BY <1>0, <1>7, EnterTransition DEF EnterKey
  <2>2. DecidedBy(c)'
    BY <2>1 DEF Becomes, DecidedBy
  <2> QED
    BY <1>3, <2>1, <2>2 DEF Becomes
<1>8. ASSUME NEW c \in Callers,
             ReadCache(c) \/ TakeToken(c) \/ GiveUpToken(c) \/ GiveUpSlot(c) \/ ReleaseSlot(c) \/ PutToken(c)
             \/ ReleaseKeyReference(c)
      PROVE  \A d \in Callers : DecidedBy(d)'
  <2>1. UNCHANGED <<cache, clock>>
    BY <1>8 DEF ReadCache, TakeToken, GiveUpToken, GiveUpSlot, ReleaseSlot, PutToken, ReleaseKeyReference
  <2>2. \/ \E p \in {"enter", "recheck", "unref", "putToken"} : Moves(c, p)
        \/ Becomes(c, "idle", 0, NoKey, 0, 0)
    BY <1>0, <1>8, Transitions
  <2>3. DecidedBy(c)'
    BY <2>2 DEF Moves, Becomes, DecidedBy
  <2> QED
    BY <1>3, <2>1, <2>2, <2>3 DEF Moves, Becomes
<1>9. ASSUME NEW c \in Callers, Recheck(c) PROVE \A d \in Callers : DecidedBy(d)'
  <2>1. UNCHANGED <<cache, clock>>
    BY <1>9 DEF Recheck
  <2>2. (Moves(c, "slot") /\ ~Fresh(call[c].ip)) \/ Moves(c, "putToken")
    BY <1>0, <1>9, Transitions
  <2>3. DecidedBy(c)'
    BY <2>1, <2>2 DEF Moves, Becomes, DecidedBy, Fresh
  <2> QED
    BY <1>3, <2>1, <2>2, <2>3 DEF Moves, Becomes
<1>10. ASSUME NEW c \in Callers, AcquireSlot(c) \/ AskProvider(c) PROVE \A d \in Callers : DecidedBy(d)'
  <2>1. UNCHANGED <<cache, clock>> /\ call[c].pc \in {"slot", "ask"}
    BY <1>10 DEF AcquireSlot, AskProvider
  <2>2. \E n : Becomes(c, "ask", call[c].ip, call[c].key, n, call[c].at)
    BY <1>0, <1>10, Transitions
  <2>3. DecidedBy(c)'
    BY <1>0, <2>1, <2>2 DEF Becomes, DecidedBy, Fresh
  <2> QED
    BY <1>3, <2>1, <2>2, <2>3 DEF Becomes
<1>11. ASSUME NEW c \in Callers, Stamp(c) PROVE \A d \in Callers : DecidedBy(d)'
  <2>1. UNCHANGED <<cache, clock>> /\ call[c].pc = "ask"
    BY <1>11 DEF Stamp
  <2>2. Becomes(c, "save", call[c].ip, call[c].key, call[c].asked, clock)
    BY <1>0, <1>11, Transitions
  <2>3. DecidedBy(c)'
    <3>1. ~Fresh(call[c].ip) /\ call[c].ip \in Addrs
      BY <1>0, <2>1 DEF DecidedBy, Placed
    <3>2. cache[call[c].ip].refreshed \in Nat
      BY <1>0, <3>1
    <3>3. cache[call[c].ip] # NoRow => clock >= cache[call[c].ip].refreshed + TTL
      BY <1>0, <3>1, <3>2 DEF Fresh
    <3> QED
      BY <1>0, <2>1, <2>2, <3>1, <3>3 DEF Becomes, DecidedBy, Fresh
  <2> QED
    BY <1>3, <2>1, <2>2, <2>3 DEF Becomes
<1>12. ASSUME NEW c \in Callers, SaveReputation(c) PROVE \A d \in Callers : DecidedBy(d)'
  <2>1. clock' = clock /\ call[c].pc = "save" /\ (Upsert(call[c].ip, call[c].at) \/ UNCHANGED cache)
    BY <1>12 DEF SaveReputation
  <2>2. Moves(c, "putSlot")
    BY <1>0, <1>12, Transitions
  <2>3. DecidedBy(c)'
    BY <2>2 DEF Moves, Becomes, DecidedBy
  <2>4. ASSUME NEW d \in Callers, d # c PROVE DecidedBy(d)'
    <3>1. call'[d] = call[d]
      BY <2>2, <2>4 DEF Moves, Becomes
    <3>2. CASE call[d].pc \notin {"slot", "ask", "save"}
      BY <3>1, <3>2 DEF DecidedBy
    <3>3. CASE call[d].pc \in {"slot", "ask", "save"}
      <4>1. call[d].ip # call[c].ip
        BY <2>1, <2>4, <3>3 DEF IInv, TokenExclusive, HasToken
      <4>2. cache'[call[d].ip] = cache[call[d].ip]
        <5>1. call[d].ip \in Addrs
          BY <1>0, <3>3 DEF Placed
        <5> QED
          BY <1>0, <2>1, <4>1, <5>1 DEF Upsert
      <4> QED
        BY <1>0, <2>1, <3>1, <4>2 DEF DecidedBy, Fresh
    <3> QED
      BY <3>2, <3>3
  <2> QED
    BY <2>3, <2>4
<1> QED
  BY <1>4, <1>5, <1>6, <1>7, <1>8, <1>9, <1>10, <1>11, <1>12 DEF Next, Step

-----------------------------------------------------------------------------
(* The theorems.                                                           *)

\* The invariant is inductive: it holds initially and every step keeps it.
LEMMA Inductive == Spec => []IInv
<1>1. Init => IInv
  BY InitIInv
<1>2. IInv /\ [Next]_vars => IInv'
  <2> SUFFICES ASSUME IInv, [Next]_vars PROVE IInv'
    OBVIOUS
  <2>1. KeysInv' /\ SlotsCounted' /\ Decided' /\ used' \in 0 .. Slots
    BY KeysStep, SlotsStep, DecidedStep
  <2>2. TypeOK'
    BY <2>1, CacheTypes, CallTypes, KeyTypes DEF TypeOK, CallType
  <2> QED
    BY <2>1, <2>2 DEF IInv, KeysInv
<1> QED
  BY <1>1, <1>2, PTL DEF Spec

\* However many callers there are and however they interleave, fail and give
\* up in Service.Lookup: all that wait for an address wait for one key, its
\* token is with one of them at most, the entry is forgotten with its last
\* reference, the slots are respected and an address is refreshed by one
\* caller at a time.
THEOREM EnrichConsistent == Spec => []LookupsConsistent
<1>1. IInv => LookupsConsistent
  <2> SUFFICES ASSUME IInv PROVE LookupsConsistent
    OBVIOUS
  <2>1. OneLookupPerAddress
    BY DEF IInv, TokenExclusive, OneLookupPerAddress, Asking, HasToken
  <2> QED
    BY <2>1 DEF IInv, LookupsConsistent
<1> QED
  BY <1>1, Inductive, PTL

-----------------------------------------------------------------------------
(* The refinement.                                                         *)

Refreshing == {call[c].ip : c \in {d \in Callers : HasSlot(d)}}

\* A step after which the same callers hold slots, for the same addresses,
\* leaves the set of refreshed addresses alone.
LEMMA SameRefreshing ==
  ASSUME \A d \in Callers : /\ HasSlot(d)' <=> HasSlot(d)
                            /\ HasSlot(d) => call'[d].ip = call[d].ip
  PROVE  Refreshing' = Refreshing
<1> USE DEF HasSlot
<1>1. ASSUME NEW x \in Refreshing' PROVE x \in Refreshing
  BY <1>1 DEF Refreshing
<1>2. ASSUME NEW x \in Refreshing PROVE x \in Refreshing'
  BY <1>2 DEF Refreshing
<1> QED
  BY <1>1, <1>2

\* There are at most as many refreshed addresses as slots in use.
LEMMA RefreshingBound ==
  ASSUME IInv
  PROVE  IsFiniteSet(Refreshing) /\ Cardinality(Refreshing) \in Nat /\ Cardinality(Refreshing) <= used
<1> DEFINE f == [c \in Holders |-> call[c].ip]
<1>1. IsFiniteSet(Holders) /\ used = Cardinality(Holders)
  BY Counting DEF IInv, SlotsCounted
<1>2. Refreshing = {call[c].ip : c \in Holders}
  BY DEF Refreshing, Holders
<1>3. f \in Surjection(Holders, Refreshing)
  BY <1>2 DEF Surjection
<1>4. IsFiniteSet(Refreshing) /\ Cardinality(Refreshing) <= Cardinality(Holders)
  BY <1>1, <1>3, FS_Surjection
<1> QED
  BY <1>1, <1>4, FS_CardinalityType

\* A step that leaves cache, clock and the set of refreshed addresses alone.
LEMMA Stutters ==
  ASSUME UNCHANGED <<cache, clock, Refreshing>>
  PROVE  [Promise!Next]_<<cache, clock, {call[c].ip : c \in {d \in Callers : HasSlot(d)}}>>
BY DEF Refreshing

\* Every step of the service is a step of the promised cache or leaves it
\* alone: AcquireSlot begins a refresh, SaveReputation stores it, ReleaseSlot
\* ends it.
LEMMA PromiseStep ==
  IInv /\ [Next]_vars => [Promise!Next]_<<cache, clock, {call[c].ip : c \in {d \in Callers : HasSlot(d)}}>>
<1> DEFINE Goal == [Promise!Next]_<<cache, clock, {call[c].ip : c \in {d \in Callers : HasSlot(d)}}>>
<1> SUFFICES ASSUME IInv, [Next]_vars PROVE Goal
  OBVIOUS
<1>0. TypeOK /\ Placed /\ Decided /\ TokenExclusive
  BY DEF IInv
<1>1. CASE UNCHANGED vars
  <2>1. UNCHANGED <<cache, clock, Refreshing>>
    BY <1>1 DEF vars, Refreshing, HasSlot
  <2> QED
    BY <2>1, Stutters
<1>2. CASE Tick
  <2>1. clock < MaxTime /\ clock' = clock + 1 /\ UNCHANGED <<cache, Refreshing>>
    BY <1>2 DEF Tick, Refreshing, HasSlot
  <2>2. Promise!Tick
    BY <2>1 DEF Promise!Tick, Refreshing
  <2> QED
    BY <2>2 DEF Promise!Next
<1>3. ASSUME NEW c \in Callers, NEW a \in Addrs, Lookup(c, a) PROVE Goal
  <2>1. call[c].pc = "idle" /\ UNCHANGED <<cache, clock>>
    BY <1>3 DEF Lookup
  <2>2. Becomes(c, "read", a, call[c].key, call[c].asked, call[c].at)
    BY <1>0, <1>3, Transitions
  <2>3. Refreshing' = Refreshing
    BY <2>1, <2>2, SameRefreshing DEF Becomes, HasSlot
  <2> QED
    BY <2>1, <2>3, Stutters
<1>4. ASSUME NEW c \in Callers, EnterKey(c) PROVE Goal
  <2>1. call[c].pc = "enter" /\ UNCHANGED <<cache, clock>>
    BY <1>4 DEF EnterKey
  <2>2. \E k \in Keys : Becomes(c, "token", call[c].ip, k, call[c].asked, call[c].at)
    BY <1>0, <1>4, EnterTransition
  <2>3. Refreshing' = Refreshing
    BY <2>1, <2>2, SameRefreshing DEF Becomes, HasSlot
  <2> QED
    BY <2>1, <2>3, Stutters
<1>5. ASSUME NEW c \in Callers,
             ReadCache(c) \/ TakeToken(c) \/ GiveUpToken(c) \/ Recheck(c) \/ GiveUpSlot(c) \/ PutToken(c)
             \/ ReleaseKeyReference(c)
      PROVE  Goal
  <2>1. call[c].pc \in {"read", "token", "recheck", "slot", "putToken", "unref"} /\ UNCHANGED <<cache, clock>>
    BY <1>5 DEF ReadCache, TakeToken, GiveUpToken, Recheck, GiveUpSlot, PutToken, ReleaseKeyReference
  <2>2. \/ \E p \in {"enter", "recheck", "unref", "slot", "putToken"} : Moves(c, p)
        \/ Becomes(c, "idle", 0, NoKey, 0, 0)
    BY <1>0, <1>5, Transitions
  <2>3. Refreshing' = Refreshing
    BY <2>1, <2>2, SameRefreshing DEF Moves, Becomes, HasSlot
  <2> QED
    BY <2>1, <2>3, Stutters
<1>6. ASSUME NEW c \in Callers, AskProvider(c) \/ Stamp(c) PROVE Goal
  <2>1. call[c].pc = "ask" /\ UNCHANGED <<cache, clock>>
    BY <1>6 DEF AskProvider, Stamp
  <2>2. \E p \in {"ask", "save"} : \E n, t : Becomes(c, p, call[c].ip, call[c].key, n, t)
    BY <1>0, <1>6, Transitions
  <2>3. Refreshing' = Refreshing
    BY <2>1, <2>2, SameRefreshing DEF Becomes, HasSlot
  <2> QED
    BY <2>1, <2>3, Stutters
<1>7. ASSUME NEW c \in Callers, AcquireSlot(c) PROVE Goal
  <2> PICK a : a = call[c].ip
    OBVIOUS
  <2>1. call[c].pc = "slot" /\ used < Slots /\ UNCHANGED <<cache, clock>> /\ a \in Addrs /\ ~Fresh(a)
    BY <1>0, <1>7 DEF AcquireSlot, Placed, Decided
  <2>2. Becomes(c, "ask", call[c].ip, call[c].key, 0, call[c].at)
    BY <1>0, <1>7, Transitions
  <2>3. Refreshing' = Refreshing \cup {a}
    <3>1. ASSUME NEW x \in Refreshing' PROVE x \in Refreshing \cup {a}
      BY <2>1, <2>2, <3>1 DEF Refreshing, HasSlot, Becomes
    <3>2. ASSUME NEW x \in Refreshing PROVE x \in Refreshing'
      BY <2>1, <2>2, <3>2 DEF Refreshing, HasSlot, Becomes
    <3>3. a \in Refreshing'
      BY <2>1, <2>2 DEF Refreshing, HasSlot, Becomes
    <3> QED
      BY <3>1, <3>2, <3>3
  <2>4. a \notin Refreshing
    BY <1>0, <2>1 DEF Refreshing, TokenExclusive, HasToken, HasSlot
  <2>5. Cardinality(Refreshing) < Slots
    <3>1. used \in Nat /\ Slots \in Nat
      BY <1>0, EnrichAssumption DEF TypeOK
    <3> QED
      BY <2>1, <3>1, RefreshingBound
  <2> DEFINE R == {call[e].ip : e \in {d \in Callers : HasSlot(d)}}
  <2>6. /\ a \notin R /\ R' = R \cup {a}
        /\ Cardinality(R) < Slots
    <3>1. R = Refreshing /\ R' = Refreshing'
      BY DEF Refreshing
    <3> HIDE DEF R
    <3> QED
      BY <2>3, <2>4, <2>5, <3>1
  <2>7. ~Promise!Fresh(a)
    BY <2>1 DEF Promise!Fresh, Promise!NoRow, Fresh, NoRow
  <2>8. Promise!Cardinality(R) = Cardinality(R)
    BY DEF Promise!Cardinality, Cardinality
  <2>9. Promise!Begin(a)
    BY <2>1, <2>6, <2>7, <2>8 DEF Promise!Begin
  <2> QED
    BY <2>1, <2>9 DEF Promise!Next
<1>8. ASSUME NEW c \in Callers, SaveReputation(c) PROVE Goal
  <2> PICK a, t : a = call[c].ip /\ t = call[c].at
    OBVIOUS
  <2>1. call[c].pc = "save" /\ clock' = clock /\ (Upsert(a, t) \/ UNCHANGED cache) /\ a \in Addrs
    BY <1>0, <1>8 DEF SaveReputation, Placed
  <2>2. Moves(c, "putSlot")
    BY <1>0, <1>8, Transitions
  <2>3. Refreshing' = Refreshing /\ a \in Refreshing
    <3>1. Refreshing' = Refreshing
      BY <2>1, <2>2, SameRefreshing DEF Moves, Becomes, HasSlot
    <3> QED
      BY <2>1, <3>1 DEF Refreshing, HasSlot
  <2>4. CASE UNCHANGED cache
    BY <2>1, <2>3, <2>4, Stutters
  <2>5. CASE Upsert(a, t)
    <3>1. ~Fresh(a) /\ t \in 1 .. clock /\ (cache[a] # NoRow => t >= cache[a].refreshed + TTL)
      BY <1>0, <2>1 DEF Decided
    <3>2. cache' = [cache EXCEPT ![a] = [first |-> IF cache[a] = NoRow THEN t ELSE cache[a].first, refreshed |-> t]]
      BY <1>0, <2>1, <2>5 DEF Upsert, TypeOK
    <3>3. Promise!Store(a)
      BY <1>0, <2>1, <2>3, <3>1, <3>2
      DEF Promise!Store, Promise!Fresh, Promise!NoRow, Fresh, NoRow, Refreshing, TypeOK
    <3> QED
      BY <2>1, <3>3 DEF Promise!Next
  <2> QED
    BY <2>1, <2>4, <2>5
<1>9. ASSUME NEW c \in Callers, ReleaseSlot(c) PROVE Goal
  <2> PICK a : a = call[c].ip
    OBVIOUS
  <2>1. call[c].pc = "putSlot" /\ UNCHANGED <<cache, clock>> /\ a \in Addrs
    BY <1>0, <1>9 DEF ReleaseSlot, Placed
  <2>2. Moves(c, "putToken")
    BY <1>0, <1>9, Transitions
  <2>3. \A d \in Callers : HasSlot(d) /\ d # c => call[d].ip # a
    BY <1>0, <2>1 DEF TokenExclusive, HasToken, HasSlot
  <2>4. Refreshing' = Refreshing \ {a}
    <3>1. ASSUME NEW x \in Refreshing' PROVE x \in Refreshing \ {a}
      BY <2>1, <2>2, <2>3, <3>1 DEF Refreshing, HasSlot, Moves, Becomes
    <3>2. ASSUME NEW x \in Refreshing \ {a} PROVE x \in Refreshing'
      BY <2>1, <2>2, <3>2 DEF Refreshing, HasSlot, Moves, Becomes
    <3> QED
      BY <3>1, <3>2
  <2>5. a \in Refreshing
    BY <2>1 DEF Refreshing, HasSlot
  <2>6. Promise!End(a)
    BY <2>1, <2>4, <2>5 DEF Promise!End, Refreshing
  <2> QED
    BY <2>1, <2>6 DEF Promise!Next
<1> QED
  BY <1>1, <1>2, <1>3, <1>4, <1>5, <1>6, <1>7, <1>8, <1>9 DEF Next, Step

\* The service keeps the promise of ReputationCache: the providers are asked
\* about an address only when its row is missing or expired, by one refresh at
\* a time and never more than the slots allow, and a stored row is never
\* replaced by one that is not newer by the time to live (Service.Lookup).
THEOREM EnrichKeepsPromise == Spec => RefinesPromise
<1>1. Init => Promise!Init
  <2> SUFFICES ASSUME Init PROVE Promise!Init
    OBVIOUS
  <2>1. Refreshing = {}
    BY DEF Refreshing, HasSlot, Init, NoCall
  <2> QED
    BY <2>1 DEF Init, Promise!Init, Refreshing, NoRow, Promise!NoRow
<1>2. IInv /\ [Next]_vars => [Promise!Next]_<<cache, clock, {call[c].ip : c \in {d \in Callers : HasSlot(d)}}>>
  BY PromiseStep
<1> QED
  BY <1>1, <1>2, Inductive, PTL DEF Spec, Promise!Spec, RefinesPromise
=============================================================================
