------------------------- MODULE SemanticCacheProofs -------------------------
(***************************************************************************)
(* Theorems about SemanticCache, for every set of calls and prompts, every *)
(* relation of similarity and any number of restarts.                      *)
(*                                                                         *)
(* The argument for NoDrift. Similarity is not transitive, so it is not    *)
(* enough that a row was similar to something: a row must hold the answer  *)
(* to its own prompt. It does, because only a call that the providers      *)
(* answered stores anything; one that was answered from the cache never    *)
(* does.                                                                   *)
(*                                                                         *)
(* HitsAreBalanced counts: each step moves at most one call between the    *)
(* terms of the balance, so the lemmas of Sums on one changed value are    *)
(* all that is needed of the sums.                                         *)
(***************************************************************************)
EXTENDS SemanticCache, FiniteSetTheorems, Sums, TLAPS

\* A row holds what a provider answered to the row's own prompt.
RowsOwn == \A id \in DOMAIN cache : cache[id].response = cache[id].prompt

\* What is about to be stored is a provider's answer to the call's own prompt.
StoresOwn == \A c \in Call : store[c] # "none" => answer[c] = PromptOf[c]

\* A call that has no answer yet stores nothing.
StoresAnswered == \A c \in Call : store[c] # "none" => stage[c] = "answered"

CacheInv == TypeOK /\ NoDrift /\ RowsOwn /\ StoresOwn /\ StoresAnswered
-----------------------------------------------------------------------------
LEMMA TypeInit == Init => TypeOK
BY CrashAssumption DEF Init, TypeOK, Stages

\* The effect of counting a hit on the table.
LEMMA CountedHit ==
    ASSUME TypeOK, NEW c \in Call, bump[c] # 0,
           cache' = [cache EXCEPT ![bump[c]].hits = @ + 1]
    PROVE  /\ cache' \in Seq(Row) /\ DOMAIN cache' = DOMAIN cache
           /\ \A id \in DOMAIN cache : /\ cache'[id].prompt = cache[id].prompt
                                       /\ cache'[id].response = cache[id].response
<1>1. bump[c] \in DOMAIN cache /\ cache \in Seq(Row)
  BY DEF TypeOK
<1>2. cache[bump[c]] \in Row
  BY <1>1
<1>3. [cache[bump[c]] EXCEPT !.hits = @ + 1] \in Row
  BY <1>2 DEF Row
<1>4. cache' = [cache EXCEPT ![bump[c]] = [cache[bump[c]] EXCEPT !.hits = @ + 1]]
  OBVIOUS
<1>5. /\ [cache[bump[c]] EXCEPT !.hits = @ + 1].prompt = cache[bump[c]].prompt
      /\ [cache[bump[c]] EXCEPT !.hits = @ + 1].response = cache[bump[c]].response
  BY <1>2 DEF Row
<1> QED
  BY <1>1, <1>3, <1>4, <1>5

\* The effect of an insert on the table.
LEMMA Inserted ==
    ASSUME TypeOK, NEW row \in Row, cache' = Append(cache, row)
    PROVE  /\ cache' \in Seq(Row) /\ DOMAIN cache \subseteq DOMAIN cache'
           /\ \A id \in DOMAIN cache' : (id \in DOMAIN cache /\ cache'[id] = cache[id])
                                        \/ cache'[id] = row
BY DEF TypeOK

\* Every step preserves the types.
LEMMA TypeStep == TypeOK /\ StoresOwn /\ [Next]_vars => TypeOK'
<1> SUFFICES ASSUME TypeOK, StoresOwn, [Next]_vars PROVE TypeOK'
  OBVIOUS
<1> USE DEF TypeOK, Stages, Put, callVars, counterVars
<1>1. ASSUME NEW c \in Call, Probe(c) \/ Embedded(c) \/ NoHit(c) \/ AllProvidersFail(c)
      PROVE TypeOK'
  <2>1. CASE Probe(c)
    BY <2>1 DEF Probe
  <2>2. CASE Embedded(c) \/ NoHit(c) \/ AllProvidersFail(c)
    BY <2>2 DEF Embedded, NoHit, AllProvidersFail
  <2> QED
    BY <1>1, <2>1, <2>2
<1>2. ASSUME NEW c \in Call, QueryHit(c) PROVE TypeOK'
  <2>1. PICK id \in DOMAIN cache :
            /\ answer' = [answer EXCEPT ![c] = cache[id].response]
            /\ bump' = [bump EXCEPT ![c] = id]
    BY <1>2 DEF QueryHit
  <2>2. cache[id] \in Row /\ id \in Nat
    BY <2>1
  <2>3. cache[id].response \in Prompt
    BY <2>2 DEF Row
  <2> QED
    BY <1>2, <2>1, <2>2, <2>3 DEF QueryHit
<1>3. ASSUME NEW c \in Call, ProviderAnswers(c) PROVE TypeOK'
  BY <1>3, PromptAssumption DEF ProviderAnswers
<1>4. ASSUME NEW c \in Call, StoreEmbeds(c) \/ StoreFails(c) PROVE TypeOK'
  BY <1>4 DEF StoreEmbeds, StoreFails
<1>5. ASSUME NEW c \in Call, Insert(c) PROVE TypeOK'
  <2> DEFINE row == [prompt |-> PromptOf[c], response |-> answer[c], hits |-> 0]
  <2>1. row \in Row
    BY <1>5, PromptAssumption DEF Insert, StoresOwn, Row
  <2>2. cache' = Append(cache, row)
    BY <1>5 DEF Insert
  <2>3. cache' \in Seq(Row) /\ DOMAIN cache \subseteq DOMAIN cache'
    BY <2>1, <2>2, Inserted
  <2> QED
    BY <1>5, <2>3 DEF Insert
<1>6. ASSUME NEW c \in Call, CountHit(c) \/ CountHitFails(c) PROVE TypeOK'
  <2>1. cache' \in Seq(Row) /\ DOMAIN cache' = DOMAIN cache
    BY <1>6, CountedHit DEF CountHit, CountHitFails
  <2>2. bump' = [bump EXCEPT ![c] = 0] /\ lost' \in Nat
    BY <1>6 DEF CountHit, CountHitFails
  <2> QED
    BY <1>6, <2>1, <2>2 DEF CountHit, CountHitFails
<1>7. CASE Crash
  <2>1. Cardinality({c \in Call : bump[c] # 0}) \in Nat
    BY CallAssumption, FS_Subset, FS_CardinalityType
  <2> QED
    BY <1>7, <2>1, CrashAssumption DEF Crash, Ended
<1>8. CASE UNCHANGED vars
  BY <1>8 DEF vars
<1> QED
  BY <1>1, <1>2, <1>3, <1>4, <1>5, <1>6, <1>7, <1>8 DEF Next, Handle, Background
-----------------------------------------------------------------------------
LEMMA CacheInit == Init => CacheInv
<1> SUFFICES ASSUME Init PROVE CacheInv
  OBVIOUS
<1>1. TypeOK
  BY TypeInit
<1> QED
  BY <1>1 DEF Init, CacheInv, NoDrift, RowsOwn, StoresOwn, StoresAnswered

\* Every step keeps the rows and the stores own answers.
LEMMA CacheStep == CacheInv /\ [Next]_vars => CacheInv'
<1> SUFFICES ASSUME CacheInv, [Next]_vars PROVE CacheInv'
  OBVIOUS
<1>0. TypeOK /\ TypeOK'
  BY TypeStep DEF CacheInv
<1> USE <1>0 DEF TypeOK, Put, callVars, counterVars,
        CacheInv, NoDrift, RowsOwn, StoresOwn, StoresAnswered
<1>1. ASSUME NEW c \in Call, Probe(c) \/ Embedded(c) \/ NoHit(c) \/ AllProvidersFail(c)
      PROVE CacheInv'
  BY <1>1 DEF Probe, Embedded, NoHit, AllProvidersFail
<1>2. ASSUME NEW c \in Call, QueryHit(c) PROVE CacheInv'
  <2>1. PICK id \in DOMAIN cache :
            /\ Matches(c, cache[id]) /\ stage[c] = "query"
            /\ answer' = [answer EXCEPT ![c] = cache[id].response]
            /\ stage' = [stage EXCEPT ![c] = "hit"]
            /\ UNCHANGED <<store, cache>>
    BY <1>2 DEF QueryHit
  <2>2. <<PromptOf[c], cache[id].response>> \in Similar
    BY <2>1 DEF Matches
  <2>3. store[c] = "none"
    BY <2>1
  <2> QED
    BY <2>1, <2>2, <2>3
<1>3. ASSUME NEW c \in Call, ProviderAnswers(c) PROVE CacheInv'
  BY <1>3, PromptAssumption, SimilarAssumption DEF ProviderAnswers
<1>4. ASSUME NEW c \in Call, StoreEmbeds(c) \/ StoreFails(c) PROVE CacheInv'
  BY <1>4 DEF StoreEmbeds, StoreFails
<1>5. ASSUME NEW c \in Call, Insert(c) PROVE CacheInv'
  <2> DEFINE row == [prompt |-> PromptOf[c], response |-> answer[c], hits |-> 0]
  <2>1. row \in Row /\ row.response = row.prompt
    BY <1>5, PromptAssumption DEF Insert, Row
  <2>2. cache' = Append(cache, row)
    BY <1>5 DEF Insert
  <2>3. RowsOwn'
    <3>1. \A id \in DOMAIN cache' : (id \in DOMAIN cache /\ cache'[id] = cache[id])
                                    \/ cache'[id] = row
      BY <2>1, <2>2, Inserted
    <3> QED
      BY <2>1, <3>1
  <2> QED
    BY <1>5, <2>3 DEF Insert
<1>6. ASSUME NEW c \in Call, CountHit(c) \/ CountHitFails(c) PROVE CacheInv'
  <2>1. RowsOwn'
    BY <1>6, CountedHit DEF CountHit, CountHitFails
  <2> QED
    BY <1>6, <2>1 DEF CountHit, CountHitFails
<1>7. CASE Crash
  BY <1>7 DEF Crash, Ended
<1>8. CASE UNCHANGED vars
  BY <1>8 DEF vars
<1> QED
  BY <1>1, <1>2, <1>3, <1>4, <1>5, <1>6, <1>7, <1>8 DEF Next, Handle, Background

LEMMA CacheAlways == Spec => []CacheInv
<1>1. QED
  BY CacheInit, CacheStep, PTL DEF Spec

\* Type correctness of the calls, the table and the counters.
THEOREM TypeCorrect == Spec => []TypeOK
<1>1. CacheInv => TypeOK
  BY DEF CacheInv
<1>2. QED
  BY <1>1, CacheAlways, PTL

\* Answers from the cache never drift away from the prompts they were given
\* for: one step of similarity, whatever the chain of hits.
THEOREM AnswersDoNotDrift == Spec => []NoDrift
<1>1. CacheInv => NoDrift
  BY DEF CacheInv
<1>2. QED
  BY <1>1, CacheAlways, PTL
-----------------------------------------------------------------------------
\* The counts of hits.
Hitting == {c \in Call : stage[c] = "hit"}
Pending == {c \in Call : bump[c] # 0}
Looking == {c \in Call : stage[c] \in {"embed", "query"}}

\* A call that was answered from a row stays so, and its update is under way,
\* counted in the row, or lost (when it failed, perhaps both of these).
CountInv ==
    /\ Pending \subseteq Hitting
    /\ Hits + Cardinality(Pending) <= Cardinality(Hitting)
    /\ Cardinality(Hitting) <= Hits + lost + Cardinality(Pending)
    /\ hitCount + Cardinality(Looking) <= totalCount

HitsOf == [id \in DOMAIN cache |-> cache[id].hits]

LEMMA RowsFinite ==
    ASSUME TypeOK
    PROVE  /\ IsFiniteSet(DOMAIN cache) /\ \A id \in DOMAIN cache : HitsOf[id] \in Nat
           /\ Hits \in Nat
<1>1. cache \in Seq(Row)
  BY DEF TypeOK
<1>2. IsFiniteSet(DOMAIN cache)
  <2>1. DOMAIN cache = 1..Len(cache) /\ Len(cache) \in Nat
    BY <1>1
  <2> QED
    BY <2>1, FS_Interval
<1>3. \A id \in DOMAIN cache : HitsOf[id] \in Nat
  <2>1. \A id \in DOMAIN cache : cache[id] \in Row
    BY <1>1
  <2> QED
    BY <2>1 DEF HitsOf, Row
<1>4. SumFunctionOnSet(HitsOf, DOMAIN cache) \in Nat
  BY <1>2, <1>3, SumNat
<1> QED
  BY <1>2, <1>3, <1>4 DEF Hits, HitsOf

\* A hit that is counted adds one to the sum ...
LEMMA HitsCounted ==
    ASSUME TypeOK, NEW c \in Call, bump[c] # 0,
           cache' = [cache EXCEPT ![bump[c]].hits = @ + 1]
    PROVE  Hits' = Hits + 1
<1>1. bump[c] \in DOMAIN cache /\ cache \in Seq(Row)
  BY DEF TypeOK
<1>2. cache[bump[c]] \in Row
  BY <1>1
<1>3. [cache[bump[c]] EXCEPT !.hits = @ + 1].hits = HitsOf[bump[c]] + 1
  BY <1>1, <1>2 DEF Row, HitsOf
<1>4. cache' = [cache EXCEPT ![bump[c]] = [cache[bump[c]] EXCEPT !.hits = @ + 1]]
  OBVIOUS
<1> DEFINE w == [id \in DOMAIN cache |-> cache'[id].hits]
<1>5. DOMAIN cache' = DOMAIN cache
  BY <1>4
<1>6. w[bump[c]] = HitsOf[bump[c]] + 1 /\ \A id \in DOMAIN cache \ {bump[c]} : w[id] = HitsOf[id]
  BY <1>1, <1>3, <1>4 DEF HitsOf
<1>7. \A id \in DOMAIN cache : HitsOf[id] \in Int /\ w[id] \in Int
  BY <1>1, <1>6, RowsFinite
<1>8. Hits' = SumFunctionOnSet(w, DOMAIN cache)
  BY <1>5 DEF Hits
<1> HIDE DEF w
<1>9. SumFunctionOnSet(w, DOMAIN cache) = SumFunctionOnSet(HitsOf, DOMAIN cache) + w[bump[c]] - HitsOf[bump[c]]
  <2> DEFINE b == bump[c]
             D == DOMAIN cache
  <2>1. b \in D /\ IsFiniteSet(D)
    BY <1>1, RowsFinite
  <2>2. /\ \A id \in D : HitsOf[id] \in Int /\ w[id] \in Int
        /\ \A id \in D \ {b} : w[id] = HitsOf[id]
    BY <1>6, <1>7
  <2> HIDE DEF b, D
  <2>3. SumFunctionOnSet(w, D) = SumFunctionOnSet(HitsOf, D) + w[b] - HitsOf[b]
    BY <2>1, <2>2, SumUpdate
  <2> QED
    BY <2>3 DEF b, D
<1>10. SumFunctionOnSet(HitsOf, DOMAIN cache) = Hits /\ HitsOf[bump[c]] \in Nat
  BY <1>1, RowsFinite DEF Hits, HitsOf
<1> QED
  BY <1>6, <1>8, <1>9, <1>10, RowsFinite

\* ... and a row that is inserted adds none.
LEMMA HitsInserted ==
    ASSUME TypeOK, NEW row \in Row, row.hits = 0, cache' = Append(cache, row)
    PROVE  Hits' = Hits
<1>1. cache \in Seq(Row) /\ Len(cache) \in Nat /\ DOMAIN cache = 1..Len(cache)
  BY DEF TypeOK
<1> DEFINE n == Len(cache) + 1
<1>2. /\ DOMAIN cache' = DOMAIN cache \cup {n} /\ n \notin DOMAIN cache
      /\ cache'[n] = row /\ \A id \in DOMAIN cache : cache'[id] = cache[id]
  BY <1>1
<1> DEFINE w == [id \in DOMAIN cache' |-> cache'[id].hits]
<1>3. w[n] = 0 /\ \A id \in DOMAIN cache : w[id] = HitsOf[id]
  BY <1>2 DEF HitsOf
<1>4. Hits' = SumFunctionOnSet(w, DOMAIN cache \cup {n})
  BY <1>2 DEF Hits
<1> HIDE DEF w, n
<1>5. \A id \in DOMAIN cache : HitsOf[id] \in Int
  BY RowsFinite
<1>6. \A id \in DOMAIN cache \cup {n} : w[id] \in Int
  BY <1>3, <1>5
<1>7. SumFunctionOnSet(w, DOMAIN cache \cup {n}) = w[n] + SumFunctionOnSet(w, DOMAIN cache)
  BY <1>2, <1>6, RowsFinite, SumAdd
<1>8. SumFunctionOnSet(HitsOf, DOMAIN cache) = SumFunctionOnSet(w, DOMAIN cache)
  BY <1>3, <1>5, RowsFinite, SumSame
<1>9. SumFunctionOnSet(HitsOf, DOMAIN cache) = Hits
  BY DEF Hits, HitsOf
<1> QED
  BY <1>3, <1>4, <1>7, <1>8, <1>9, RowsFinite

\* One call changes its stage, its update or both.
LEMMA CountsStep ==
    ASSUME TypeOK, TypeOK', NEW c \in Call,
           \A x \in Call \ {c} : stage'[x] = stage[x] /\ bump'[x] = bump[x]
    PROVE  /\ Cardinality(Pending) \in Nat /\ Cardinality(Hitting) \in Nat /\ Cardinality(Looking) \in Nat
           /\ Cardinality(Pending)' = Cardinality(Pending) + (IF c \in Pending' THEN 1 ELSE 0) - (IF c \in Pending THEN 1 ELSE 0)
           /\ Cardinality(Hitting)' = Cardinality(Hitting) + (IF c \in Hitting' THEN 1 ELSE 0) - (IF c \in Hitting THEN 1 ELSE 0)
           /\ Cardinality(Looking)' = Cardinality(Looking) + (IF c \in Looking' THEN 1 ELSE 0) - (IF c \in Looking THEN 1 ELSE 0)
<1> DEFINE Differ(A, B) == A \in SUBSET Call /\ B \in SUBSET Call /\ A \ {c} = B \ {c}
<1>1. Differ(Pending, Pending') /\ Differ(Hitting, Hitting') /\ Differ(Looking, Looking')
  BY DEF Pending, Hitting, Looking
<1>2. ASSUME NEW A, NEW B, Differ(A, B)
      PROVE  /\ Cardinality(A) \in Nat
             /\ Cardinality(B) = Cardinality(A) + (IF c \in B THEN 1 ELSE 0) - (IF c \in A THEN 1 ELSE 0)
  <2>1. /\ Cardinality(A) \in Nat /\ Cardinality(B) \in Nat
        /\ c \in A /\ c \notin B => Cardinality(B) = Cardinality(A) - 1
        /\ c \notin A /\ c \in B => Cardinality(B) = Cardinality(A) + 1
        /\ (c \in A <=> c \in B) => Cardinality(B) = Cardinality(A)
    BY <1>2, CallAssumption, CountStep
  <2> QED
    BY <2>1
<1> HIDE DEF Differ
<1> QED
  BY <1>1, <1>2

LEMMA HitsType == TypeOK => Hits \in Nat
BY RowsFinite

LEMMA HitsTypeNext == (TypeOK => Hits \in Nat)'
BY HitsType, PTL

LEMMA CountInit == Init => CountInv
<1> SUFFICES ASSUME Init PROVE CountInv
  OBVIOUS
<1>1. Pending = {} /\ Hitting = {} /\ Looking = {}
  BY DEF Init, Pending, Hitting, Looking
<1>2. DOMAIN cache = {}
  BY DEF Init
<1>3. Hits = 0
  BY <1>2, SumEmpty DEF Hits
<1> QED
  BY <1>1, <1>3, FS_EmptySet DEF Init, CountInv

LEMMA CountInvStep == TypeOK /\ TypeOK' /\ StoresOwn /\ CountInv /\ [Next]_vars => CountInv'
<1> SUFFICES ASSUME TypeOK, TypeOK', StoresOwn, CountInv, [Next]_vars PROVE CountInv'
  OBVIOUS
<1>0. Hits \in Nat /\ Hits' \in Nat /\ lost \in Nat /\ hitCount \in Nat /\ totalCount \in Nat
  BY HitsType, HitsTypeNext DEF TypeOK
<1> DEFINE P == Cardinality(Pending)
           H == Cardinality(Hitting)
           L == Cardinality(Looking)
           Alone(c) == \A x \in Call \ {c} : stage'[x] = stage[x] /\ bump'[x] = bump[x]
           Changes(c) ==
               /\ P \in Nat /\ H \in Nat /\ L \in Nat
               /\ P' = P + (IF c \in Pending' THEN 1 ELSE 0) - (IF c \in Pending THEN 1 ELSE 0)
               /\ H' = H + (IF c \in Hitting' THEN 1 ELSE 0) - (IF c \in Hitting THEN 1 ELSE 0)
               /\ L' = L + (IF c \in Looking' THEN 1 ELSE 0) - (IF c \in Looking THEN 1 ELSE 0)
           Inv(h, t, l, hits) ==
               /\ hits + P <= H
               /\ H <= hits + l + P
               /\ h + L <= t
<1>a. ASSUME NEW c \in Call, Alone(c)
      PROVE  Changes(c) /\ (c \in Pending' => c \in Hitting' ) => Pending' \subseteq Hitting'
  BY <1>a DEF CountInv, Pending, Hitting
<1>b. ASSUME NEW c \in Call, Alone(c) PROVE Changes(c)
  BY <1>b, CountsStep
<1>c. Inv(hitCount, totalCount, lost, Hits) /\ Pending \subseteq Hitting
  BY DEF CountInv
<1>d. ASSUME NEW c \in Call, Alone(c), c \in Pending' => c \in Hitting',
             Hits' + P' <= H', H' <= Hits' + lost' + P', hitCount' + L' <= totalCount'
      PROVE  CountInv'
  BY <1>a, <1>b, <1>d DEF CountInv
<1>1. ASSUME NEW c \in Call, Probe(c) \/ Embedded(c) \/ NoHit(c) \/ ProviderAnswers(c) \/ AllProvidersFail(c)
      PROVE CountInv'
  <2>1. Alone(c) /\ UNCHANGED <<bump, cache, hitCount, lost>>
    BY <1>1 DEF TypeOK, Put, counterVars, Probe, Embedded, NoHit, ProviderAnswers, AllProvidersFail
  <2>2. Hits' = Hits
    BY <2>1 DEF Hits
  <2>3. /\ stage[c] # "hit" /\ stage'[c] # "hit" /\ bump'[c] = bump[c]
        /\ \/ c \in Looking' /\ c \notin Looking /\ totalCount' = totalCount + 1
           \/ (c \in Looking' => c \in Looking) /\ totalCount' = totalCount
    BY <1>1 DEF TypeOK, Put, counterVars, Looking, Probe, Embedded, NoHit, ProviderAnswers,
                AllProvidersFail
  <2>4. c \notin Hitting /\ c \notin Hitting' /\ c \notin Pending /\ c \notin Pending'
    BY <1>c, <2>3 DEF Hitting, Pending
  <2>5. Changes(c)
    BY <1>b, <2>1
  <2> HIDE DEF P, H, L, Alone
  <2>6. P' = P /\ H' = H /\ hitCount' + L' <= totalCount'
    BY <1>0, <1>c, <2>1, <2>3, <2>4, <2>5
  <2> QED
    BY <1>c, <1>d, <2>1, <2>2, <2>4, <2>6
<1>2. ASSUME NEW c \in Call, QueryHit(c) PROVE CountInv'
  <2>1. /\ Alone(c) /\ UNCHANGED <<cache, totalCount, lost>> /\ hitCount' = hitCount + 1
        /\ stage[c] = "query" /\ stage'[c] = "hit" /\ bump'[c] # 0
    <3>1. PICK id \in DOMAIN cache : stage' = Put(stage, c, "hit") /\ bump' = Put(bump, c, id)
      BY <1>2 DEF QueryHit
    <3>2. id # 0
      BY <3>1 DEF TypeOK
    <3> QED
      BY <1>2, <3>1, <3>2 DEF QueryHit, TypeOK, Put
  <2>2. Hits' = Hits
    BY <2>1 DEF Hits
  <2>3. /\ c \in Looking /\ c \notin Looking' /\ c \notin Hitting /\ c \in Hitting'
        /\ c \notin Pending /\ c \in Pending'
    BY <1>c, <2>1 DEF Looking, Hitting, Pending
  <2>4. Changes(c)
    BY <1>b, <2>1
  <2> HIDE DEF P, H, L, Alone
  <2>5. P' = P + 1 /\ H' = H + 1 /\ L' = L - 1
    BY <2>3, <2>4
  <2> QED
    BY <1>0, <1>c, <1>d, <2>1, <2>2, <2>3, <2>4, <2>5
<1>3. ASSUME NEW c \in Call, StoreEmbeds(c) \/ StoreFails(c) \/ Insert(c) PROVE CountInv'
  <2>1. UNCHANGED <<stage, bump, hitCount, totalCount, lost>>
    BY <1>3 DEF StoreEmbeds, StoreFails, Insert, callVars, counterVars
  <2>2. Hits' = Hits
    <3>1. CASE Insert(c)
      <4> DEFINE row == [prompt |-> PromptOf[c], response |-> answer[c], hits |-> 0]
      <4>1. row \in Row /\ row.hits = 0 /\ cache' = Append(cache, row)
        BY <3>1, PromptAssumption DEF Insert, StoresOwn, Row
      <4> HIDE DEF row
      <4> QED
        BY <4>1, HitsInserted
    <3>2. CASE UNCHANGED cache
      BY <3>2 DEF Hits
    <3> QED
      BY <1>3, <3>1, <3>2 DEF StoreEmbeds, StoreFails
  <2> QED
    BY <2>1, <2>2 DEF CountInv, Pending, Hitting, Looking
<1>4. ASSUME NEW c \in Call, CountHit(c) \/ CountHitFails(c) PROVE CountInv'
  <2>1. /\ Alone(c) /\ UNCHANGED <<stage, hitCount, totalCount>> /\ bump[c] # 0 /\ bump'[c] = 0
        /\ \/ lost' = lost /\ cache' = [cache EXCEPT ![bump[c]].hits = @ + 1]
           \/ lost' = lost + 1 /\ cache' = [cache EXCEPT ![bump[c]].hits = @ + 1]
           \/ lost' = lost + 1 /\ cache' = cache
    BY <1>4 DEF CountHit, CountHitFails, TypeOK, Put, callVars, counterVars
  <2>2. \/ lost' = lost /\ Hits' = Hits + 1
        \/ lost' = lost + 1 /\ Hits' \in {Hits, Hits + 1}
    <3>1. cache' = cache => Hits' = Hits
      BY DEF Hits
    <3> QED
      BY <2>1, <3>1, HitsCounted
  <2>3. /\ c \in Pending /\ c \notin Pending'
        /\ c \in Hitting <=> c \in Hitting' 
        /\ c \in Looking <=> c \in Looking' 
    BY <2>1 DEF Pending, Hitting, Looking
  <2>4. Changes(c)
    BY <1>b, <2>1
  <2> HIDE DEF P, H, L, Alone
  <2>5. P' = P - 1 /\ H' = H /\ L' = L
    BY <2>3, <2>4
  <2> QED
    BY <1>0, <1>c, <1>d, <2>1, <2>2, <2>3, <2>4, <2>5
<1>5. CASE Crash
  <2>1. /\ Hits' = Hits /\ lost' = lost + P /\ hitCount' = 0 /\ totalCount' = 0
        /\ Pending' = {} /\ Looking' = {} /\ Hitting' = Hitting
    BY <1>5 DEF Crash, Hits, TypeOK, Pending, Looking, Hitting, Ended
  <2>2. P \in Nat /\ H \in Nat
    BY CallAssumption, FS_Subset, FS_CardinalityType DEF Pending, Hitting
  <2> QED
    BY <1>0, <1>c, <2>1, <2>2, FS_EmptySet DEF CountInv
<1>6. CASE UNCHANGED vars
  BY <1>6 DEF vars, callVars, counterVars, CountInv, Hits, Pending, Hitting, Looking
<1> QED
  BY <1>1, <1>2, <1>3, <1>4, <1>5, <1>6 DEF Next, Handle, Background

\* The rows count no hit twice, and none is missing but those whose update is
\* under way, failed or died with the gateway; hitRate is at most 100%.
THEOREM HitsAreBalanced == Spec => []HitsBalance
<1>1. TypeOK /\ CountInv => HitsBalance
  <2> SUFFICES ASSUME TypeOK, CountInv PROVE HitsBalance
    OBVIOUS
  <2>1. Cardinality(Pending) \in Nat /\ Cardinality(Hitting) \in Nat /\ Cardinality(Looking) \in Nat
    BY CallAssumption, FS_Subset, FS_CardinalityType DEF Pending, Hitting, Looking
  <2>2. InState({"hit"}) = Cardinality(Hitting) /\ InState({"embed", "query"}) = Cardinality(Looking)
    <3>1. {c \in Call : stage[c] \in {"hit"}} = Hitting
      BY DEF Hitting
    <3> QED
      BY <3>1 DEF InState, Looking
  <2>3. Hits \in Nat
    BY RowsFinite
  <2> QED
    BY <2>1, <2>2, <2>3 DEF CountInv, HitsBalance, Pending
<1>2. CacheInv => TypeOK /\ StoresOwn
  BY DEF CacheInv
<1>3. QED
  BY <1>1, <1>2, CacheAlways, CountInit, CountInvStep, PTL DEF Spec
-----------------------------------------------------------------------------
\* The refinement of CachePromise.
Kept    == {cache[id].prompt : id \in DOMAIN cache}
Keeping == {c \in Call : store[c] # "none"}

\* A call that is still on its way to an answer has none.
Unanswered == \A c \in Call : stage[c] \in {"new", "embed", "query", "provider"} => answer[c] = None

LEMMA UnansweredStep == CacheInv /\ Unanswered /\ [Next]_vars => Unanswered'
<1> SUFFICES ASSUME CacheInv, Unanswered, [Next]_vars PROVE Unanswered'
  OBVIOUS
<1> USE DEF CacheInv, TypeOK, Unanswered, Put, callVars
<1>1. ASSUME NEW c \in Call, Handle(c) PROVE Unanswered'
  BY <1>1 DEF Handle, Probe, Embedded, QueryHit, NoHit, ProviderAnswers, AllProvidersFail
<1>2. ASSUME NEW c \in Call, Background(c) PROVE Unanswered'
  BY <1>2 DEF Background, StoreEmbeds, Insert, StoreFails, CountHit, CountHitFails
<1>3. CASE Crash
  BY <1>3 DEF Crash, Ended
<1>4. CASE UNCHANGED vars
  BY <1>4 DEF vars
<1> QED
  BY <1>1, <1>2, <1>3, <1>4 DEF Next

LEMMA PromiseInit == Init => Promise!Init
<1> SUFFICES ASSUME Init PROVE Promise!Init
  OBVIOUS
<1>1. Kept = {} /\ Keeping = {}
  BY DEF Init, Kept, Keeping
<1> QED
  BY <1>1 DEF Init, Promise!Init, Kept, Keeping

LEMMA PromiseStep == CacheInv /\ Unanswered /\ [Next]_vars => [Promise!Next]_(Promise!cacheVars)
<1> SUFFICES ASSUME CacheInv, Unanswered, [Next]_vars
             PROVE  Promise!Next \/ UNCHANGED <<Kept, Keeping, answer>>
  BY DEF Promise!cacheVars, Kept, Keeping
<1> USE DEF CacheInv, TypeOK, Put, callVars
<1>1. ASSUME NEW c \in Call, Probe(c) \/ Embedded(c) \/ NoHit(c) \/ AllProvidersFail(c)
      PROVE UNCHANGED <<Kept, Keeping, answer>>
  BY <1>1 DEF Probe, Embedded, NoHit, AllProvidersFail, Kept, Keeping
<1>2. ASSUME NEW c \in Call, QueryHit(c) PROVE Promise!Next
  <2>1. PICK id \in DOMAIN cache :
            /\ Matches(c, cache[id]) /\ stage[c] = "query"
            /\ answer' = [answer EXCEPT ![c] = cache[id].response]
            /\ UNCHANGED <<store, cache>>
    BY <1>2 DEF QueryHit
  <2>2. cache[id].response = cache[id].prompt /\ cache[id].prompt \in Kept
    BY DEF RowsOwn, Kept
  <2>3. <<PromptOf[c], cache[id].prompt>> \in Similar /\ answer[c] = None
    BY <2>1 DEF Matches, Unanswered
  <2>4. Kept' = Kept /\ Keeping' = Keeping
    BY <2>1 DEF Kept, Keeping
  <2>5. Promise!Serve(c)
    BY <2>1, <2>2, <2>3, <2>4 DEF Promise!Serve, Promise!Reply, Kept, Keeping
  <2> QED
    BY <2>5 DEF Promise!Next
<1>3. ASSUME NEW c \in Call, ProviderAnswers(c) PROVE Promise!Next
  <2>1. Kept' = Kept
    BY <1>3 DEF ProviderAnswers, Kept
  <2>2. Keeping' = IF enabled THEN Keeping \cup {c} ELSE Keeping
    BY <1>3 DEF ProviderAnswers, Keeping, StoresAnswered
  <2>3. answer[c] = None /\ answer' = [answer EXCEPT ![c] = PromptOf[c]]
    BY <1>3 DEF ProviderAnswers, Unanswered
  <2>4. Promise!Answer(c)
    BY <2>1, <2>2, <2>3 DEF Promise!Answer, Promise!Reply, Kept, Keeping
  <2> QED
    BY <2>4 DEF Promise!Next
<1>4. ASSUME NEW c \in Call, StoreEmbeds(c) PROVE UNCHANGED <<Kept, Keeping, answer>>
  BY <1>4 DEF StoreEmbeds, Kept, Keeping
<1>5. ASSUME NEW c \in Call, StoreFails(c) PROVE Promise!Next
  <2>1. Kept' = Kept /\ c \in Keeping /\ Keeping' = Keeping \ {c} /\ answer' = answer
    BY <1>5 DEF StoreFails, Kept, Keeping
  <2>2. Promise!GiveUp(c)
    BY <2>1 DEF Promise!GiveUp, Kept, Keeping
  <2> QED
    BY <2>2 DEF Promise!Next
<1>6. ASSUME NEW c \in Call, Insert(c) PROVE Promise!Next
  <2> DEFINE row == [prompt |-> PromptOf[c], response |-> answer[c], hits |-> 0]
  <2>1. cache' = Append(cache, row) /\ row.prompt = PromptOf[c]
    BY <1>6 DEF Insert
  <2>2. Kept' = Kept \cup {PromptOf[c]}
    <3>1. /\ DOMAIN cache' = DOMAIN cache \cup {Len(cache) + 1}
          /\ \A id \in DOMAIN cache : cache'[id] = cache[id]
          /\ cache'[Len(cache) + 1] = row /\ Len(cache) + 1 \notin DOMAIN cache
      BY <2>1
    <3> QED
      BY <2>1, <3>1 DEF Kept
  <2>3. c \in Keeping /\ Keeping' = Keeping \ {c} /\ answer' = answer
    BY <1>6 DEF Insert, Keeping
  <2>4. Promise!Keep(c)
    BY <2>2, <2>3 DEF Promise!Keep, Kept, Keeping
  <2> QED
    BY <2>4 DEF Promise!Next
<1>7. ASSUME NEW c \in Call, CountHit(c) \/ CountHitFails(c)
      PROVE UNCHANGED <<Kept, Keeping, answer>>
  <2>1. Kept' = Kept
    <3>1. CASE UNCHANGED cache
      BY <3>1 DEF Kept
    <3>2. CASE cache' = [cache EXCEPT ![bump[c]].hits = @ + 1]
      <4>1. bump[c] # 0
        BY <1>7 DEF CountHit, CountHitFails
      <4>2. /\ DOMAIN cache' = DOMAIN cache
            /\ \A id \in DOMAIN cache : cache'[id].prompt = cache[id].prompt
        BY <3>2, <4>1, CountedHit
      <4> QED
        BY <4>2 DEF Kept
    <3> QED
      BY <1>7, <3>1, <3>2 DEF CountHit, CountHitFails
  <2>2. Keeping' = Keeping /\ answer' = answer
    BY <1>7 DEF CountHit, CountHitFails, Keeping
  <2> QED
    BY <2>1, <2>2
<1>8. CASE Crash
  <2>1. Kept' = Kept /\ Keeping' = {} /\ answer' = answer
    BY <1>8 DEF Crash, Kept, Keeping
  <2>2. Promise!Die
    BY <2>1 DEF Promise!Die, Kept, Keeping
  <2> QED
    BY <2>2 DEF Promise!Next
<1>9. CASE UNCHANGED vars
  BY <1>9 DEF vars, Kept, Keeping
<1> QED
  BY <1>1, <1>2, <1>3, <1>4, <1>5, <1>6, <1>7, <1>8, <1>9 DEF Next, Handle, Background

\* The cache keeps its promise: lookups and stores of several round trips each,
\* with their failures and restarts, are steps of CachePromise or none.
THEOREM Refinement == Spec => ImplementsPromise
<1>1. Init => Unanswered
  BY DEF Init, Unanswered
<1>2. QED
  BY <1>1, PromiseInit, PromiseStep, UnansweredStep, CacheAlways, PTL
     DEF Spec, ImplementsPromise, Promise!Spec
=============================================================================
