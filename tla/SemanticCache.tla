---------------------------- MODULE SemanticCache ----------------------------
(***************************************************************************)
(* SemanticCacheService as the gateway uses it: findSimilar before the     *)
(* providers are asked, and, in the background, the store of what they     *)
(* answered and the hit_count of a row that was served.                    *)
(*                                                                         *)
(* A prompt is the last user message of a conversation.  An answer is      *)
(* named by the prompt that the providers were given for it.  The index is *)
(* approximate: a lookup may find any row within the threshold, or none.   *)
(* An embedding request or a statement may fail at any time, an insert or  *)
(* an update before or after it took effect.                               *)
(***************************************************************************)
EXTENDS Integers, Sequences, FiniteSets, Functions

CONSTANTS
    Call,       \* the calls to the gateway that reach the cache
    Prompt,
    PromptOf,   \* the prompt of each call
    Similar,    \* pairs of prompts with a similarity >= the threshold
    None,       \* no answer
    MaxCrashes  \* bound: restarts of the gateway

ASSUME CallAssumption    == IsFiniteSet(Call)
ASSUME PromptAssumption  == PromptOf \in [Call -> Prompt] /\ None \notin Prompt
ASSUME SimilarAssumption == \A p \in Prompt : <<p, p>> \in Similar
ASSUME CrashAssumption   == MaxCrashes \in Nat

VARIABLES
    enabled,    \* cacheEffectivelyEnabled
    stage,      \* how far the call is
    answer,     \* what it is answered with
    store,      \* its store() in the background
    bump,       \* the row whose hit_count it increments in the background, or 0
    cache,      \* the rows of prompt_cache, by id
    hitCount, totalCount,  \* the counters behind hitRate
    lost,       \* history: hit_count updates that failed or died
    crashes     \* restarts so far

callVars    == <<stage, answer>>
counterVars == <<hitCount, totalCount>>
vars == <<enabled, callVars, store, bump, cache, counterVars, lost, crashes>>

Row    == [prompt : Prompt, response : Prompt, hits : Nat]
Stages == {"new", "embed", "query", "provider", "hit", "answered", "failed", "dead"}
Ended  == {"hit", "answered", "failed", "dead"}

TypeOK ==
    /\ enabled \in BOOLEAN
    /\ stage \in [Call -> Stages]
    /\ answer \in [Call -> Prompt \cup {None}]
    /\ store \in [Call -> {"none", "embed", "insert"}]
    /\ bump \in [Call -> Nat]
    /\ \A c \in Call : bump[c] \in {0} \cup DOMAIN cache
    /\ cache \in Seq(Row)
    /\ hitCount \in Nat
    /\ totalCount \in Nat
    /\ lost \in Nat
    /\ crashes \in 0..MaxCrashes

\* onModuleInit: the cache works if it is switched on and has an embedding key.
Init ==
    /\ enabled \in BOOLEAN
    /\ stage = [c \in Call |-> "new"]
    /\ answer = [c \in Call |-> None]
    /\ store = [c \in Call |-> "none"]
    /\ bump = [c \in Call |-> 0]
    /\ cache = <<>>
    /\ hitCount = 0
    /\ totalCount = 0
    /\ lost = 0
    /\ crashes = 0
-----------------------------------------------------------------------------
Put(f, c, v) == [f EXCEPT ![c] = v]

\* The controller probes the cache if it is enabled; findSimilar counts the
\* probe and asks for the embedding of the prompt.
Probe(c) ==
    /\ stage[c] = "new"
    /\ stage' = Put(stage, c, IF enabled THEN "embed" ELSE "provider")
    /\ totalCount' = IF enabled THEN totalCount + 1 ELSE totalCount
    /\ UNCHANGED <<enabled, answer, store, bump, cache, hitCount, lost, crashes>>

Embedded(c) ==
    /\ stage[c] = "embed"
    /\ stage' = Put(stage, c, "query")
    /\ UNCHANGED <<enabled, answer, store, bump, cache, counterVars, lost, crashes>>

Matches(c, row) == <<PromptOf[c], row.prompt>> \in Similar

\* Mutant: an answer from the cache is stored again, under the new prompt.
QueryHitStores(c) ==
    \E id \in DOMAIN cache :
        /\ stage[c] = "query"
        /\ Matches(c, cache[id])
        /\ stage' = Put(stage, c, "hit")
        /\ answer' = Put(answer, c, cache[id].response)
        /\ store' = Put(store, c, "embed")
        /\ bump' = Put(bump, c, id)
        /\ hitCount' = hitCount + 1
        /\ UNCHANGED <<enabled, cache, totalCount, lost, crashes>>

\* Mutant: the providers are asked although a row was found.
QueryHitAsks(c) ==
    \E id \in DOMAIN cache :
        /\ stage[c] = "query"
        /\ Matches(c, cache[id])
        /\ stage' = Put(stage, c, "provider")
        /\ answer' = Put(answer, c, cache[id].response)
        /\ bump' = Put(bump, c, id)
        /\ hitCount' = hitCount + 1
        /\ UNCHANGED <<enabled, store, cache, totalCount, lost, crashes>>

\* The query finds a row: its response is the answer.
QueryHit(c) ==
    \E id \in DOMAIN cache :
        /\ stage[c] = "query"
        /\ Matches(c, cache[id])
        /\ stage' = Put(stage, c, "hit")
        /\ answer' = Put(answer, c, cache[id].response)
        /\ bump' = Put(bump, c, id)
        /\ hitCount' = hitCount + 1
        /\ UNCHANGED <<enabled, store, cache, totalCount, lost, crashes>>

\* Mutant: a lookup that fails is tried again.
NoHitRetries(c) ==
    /\ stage[c] \in {"embed", "query"}
    /\ stage' = Put(stage, c, "embed")
    /\ UNCHANGED <<enabled, answer, store, bump, cache, counterVars, lost, crashes>>

\* The query finds none, or the embedding or the query fails: no answer.
NoHit(c) ==
    /\ stage[c] \in {"embed", "query"}
    /\ stage' = Put(stage, c, "provider")
    /\ UNCHANGED <<enabled, answer, store, bump, cache, counterVars, lost, crashes>>

\* A provider answers; what it answered is stored in the background.
ProviderAnswers(c) ==
    /\ stage[c] = "provider"
    /\ stage' = Put(stage, c, "answered")
    /\ answer' = Put(answer, c, PromptOf[c])
    /\ store' = Put(store, c, IF enabled THEN "embed" ELSE "none")
    /\ UNCHANGED <<enabled, bump, cache, counterVars, lost, crashes>>

AllProvidersFail(c) ==
    /\ stage[c] = "provider"
    /\ stage' = Put(stage, c, "failed")
    /\ UNCHANGED <<enabled, answer, store, bump, cache, counterVars, lost, crashes>>

\* store(): the prompt is embedded a second time ...
StoreEmbeds(c) ==
    /\ store[c] = "embed"
    /\ store' = Put(store, c, "insert")
    /\ UNCHANGED <<enabled, callVars, bump, cache, counterVars, lost, crashes>>

\* ... and inserted, also if another call has stored the same prompt.
Insert(c) ==
    /\ store[c] = "insert"
    /\ store' = Put(store, c, "none")
    /\ cache' = Append(cache, [prompt |-> PromptOf[c], response |-> answer[c], hits |-> 0])
    /\ UNCHANGED <<enabled, callVars, bump, counterVars, lost, crashes>>

\* The embedding or the insert fails, which is logged and forgotten.
StoreFails(c) ==
    /\ store[c] # "none"
    /\ store' = Put(store, c, "none")
    /\ UNCHANGED <<enabled, callVars, bump, cache, counterVars, lost, crashes>>

\* Mutant: the update is not limited to the row that was served.
CountHitEverywhere(c) ==
    /\ bump[c] # 0
    /\ cache' = [id \in DOMAIN cache |-> [cache[id] EXCEPT !.hits = @ + 1]]
    /\ bump' = Put(bump, c, 0)
    /\ UNCHANGED <<enabled, callVars, store, counterVars, lost, crashes>>

\* UPDATE prompt_cache SET hit_count = hit_count + 1 WHERE id = ...
CountHit(c) ==
    /\ bump[c] # 0
    /\ cache' = [cache EXCEPT ![bump[c]].hits = @ + 1]
    /\ bump' = Put(bump, c, 0)
    /\ UNCHANGED <<enabled, callVars, store, counterVars, lost, crashes>>

\* It fails, before or after it took effect.
CountHitFails(c) ==
    /\ bump[c] # 0
    /\ bump' = Put(bump, c, 0)
    /\ lost' = lost + 1
    /\ \/ UNCHANGED cache
       \/ cache' = [cache EXCEPT ![bump[c]].hits = @ + 1]
    /\ UNCHANGED <<enabled, callVars, store, counterVars, crashes>>

\* The gateway dies and starts again: its calls, the work it had in the
\* background and its counters are gone.
Crash ==
    /\ crashes < MaxCrashes
    /\ crashes' = crashes + 1
    /\ stage' = [c \in Call |-> IF stage[c] \in Ended \cup {"new"} THEN stage[c] ELSE "dead"]
    /\ store' = [c \in Call |-> "none"]
    /\ lost' = lost + Cardinality({c \in Call : bump[c] # 0})
    /\ bump' = [c \in Call |-> 0]
    /\ hitCount' = 0
    /\ totalCount' = 0
    /\ UNCHANGED <<enabled, answer, cache>>
-----------------------------------------------------------------------------
Handle(c) ==
    \/ Probe(c)
    \/ Embedded(c)
    \/ QueryHit(c)
    \/ NoHit(c)
    \/ ProviderAnswers(c)
    \/ AllProvidersFail(c)

Background(c) ==
    \/ StoreEmbeds(c)
    \/ Insert(c)
    \/ StoreFails(c)
    \/ CountHit(c)
    \/ CountHitFails(c)

Next ==
    \/ \E c \in Call : Handle(c) \/ Background(c)
    \/ Crash

Spec == Init /\ [][Next]_vars

\* The embedding service, Postgres and the providers answer, or fail, in the
\* end (the embedding request has no timer of its own).
Fairness == \A c \in Call : WF_vars(Handle(c))

FairSpec == Spec /\ Fairness
-----------------------------------------------------------------------------
(***************************************************************************)
(* Properties.                                                             *)
(***************************************************************************)

\* Answers do not drift: what a call is answered was given by a provider to a
\* prompt within the threshold of the call's own, however many calls were
\* answered from the cache in between.
NoDrift == \A c \in Call : answer[c] # None => <<PromptOf[c], answer[c]>> \in Similar

\* What the cache promises, with the table seen as the prompts it has rows for.
Promise == INSTANCE CachePromise WITH
    kept    <- {cache[id].prompt : id \in DOMAIN cache},
    keeping <- {c \in Call : store[c] # "none"}

\* Two round trips per lookup and two per store, each of which may fail or die,
\* with rows told apart only by their distance, implement it: no call is answered
\* from a row that holds another prompt's answer, none stores what it was served,
\* and none is answered twice.
ImplementsPromise == Promise!Spec

Hits       == SumFunctionOnSet([id \in DOMAIN cache |-> cache[id].hits], DOMAIN cache)
InState(S) == Cardinality({c \in Call : stage[c] \in S})

\* The counts of hits agree: the rows count no hit twice, and miss only those
\* whose update is under way, failed or died with the gateway; the process
\* never counts more hits than lookups that have ended (hitRate <= 100%).
HitsBalance ==
    /\ Hits <= InState({"hit"})
    /\ InState({"hit"}) <= Hits + lost + Cardinality({c \in Call : bump[c] # 0})
    /\ hitCount + InState({"embed", "query"}) <= totalCount

\* A lookup that finds nothing or fails delays its call and no more: every
\* call to the cache ends answered, refused by the providers, or dead.
CallsAnswered == \A c \in Call : (stage[c] # "new") ~> (stage[c] \in Ended)
=============================================================================
