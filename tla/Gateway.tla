------------------------------- MODULE Gateway -------------------------------
(***************************************************************************)
(* POST /v1/chat/completions from the request to the books: AuthGuard,     *)
(* BudgetInterceptor, validation, the semantic cache, the provider chain,  *)
(* the response, and the usage job that the worker of the same process     *)
(* turns into a log row and charges.                                       *)
(*                                                                         *)
(* The module composes Budget, CachePromise (which SemanticCache           *)
(* implements), ProviderPromise (which Provider implements) and            *)
(* UsageWorker: every action below is a step of one of them, or of two     *)
(* where the code couples them, together with the handler's own control.   *)
(***************************************************************************)
EXTENDS Integers, FiniteSets, Functions, Sequences

CONSTANTS
    Request, Key, KeyOf, BudgetType, Limit, Amount, \* as in Budget
    MaxRollBacks, MaxLostReplies,                   \* bounds of Budget
    Attempts, MaxFaults,                            \* as in UsageWorker, for all jobs
    MaxCrashes,                                     \* bound: process crashes
    CacheEnabled,                                   \* app.config.ts cache.enabled
    Prompt, PromptOf, Similar, None                 \* as in SemanticCache, for all requests

ASSUME RequestAssumption  == IsFiniteSet(Request) /\ "nobody" \notin Request
ASSUME KeyAssumption      == /\ KeyOf \in [Request -> Key]
                             /\ BudgetType \in [Key -> {"requests", "tokens", "cost_inr"}]
                             /\ Limit \in [Key -> Nat \ {0}]
ASSUME AmountAssumption   == Amount \subseteq Nat
ASSUME AttemptsAssumption == Attempts \in Nat \ {0}
ASSUME CacheAssumption    == /\ CacheEnabled \in BOOLEAN
                             /\ PromptOf \in [Request -> Prompt] /\ None \notin Prompt
                             /\ \A p \in Prompt : <<p, p>> \in Similar
ASSUME BoundAssumption    == /\ MaxRollBacks \in Nat /\ MaxLostReplies \in Nat
                             /\ MaxFaults \in Nat /\ MaxCrashes \in Nat

VARIABLES
    place,    \* where the handling of each request stands
    reply,    \* the HTTP status its caller received, 0 if none
    hit,      \* cache_hit
    adding,   \* requests whose usageQueue.add is not yet executed by Redis
    crashes,
    \* Budget
    counter, step, queue, unanswered, rollBacks, lostReplies, lost, wiped, wasted, charged,
    \* CachePromise
    kept, keeping, answer,
    \* ProviderPromise
    outcome, failures,
    \* UsageWorker
    job, units, lock, attempts, stalls, running, phase, rows, charges, syncs,
    runs, faults, rollBackedJobs

handlerVars  == <<place, reply, hit, adding, crashes>>
budgetVars   == <<counter, step, queue, unanswered, rollBacks, lostReplies, lost, wiped, wasted,
                  charged>>
cacheVars    == <<kept, keeping, answer>>
providerVars == <<outcome, failures>>
workerVars   == <<job, units, lock, attempts, stalls, running, phase, rows, charges, syncs,
                  runs, faults, rollBackedJobs>>

vars == <<handlerVars, budgetVars, cacheVars, providerVars, workerVars>>

\* Only the worker charges here, so that Budget's own bound is not used.
Budget == INSTANCE Budget WITH MaxCharged <- 0

Cache == INSTANCE CachePromise WITH Call <- Request

Promise == INSTANCE ProviderPromise

Worker == INSTANCE UsageWorker WITH
    Job          <- Request,
    JobType      <- [r \in Request |-> BudgetType[KeyOf[r]]],
    Attempts     <- [r \in Request |-> Attempts],
    MaxRollBacks <- 0

Places == {"idle", "auth", "budget", "cache", "provider", "respond", "flush", "closed", "dead"}
Open   == {"auth", "budget", "cache", "provider", "respond", "flush"}

Init ==
    /\ place = [r \in Request |-> "idle"]
    /\ reply = [r \in Request |-> 0]
    /\ hit = [r \in Request |-> FALSE]
    /\ adding = {}
    /\ crashes = 0
    /\ Budget!Init
    /\ Cache!Init
    /\ Promise!Init
    /\ Worker!Init
-----------------------------------------------------------------------------
Goto(r, p) == place' = [place EXCEPT ![r] = p]

\* An exception is answered with its status, and nothing else happens.
Throw(r, status) ==
    /\ Goto(r, "closed")
    /\ reply' = [reply EXCEPT ![r] = status]
    /\ UNCHANGED <<hit, adding, crashes>>

Arrive(r) ==
    /\ place[r] = "idle"
    /\ Goto(r, "auth")
    /\ UNCHANGED <<reply, hit, adding, crashes, budgetVars, cacheVars, providerVars, workerVars>>

\* AuthGuard: no bearer token, an empty one, or one no key hashes to.
Unauthorized(r) ==
    /\ place[r] = "auth"
    /\ Throw(r, 401)
    /\ UNCHANGED <<budgetVars, cacheVars, providerVars, workerVars>>

\* AuthGuard's findOne rejects: Postgres is away or fails the query.
AuthError(r) ==
    /\ place[r] = "auth"
    /\ Throw(r, 500)
    /\ UNCHANGED <<budgetVars, cacheVars, providerVars, workerVars>>

\* AuthGuard found the key; BudgetInterceptor begins its check.
Authenticate(r) ==
    /\ place[r] = "auth"
    /\ Goto(r, "budget")
    /\ Budget!Intercept(r)
    /\ UNCHANGED <<reply, hit, adding, crashes, cacheVars, providerVars, workerVars>>

CheckBudget(r) ==
    /\ place[r] = "budget"
    /\ Budget!CheckStep(r) \/ Budget!CheckFails(r)
    /\ UNCHANGED <<handlerVars, cacheVars, providerVars, workerVars>>

\* The interceptor has no catch: an error of Redis is answered 500.
CheckError(r) ==
    /\ place[r] = "budget"
    /\ step[r] = "failed"
    /\ Throw(r, 500)
    /\ UNCHANGED <<budgetVars, cacheVars, providerVars, workerVars>>

\* Mutant: the connection is closed without an answer.
BudgetExceededSilently(r) ==
    /\ place[r] = "budget"
    /\ step[r] = "refused"
    /\ Goto(r, "closed")
    /\ UNCHANGED <<reply, hit, adding, crashes, budgetVars, cacheVars, providerVars, workerVars>>

BudgetExceeded(r) ==
    /\ place[r] = "budget"
    /\ step[r] = "refused"
    /\ Throw(r, 429)
    /\ UNCHANGED <<budgetVars, cacheVars, providerVars, workerVars>>

\* Mutant: the unit of a bad request is given back by a DECR of its own.
BadRequestRefunds(r) ==
    /\ place[r] = "budget"
    /\ step[r] = "passed"
    /\ Throw(r, 400)
    /\ counter' = [counter EXCEPT ![KeyOf[r]] = @ - 1]
    /\ UNCHANGED <<step, queue, unanswered, rollBacks, lostReplies, lost, wiped, wasted, charged>>
    /\ UNCHANGED <<cacheVars, providerVars, workerVars>>

\* Pipes run after interceptors: a body that fails validation, or has no
\* messages, is refused when its unit has been counted.
BadRequest(r) ==
    /\ place[r] = "budget"
    /\ step[r] = "passed"
    /\ Throw(r, 400)
    /\ UNCHANGED <<budgetVars, cacheVars, providerVars, workerVars>>

\* Mutant: the handler runs whatever was decided.
HandleUnchecked(r) ==
    /\ place[r] = "budget"
    /\ step[r] \in {"passed", "refused"}
    /\ Goto(r, "cache")
    /\ UNCHANGED <<reply, hit, adding, crashes, budgetVars, cacheVars, providerVars, workerVars>>

Handle(r) ==
    /\ place[r] = "budget"
    /\ step[r] = "passed"
    /\ Goto(r, "cache")
    /\ UNCHANGED <<reply, hit, adding, crashes, budgetVars, cacheVars, providerVars, workerVars>>

\* findSimilar returns a row of prompt_cache, ...
CacheHit(r) ==
    /\ place[r] = "cache"
    /\ CacheEnabled
    /\ Cache!Serve(r)
    /\ Goto(r, "respond")
    /\ hit' = [hit EXCEPT ![r] = TRUE]
    /\ UNCHANGED <<reply, adding, crashes, budgetVars, providerVars, workerVars>>

\* ... or the cache is off, has nothing, or fails; then the provider is asked.
CacheMiss(r) ==
    /\ place[r] = "cache"
    /\ Goto(r, "provider")
    /\ Promise!Ask(r)
    /\ UNCHANGED <<reply, hit, adding, crashes, budgetVars, cacheVars, workerVars>>

ProviderFails(r) ==
    /\ place[r] = "provider"
    /\ Promise!FailOne(r)
    /\ UNCHANGED <<handlerVars, budgetVars, cacheVars, workerVars>>

\* The answer is stored in the background, where the cache is enabled.
ProviderAnswers(r) ==
    /\ place[r] = "provider"
    /\ Promise!Answer(r)
    /\ Cache!Answer(r)
    /\ keeping' = IF CacheEnabled THEN keeping \cup {r} ELSE keeping
    /\ Goto(r, "respond")
    /\ UNCHANGED <<reply, hit, adding, crashes, budgetVars, workerVars>>

\* Mutant: a call that failed is added with the status it began with, "success".
AllProvidersFailedCharged(r) ==
    /\ place[r] = "provider"
    /\ outcome[r] = "unavailable"
    /\ Goto(r, "closed")
    /\ reply' = [reply EXCEPT ![r] = 503]
    /\ adding' = adding \cup {r}
    /\ UNCHANGED <<hit, crashes, budgetVars, cacheVars, providerVars, workerVars>>

AllProvidersFailed(r) ==
    /\ place[r] = "provider"
    /\ outcome[r] = "unavailable"
    /\ Throw(r, 503)
    /\ UNCHANGED <<budgetVars, cacheVars, providerVars, workerVars>>

\* Mutant: a call answered from the cache is not logged.
RespondSkipsHits(r) ==
    /\ place[r] = "respond"
    /\ Goto(r, "flush")
    /\ adding' = IF hit[r] THEN adding ELSE adding \cup {r}
    /\ UNCHANGED <<reply, hit, crashes, budgetVars, cacheVars, providerVars, workerVars>>

\* The handler ends: it starts usageQueue.add and returns the response.
Respond(r) ==
    /\ place[r] = "respond"
    /\ Goto(r, "flush")
    /\ adding' = adding \cup {r}
    /\ UNCHANGED <<reply, hit, crashes, budgetVars, cacheVars, providerVars, workerVars>>

\* Nest sends the response.
Flush(r) ==
    /\ place[r] = "flush"
    /\ Goto(r, "closed")
    /\ reply' = [reply EXCEPT ![r] = 200]
    /\ UNCHANGED <<hit, adding, crashes, budgetVars, cacheVars, providerVars, workerVars>>

\* Redis executes the add.  A cache hit carries no tokens and no cost.
AddJob(r, u) ==
    /\ r \in adding
    /\ adding' = adding \ {r}
    /\ hit[r] => u = 0
    /\ Worker!Add(r, u)
    /\ UNCHANGED <<place, reply, hit, crashes, budgetVars, cacheVars, providerVars>>

\* What has become of store(), long after the answer was sent perhaps.
CacheWrites ==
    /\ \E r \in Request : Cache!Keep(r) \/ Cache!GiveUp(r)
    /\ UNCHANGED <<handlerVars, budgetVars, providerVars, workerVars>>
-----------------------------------------------------------------------------
\* The worker's steps that touch only the queue and Postgres.
WorkerOnly ==
    /\ \/ \E r \in Request : Worker!Take(r) \/ Worker!QueueStep(r)
       \/ Worker!InsertRow
       \/ Worker!UpdateBudgetUsed
       \/ Worker!Finish
    /\ UNCHANGED <<handlerVars, budgetVars, cacheVars, providerVars>>

\* The worker's step that adds to the Redis counter.
WorkerSyncs ==
    /\ Worker!SyncRedis
    /\ Budget!IncrementBy(KeyOf[running], units[running])
    /\ UNCHANGED <<handlerVars, cacheVars, providerVars>>

WorkerFaults ==
    \/ /\ Worker!DatabaseError \/ Worker!SyncFails \/ \E r \in Request : Worker!LockLost(r)
       /\ UNCHANGED <<handlerVars, budgetVars, cacheVars, providerVars>>
    \/ /\ Worker!SyncReplyLost
       /\ Budget!IncrementReplyLost(KeyOf[running], units[running])
       /\ UNCHANGED <<handlerVars, cacheVars, providerVars>>

\* Redis and its connection, as far as the counters go.
RedisFaults ==
    /\ \/ \E r \in Request : Budget!EvalReplyLost(r) \/ Budget!SeedReplyLost(r) \/ Budget!ReadReplyLost(r)
       \/ Budget!Reconnect
       \/ \E k \in Key : \E c \in Budget!Absent..counter[k] : Budget!RollBack(k, c)
    /\ UNCHANGED <<handlerVars, cacheVars, providerVars, workerVars>>

\* The process dies, the worker in it as well; commands not yet executed by
\* Redis are gone, the jobs in Redis are not.
Crash ==
    /\ crashes < MaxCrashes
    /\ crashes' = crashes + 1
    /\ place' = [r \in Request |-> IF place[r] \in Open THEN "dead" ELSE place[r]]
    /\ adding' = {}
    /\ Budget!Crash \/ (UNCHANGED budgetVars /\ \A r \in Request : step[r] \notin Budget!Checking)
    /\ Cache!Die
    /\ Promise!Die
    /\ Worker!WorkerCrash \/ (UNCHANGED workerVars /\ running = Worker!Nobody)
    /\ UNCHANGED <<reply, hit>>
-----------------------------------------------------------------------------
\* What the gateway does of its own, with Postgres and Redis, each of which
\* answers in the end, perhaps with an error.
Progress(r) ==
    \/ Authenticate(r) \/ Unauthorized(r) \/ AuthError(r)
    \/ CheckBudget(r) \/ CheckError(r) \/ BudgetExceeded(r)
    \/ Handle(r) \/ BadRequest(r)
    \/ AllProvidersFailed(r)
    \/ Respond(r) \/ Flush(r)

\* What waits for the embedding service and for the providers, none of which need
\* ever answer: the request for an embedding has no timer, and the body of a
\* provider's answer has none either (CallsEnd of Provider).
Upstream(r) ==
    \/ CacheHit(r) \/ CacheMiss(r)
    \/ ProviderFails(r) \/ ProviderAnswers(r)

AddArrives(r) == \E u \in Amount \cup {0} : AddJob(r, u)

Next ==
    \/ \E r \in Request : Arrive(r) \/ Progress(r) \/ Upstream(r) \/ AddArrives(r)
    \/ CacheWrites
    \/ WorkerOnly
    \/ WorkerSyncs
    \/ WorkerFaults
    \/ RedisFaults
    \/ Crash

Spec == Init /\ [][Next]_vars

Fairness ==
    /\ \A r \in Request : WF_vars(Progress(r))
    /\ WF_vars(Budget!Reconnect /\ UNCHANGED <<handlerVars, cacheVars, providerVars, workerVars>>)
    /\ WF_vars(\E r \in Request : AddArrives(r))
    /\ WF_vars(WorkerOnly \/ WorkerSyncs)

FairSpec == Spec /\ Fairness
-----------------------------------------------------------------------------
(***************************************************************************)
(* Properties.                                                             *)
(***************************************************************************)
TypeOK ==
    /\ place \in [Request -> Places]
    /\ reply \in [Request -> {0, 200, 400, 401, 429, 500, 503}]
    /\ hit \in [Request -> BOOLEAN]
    /\ adding \subseteq Request
    /\ kept \subseteq Prompt /\ keeping \subseteq Request
    /\ answer \in [Request -> Prompt \cup {None}]
    /\ Budget!TypeOK
    /\ Worker!TypeOK

Of(k) == {r \in Request : KeyOf[r] = k}

\* virtual_keys.budget_used: what the worker's updates add up to.
BudgetUsed(k) == SumFunctionOnSet([r \in Request |-> charges[r] * Worker!BudgetIncrement(r)], Of(k))

NoFaults == faults = 0 /\ rollBacks = 0 /\ lostReplies = 0

\* End to end, a "requests" key is answered at most Limit times while Redis
\* keeps its counts, over crashes, re-sent commands and any interleaving.
ServedWithinLimit ==
    rollBacks = 0 => \A k \in Key : BudgetType[k] = "requests" =>
        Cardinality({r \in Of(k) : reply[r] = 200}) <= Limit[k]

\* The two books differ only by what is explainable.  "requests": the Redis
\* counter is ahead of budget_used by the admitted calls that were not (or
\* not yet) charged, the ones answered 400 or 503 for good; metered: Redis is
\* behind by the one update the worker is about to make.
DriftExplained ==
    NoFaults => \A k \in Key :
        IF BudgetType[k] = "requests"
        THEN counter[k] = BudgetUsed(k) +
                Cardinality({r \in Of(k) : step[r] = "passed" /\ charges[r] = 0})
        ELSE counter[k] = BudgetUsed(k) -
                (IF phase = "sync" /\ KeyOf[running] = k THEN units[running] ELSE 0)

\* Every charge, of Postgres or of the Redis counter, stands for a call that was
\* admitted, for which an answer existed and which was answered 200, unless the
\* process died first: a call that was refused or failed is charged nothing,
\* whatever is retried or re-run ("rejected_budget rows don't consume budget",
\* usage.processor.ts).
ChargesNeedAnswer ==
    \A r \in Request : charges[r] + syncs[r] > 0 =>
        /\ step[r] = "passed"
        /\ hit[r] \/ outcome[r] \in {"success", "fallback_used"}
        /\ reply[r] = 200 \/ place[r] \in {"flush", "dead"}

\* What a caller is answered with is what a provider was asked, now or before: the
\* call's own prompt or one within the threshold of it, whatever other calls have
\* stored in between; and the providers were asked by exactly those calls that were
\* not served from the cache.
AnswerFits ==
    \A r \in Request : reply[r] = 200 =>
        /\ <<PromptOf[r], answer[r]>> \in Similar
        /\ hit[r] <=> outcome[r] = "idle"
        /\ ~hit[r] => answer[r] = PromptOf[r]

\* The composition uses the budget check as Budget specifies it, so what is
\* proved of Budget holds of the gateway.
ImplementsBudget == Budget!Spec

\* Waiting for somebody who need not answer.
Waiting(r) == place[r] = "cache" \/ (place[r] = "provider" /\ outcome[r] = "calling")

\* Every caller is answered, unless the process dies or the call waits for the
\* embedding service or a provider for ever: through the check, the one connection
\* that all checks share, replies lost on it and the errors of Postgres and Redis,
\* no way through the handler ends without a status.
CallersAnswered ==
    \A r \in Request :
        \/ <>[]Waiting(r)
        \/ place[r] = "auth" ~> reply[r] # 0 \/ place[r] = "dead"

\* Every call answered with 200 is logged in the end, unless something fails.
ServedIsLogged ==
    \A r \in Request : reply[r] = 200 ~> rows[r] > 0 \/ faults > 0 \/ crashes > 0
=============================================================================
