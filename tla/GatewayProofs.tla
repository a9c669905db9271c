--------------------------- MODULE GatewayProofs ---------------------------
(***************************************************************************)
(* Theorems about Gateway, for every set of requests and keys, all limits  *)
(* and all bounds on the faults.                                           *)
(*                                                                         *)
(* UsesBudget, UsesChain, UsesCache, UsesWorker: whatever the handler, the *)
(* providers, the worker and the process do, each of the four components   *)
(* inside sees steps of its own specification and nothing else. So what is *)
(* proved of Budget and UsageWorker holds in the composition (BudgetsHold, *)
(* AccountingHolds): the modules of those proofs are instantiated with the *)
(* composition's variables.                                                *)
(*                                                                         *)
(* LimitHolds: a "requests" key is answered within its limit while Redis   *)
(* keeps its counts. AnswersFirst: charges stand for admitted calls that   *)
(* had an answer, because jobs are added by those. AnswersFit:             *)
(* an answer is one to a prompt like the caller's own. DriftIsExplained:   *)
(* what counter and books differ by.                                       *)
(***************************************************************************)
EXTENDS Gateway, FiniteSetTheorems, Sums, TLAPS

\* The job the worker runs is the one of a request, and its data are units
\* that a call may have used.
WorkerTypes ==
    /\ running \in Request \cup {Worker!Nobody}
    /\ units \in [Request -> Amount \cup {0}]

-----------------------------------------------------------------------------
LEMMA WorkerTypesInit == Init => WorkerTypes
BY DEF Init, Worker!Init, WorkerTypes

LEMMA WorkerTypesStep == WorkerTypes /\ [Next]_vars => WorkerTypes'
<1> SUFFICES ASSUME WorkerTypes, [Next]_vars PROVE WorkerTypes'
  OBVIOUS
<1> USE DEF WorkerTypes, Worker!queueVars, Worker!workerVars, Worker!GoIdle, Worker!Put
<1>1. ASSUME NEW r \in Request, NEW u \in Amount \cup {0}, Worker!Add(r, u) PROVE WorkerTypes'
  BY <1>1 DEF Worker!Add
<1>2. ASSUME NEW r \in Request, Worker!Take(r) \/ Worker!QueueStep(r) \/ Worker!LockLost(r)
      PROVE  WorkerTypes'
  BY <1>2 DEF Worker!Take, Worker!QueueStep, Worker!Promote, Worker!LockExpires, Worker!Stalled,
              Worker!LockLost
<1>3. CASE Worker!InsertRow \/ Worker!UpdateBudgetUsed \/ Worker!SyncRedis \/ Worker!SyncReplyLost
  BY <1>3 DEF Worker!InsertRow, Worker!UpdateBudgetUsed, Worker!SyncRedis, Worker!SyncReplyLost
<1>4. CASE Worker!Finish \/ Worker!DatabaseError \/ Worker!SyncFails \/ Worker!WorkerCrash
  BY <1>4 DEF Worker!Finish, Worker!DatabaseError, Worker!SyncFails, Worker!WorkerCrash
<1>5. CASE UNCHANGED workerVars
  BY <1>5 DEF workerVars
<1>6. ASSUME NEW r \in Request, Progress(r) \/ Upstream(r) \/ Arrive(r) PROVE UNCHANGED workerVars
  BY <1>6 DEF Progress, Upstream, Arrive, Authenticate, Unauthorized, AuthError, CheckError,
              CheckBudget, BudgetExceeded, Handle, BadRequest, CacheHit, CacheMiss, ProviderFails,
              ProviderAnswers, AllProvidersFailed, Respond, Flush
<1>7. CASE WorkerOnly
  BY <1>2, <1>3, <1>4, <1>7 DEF WorkerOnly
<1>8. CASE WorkerSyncs \/ WorkerFaults
  BY <1>2, <1>3, <1>4, <1>8 DEF WorkerSyncs, WorkerFaults
<1>9. CASE RedisFaults
  BY <1>5, <1>9 DEF RedisFaults
<1>10. CASE Crash
  BY <1>4, <1>5, <1>10 DEF Crash
<1>11. ASSUME NEW r \in Request, AddArrives(r) PROVE WorkerTypes'
  BY <1>1, <1>11 DEF AddArrives, AddJob
<1>12. CASE CacheWrites \/ UNCHANGED vars
  BY <1>5, <1>12 DEF CacheWrites, vars
<1> QED
  BY <1>5, <1>6, <1>7, <1>8, <1>9, <1>10, <1>11, <1>12 DEF Next

LEMMA WorkerTypesAlways == Spec => []WorkerTypes
<1>1. QED
  BY WorkerTypesInit, WorkerTypesStep, PTL DEF Spec
-----------------------------------------------------------------------------
\* The amount that the worker adds to a counter is one Budget allows for.
LEMMA RunningCharge ==
    ASSUME WorkerTypes, running # Worker!Nobody, units[running] > 0
    PROVE  KeyOf[running] \in Key /\ units[running] \in Amount
BY KeyAssumption, AmountAssumption DEF WorkerTypes

\* Every step of the gateway is a step of Budget or leaves the counters and
\* the checks alone.
LEMMA BudgetStep == WorkerTypes /\ [Next]_vars => [Budget!Next]_(Budget!vars)
<1> SUFFICES ASSUME WorkerTypes, [Next]_vars PROVE [Budget!Next]_(Budget!vars)
  OBVIOUS
<1>0. UNCHANGED budgetVars => UNCHANGED Budget!vars
  BY DEF budgetVars, Budget!vars
<1>1. ASSUME NEW r \in Request, Authenticate(r) PROVE Budget!Next
  BY <1>1 DEF Authenticate, Budget!Next
<1>2. ASSUME NEW r \in Request, CheckBudget(r) PROVE Budget!Next
  BY <1>2 DEF CheckBudget, Budget!Next
<1>3. ASSUME NEW r \in Request, Progress(r) \/ Upstream(r) \/ Arrive(r), ~Authenticate(r), ~CheckBudget(r)
      PROVE  UNCHANGED budgetVars
  BY <1>3 DEF Progress, Upstream, Arrive, Unauthorized, AuthError, CheckError, BudgetExceeded,
              Handle, BadRequest, CacheHit, CacheMiss, ProviderFails, ProviderAnswers,
              AllProvidersFailed, Respond, Flush
<1>4. ASSUME NEW r \in Request, AddArrives(r) PROVE UNCHANGED budgetVars
  BY <1>4 DEF AddArrives, AddJob
<1>5. CASE WorkerSyncs
  <2>1. running # Worker!Nobody /\ Budget!IncrementBy(KeyOf[running], units[running])
    BY <1>5 DEF WorkerSyncs, Worker!SyncRedis, Worker!At
  <2>2. units[running] > 0
    BY <2>1 DEF Budget!IncrementBy
  <2> QED
    BY <2>1, <2>2, RunningCharge DEF Budget!Next
<1>6. CASE WorkerFaults
  <2>1. CASE Worker!SyncReplyLost /\ Budget!IncrementReplyLost(KeyOf[running], units[running])
    <3>1. running # Worker!Nobody /\ units[running] > 0
      BY <2>1 DEF Worker!SyncReplyLost, Worker!At, Budget!IncrementReplyLost
    <3> QED
      BY <2>1, <3>1, RunningCharge DEF Budget!Next, Budget!ReplyLost
  <2>2. CASE UNCHANGED budgetVars
    BY <1>0, <2>2
  <2> QED
    BY <1>6, <2>1, <2>2 DEF WorkerFaults
<1>7. CASE RedisFaults
  BY <1>7 DEF RedisFaults, Budget!Next, Budget!ReplyLost
<1>8. CASE Crash
  BY <1>0, <1>8 DEF Crash, Budget!Next
<1>9. CASE WorkerOnly \/ CacheWrites \/ UNCHANGED vars
  BY <1>0, <1>9 DEF WorkerOnly, CacheWrites, vars
<1> QED
  BY <1>0, <1>1, <1>2, <1>3, <1>4, <1>5, <1>6, <1>7, <1>8, <1>9 DEF Next

\* The gateway uses the check as Budget specifies it: what the theorems of
\* BudgetProofs say of Budget, they say of the gateway's counters.
THEOREM UsesBudget == Spec => ImplementsBudget
<1>1. Init => Budget!Init
  BY DEF Init
<1>2. QED
  BY <1>1, BudgetStep, WorkerTypesAlways, PTL DEF Spec, ImplementsBudget, Budget!Spec
-----------------------------------------------------------------------------
(***************************************************************************)
(* The limit, end to end.  Of the counters we need less than BudgetProofs  *)
(* proves: while Redis keeps its counts, a "requests" counter is between   *)
(* the number of admitted calls and the limit.                             *)
(***************************************************************************)
Requests(k) == BudgetType[k] = "requests"

CheckTypes ==
    /\ counter \in [Key -> Nat \cup {-1}]
    /\ step \in [Request -> Budget!Steps]
    /\ rollBacks \in Nat
    /\ \A r \in Request :
          /\ step[r] \in {"exists", "seed", "eval"} => Requests(KeyOf[r])
          /\ step[r] = "get" => ~Requests(KeyOf[r])

AdmittedOf(k) == {r \in Request : KeyOf[r] = k /\ step[r] = "passed"}

\* No check seeds, and the counter is between the admitted calls and the limit.
CountCovers ==
    /\ \A r \in Request : step[r] # "seed"
    /\ \A k \in Key : Requests(k) =>
          /\ counter[k] \in Nat
          /\ Cardinality(AdmittedOf(k)) <= counter[k] /\ counter[k] <= Limit[k]

CheckInv == CheckTypes /\ (rollBacks = 0 => CountCovers)

LEMMA CheckInit == Init => CheckInv
<1> SUFFICES ASSUME Init PROVE CheckInv
  OBVIOUS
<1>1. /\ counter = [k \in Key |-> 0] /\ step = [r \in Request |-> "idle"] /\ rollBacks = 0
  BY DEF Init, Budget!Init, Budget!InitWith
<1>2. \A k \in Key : Cardinality(AdmittedOf(k)) = 0
  <2>1. \A k \in Key : AdmittedOf(k) = {}
    BY <1>1 DEF AdmittedOf
  <2> QED
    BY <2>1, FS_EmptySet
<1> QED
  BY <1>1, <1>2, KeyAssumption DEF CheckInv, CheckTypes, CountCovers, Budget!Steps

\* Counting the admitted calls: a step that admits nobody, and one that admits r.
LEMMA AdmittedCount ==
    \A k \in Key : IsFiniteSet(AdmittedOf(k)) /\ Cardinality(AdmittedOf(k)) \in Nat
BY RequestAssumption, FS_Subset, FS_CardinalityType DEF AdmittedOf

LEMMA OneAdmitted ==
    ASSUME CheckTypes, NEW r \in Request, step[r] # "passed", step' = [step EXCEPT ![r] = "passed"],
           NEW k \in Key
    PROVE  Cardinality(AdmittedOf(k)') =
               Cardinality(AdmittedOf(k)) + (IF k = KeyOf[r] THEN 1 ELSE 0)
<1>1. CASE k = KeyOf[r]
  <2>1. AdmittedOf(k)' = AdmittedOf(k) \cup {r} /\ r \notin AdmittedOf(k)
    BY <1>1 DEF CheckTypes, AdmittedOf
  <2> QED
    BY <1>1, <2>1, AdmittedCount, FS_AddElement
<1>2. CASE k # KeyOf[r]
  <2>1. AdmittedOf(k)' = AdmittedOf(k)
    BY <1>2 DEF CheckTypes, AdmittedOf
  <2> QED
    BY <1>2, <2>1, AdmittedCount
<1> QED
  BY <1>1, <1>2

\* Steps of Budget keep their types.
LEMMA CheckTypesStep == CheckTypes /\ [Budget!Next]_(Budget!vars) => CheckTypes'
<1> SUFFICES ASSUME CheckTypes, [Budget!Next]_(Budget!vars) PROVE CheckTypes'
  OBVIOUS
<1> USE KeyAssumption DEF CheckTypes, Requests, Budget!Absent
<1> DEFINE Moves(r, s) == step' = [step EXCEPT ![r] = s] /\ rollBacks' = rollBacks
           Sets(k, c)  == counter' = [counter EXCEPT ![k] = c]
<1>1. ASSUME NEW r \in Request, Budget!Intercept(r)
      PROVE  CheckTypes'
  BY <1>1 DEF Budget!Intercept, Budget!Goto, Budget!Steps, Budget!Checking, Budget!IsRequests
<1>2. ASSUME NEW r \in Request, Budget!Exists(r)
      PROVE  CheckTypes'
  <2>1. Moves(r, IF counter[KeyOf[r]] = -1 THEN "seed" ELSE "eval") /\ counter' = counter
    BY <1>2 DEF Budget!Exists, Budget!SendNext, Budget!Goto
  <2> QED
    BY <1>2, <2>1 DEF Budget!Exists, Budget!Steps, Budget!Checking
<1>3. ASSUME NEW r \in Request, Budget!Seed(r)
      PROVE  CheckTypes'
  <2>1. Moves(r, "eval") /\ Sets(KeyOf[r], 0) /\ step[r] = "seed"
    BY <1>3 DEF Budget!Seed, Budget!SendNext, Budget!Goto, Budget!SetZero, Budget!ThrowAway,
                Budget!SetCounter
  <2> QED
    BY <2>1 DEF Budget!Steps, Budget!Checking
<1>4. ASSUME NEW r \in Request, Budget!EvalAccept(r)
      PROVE  CheckTypes'
  <2>1. Moves(r, "passed") /\ Sets(KeyOf[r], Budget!Current(KeyOf[r]) + 1)
    BY <1>4 DEF Budget!EvalAccept, Budget!EndWith, Budget!Goto, Budget!SetCounter
  <2> QED
    BY <2>1 DEF Budget!Steps, Budget!Decided, Budget!Current
<1>5. ASSUME NEW r \in Request,
             Budget!EvalReject(r) \/ Budget!CheckOnly(r) \/ Budget!CheckFails(r)
      PROVE  CheckTypes'
  <2>1. /\ counter' = counter
        /\ \E s \in {"passed", "refused", "failed"} : Moves(r, s)
    BY <1>5 DEF Budget!EvalReject, Budget!CheckOnly, Budget!CheckFails, Budget!EndWith, Budget!Goto
  <2> QED
    BY <2>1 DEF Budget!Steps, Budget!Decided
<1>6. ASSUME NEW r \in Request,
             Budget!EvalReplyLost(r) \/ Budget!SeedReplyLost(r) \/ Budget!ReadReplyLost(r)
      PROVE  CheckTypes'
  <2>1. /\ step' = step /\ rollBacks' = rollBacks
        /\ \/ counter' = counter
           \/ Sets(KeyOf[r], 0)
           \/ Sets(KeyOf[r], Budget!Current(KeyOf[r]) + 1)
    <3>1. CASE Budget!EvalReplyLost(r)
      BY <3>1 DEF Budget!EvalReplyLost, Budget!SetCounter
    <3>2. CASE Budget!SeedReplyLost(r)
      BY <3>2 DEF Budget!SeedReplyLost, Budget!SetZero, Budget!ThrowAway, Budget!SetCounter
    <3>3. CASE Budget!ReadReplyLost(r)
      BY <3>3 DEF Budget!ReadReplyLost
    <3> QED
      BY <1>6, <3>1, <3>2, <3>3
  <2> QED
    BY <2>1 DEF Budget!Current
<1>7. ASSUME NEW k \in Key, NEW a \in Amount,
             Budget!IncrementBy(k, a) \/ Budget!IncrementReplyLost(k, a)
      PROVE  CheckTypes'
  <2>1. step' = step /\ rollBacks' = rollBacks /\ Sets(k, Budget!Current(k) + a)
    BY <1>7 DEF Budget!IncrementBy, Budget!IncrementReplyLost, Budget!SetCounter
  <2> QED
    BY <2>1, AmountAssumption DEF Budget!Current
<1>8. ASSUME NEW k \in Key, NEW c \in Budget!Absent..counter[k], Budget!RollBack(k, c)
      PROVE  CheckTypes'
  BY <1>8 DEF Budget!RollBack, Budget!ThrowAway, Budget!SetCounter
<1>9. CASE Budget!Crash
  BY <1>9 DEF Budget!Crash, Budget!Steps, Budget!Checking
<1>10. CASE Budget!Reconnect \/ UNCHANGED Budget!vars
  BY <1>10 DEF Budget!Reconnect, Budget!vars
<1> QED
  BY <1>1, <1>2, <1>3, <1>4, <1>5, <1>6, <1>7, <1>8, <1>9, <1>10
     DEF Budget!Next, Budget!CheckStep, Budget!ReplyLost

\* Steps of Budget keep the count between the admitted calls and the limit: only
\* a roll back lowers it, and the script tests before it counts.
LEMMA CountCoversStep ==
    CheckTypes /\ CountCovers /\ [Budget!Next]_(Budget!vars) /\ rollBacks' = rollBacks => CountCovers'
<1> SUFFICES ASSUME CheckTypes, CountCovers, [Budget!Next]_(Budget!vars), rollBacks' = rollBacks
             PROVE  CountCovers'
  OBVIOUS
<1>0. ASSUME \A r \in Request : step'[r] = "passed" <=> step[r] = "passed"
      PROVE  \A k \in Key : AdmittedOf(k)' = AdmittedOf(k)
  BY <1>0 DEF AdmittedOf
<1> USE KeyAssumption DEF CheckTypes, CountCovers, Requests, Budget!Goto, Budget!SendNext,
                          Budget!EndWith, Budget!SetZero, Budget!Unheard, Budget!SetCounter,
                          Budget!Current, Budget!Absent, Budget!IsRequests
<1>1. ASSUME NEW r \in Request,
             Budget!Intercept(r) \/ Budget!Exists(r) \/ Budget!EvalReject(r) \/ Budget!CheckFails(r)
      PROVE  CountCovers'
  <2>1. \A q \in Request : step'[q] = "passed" <=> step[q] = "passed"
    BY <1>1 DEF Budget!Intercept, Budget!Exists, Budget!EvalReject, Budget!CheckFails,
                Budget!Checking
  <2> QED
    BY <1>0, <1>1, <2>1 DEF Budget!Intercept, Budget!Exists, Budget!EvalReject, Budget!CheckFails,
                            Budget!Checking
<1>2. ASSUME NEW r \in Request, Budget!EvalAccept(r) PROVE CountCovers'
  <2>1. \A k \in Key : Cardinality(AdmittedOf(k)') =
            Cardinality(AdmittedOf(k)) + (IF k = KeyOf[r] THEN 1 ELSE 0)
    BY <1>2, OneAdmitted DEF Budget!EvalAccept
  <2> QED
    BY <1>2, <2>1, AdmittedCount DEF Budget!EvalAccept, Budget!LuaAccepts
<1>3. ASSUME NEW r \in Request, Budget!CheckOnly(r) PROVE CountCovers'
  <2>1. CASE step' = [step EXCEPT ![r] = "passed"]
    <3>1. \A k \in Key : Requests(k) => Cardinality(AdmittedOf(k)') = Cardinality(AdmittedOf(k))
      <4>1. step[r] = "get" /\ ~Requests(KeyOf[r])
        BY <1>3 DEF Budget!CheckOnly
      <4>2. \A k \in Key : Cardinality(AdmittedOf(k)') =
                Cardinality(AdmittedOf(k)) + (IF k = KeyOf[r] THEN 1 ELSE 0)
        BY <2>1, <4>1, OneAdmitted
      <4> QED
        BY <4>1, <4>2, AdmittedCount
    <3> QED
      BY <1>3, <2>1, <3>1 DEF Budget!CheckOnly
  <2>2. CASE step' = [step EXCEPT ![r] = "refused"]
    <3>1. \A q \in Request : step'[q] = "passed" <=> step[q] = "passed"
      BY <1>3, <2>2 DEF Budget!CheckOnly
    <3> QED
      BY <1>0, <1>3, <2>2, <3>1 DEF Budget!CheckOnly
  <2> QED
    BY <1>3, <2>1, <2>2 DEF Budget!CheckOnly
<1>4. ASSUME NEW r \in Request, Budget!EvalReplyLost(r) PROVE CountCovers'
  BY <1>0, <1>4, AdmittedCount DEF Budget!EvalReplyLost, Budget!LuaAccepts
<1>5. ASSUME NEW r \in Request, Budget!Seed(r) \/ Budget!SeedReplyLost(r) PROVE FALSE
  BY <1>5 DEF Budget!Seed, Budget!SeedReplyLost
<1>6. ASSUME NEW k \in Key, NEW a \in Amount,
             Budget!IncrementBy(k, a) \/ Budget!IncrementReplyLost(k, a)
      PROVE  CountCovers'
  BY <1>0, <1>6 DEF Budget!IncrementBy, Budget!IncrementReplyLost
<1>7. ASSUME NEW k \in Key, NEW c \in Budget!Absent..counter[k], Budget!RollBack(k, c) PROVE FALSE
  BY <1>7 DEF Budget!RollBack
<1>8. CASE Budget!Crash
  <2>1. \A q \in Request : step'[q] = "passed" <=> step[q] = "passed"
    BY <1>8 DEF Budget!Crash, Budget!Checking
  <2> QED
    BY <1>0, <1>8, <2>1 DEF Budget!Crash
<1>9. CASE Budget!Reconnect \/ (\E r \in Request : Budget!ReadReplyLost(r)) \/ UNCHANGED Budget!vars
  BY <1>0, <1>9 DEF Budget!Reconnect, Budget!ReadReplyLost, Budget!vars
<1> QED
  BY <1>1, <1>2, <1>3, <1>4, <1>5, <1>6, <1>7, <1>8, <1>9
     DEF Budget!Next, Budget!CheckStep, Budget!ReplyLost

\* Redis never takes a roll back back.
LEMMA RollBacksGrow == CheckTypes /\ [Budget!Next]_(Budget!vars) => rollBacks' \in {rollBacks, rollBacks + 1}
BY DEF Budget!Next, Budget!CheckStep, Budget!CheckFails, Budget!Reconnect, Budget!ReplyLost,
       Budget!Intercept, Budget!Exists, Budget!Seed, Budget!EvalAccept, Budget!EvalReject,
       Budget!CheckOnly, Budget!IncrementBy, Budget!EvalReplyLost, Budget!SeedReplyLost,
       Budget!ReadReplyLost, Budget!IncrementReplyLost, Budget!RollBack, Budget!Crash, Budget!vars

LEMMA CheckAlways == Spec => []CheckInv
<1>1. CheckInv /\ WorkerTypes /\ [Next]_vars => CheckInv'
  <2> SUFFICES ASSUME CheckInv, WorkerTypes, [Next]_vars PROVE CheckInv'
    OBVIOUS
  <2>1. [Budget!Next]_(Budget!vars)
    BY BudgetStep
  <2>2. CheckTypes' /\ rollBacks' \in {rollBacks, rollBacks + 1}
    BY <2>1, CheckTypesStep, RollBacksGrow DEF CheckInv
  <2>3. rollBacks' = 0 => rollBacks = 0
    BY <2>2 DEF CheckInv, CheckTypes
  <2> QED
    BY <2>1, <2>2, <2>3, CountCoversStep DEF CheckInv
<1>2. QED
  BY <1>1, CheckInit, WorkerTypesAlways, PTL DEF Spec
-----------------------------------------------------------------------------
\* The handler runs, and answers with 200, only for admitted calls.
Handling == {"cache", "provider", "respond", "flush"}

AnsweredAdmitted ==
    /\ place \in [Request -> Places]
    /\ reply \in [Request -> Int]
    /\ \A r \in Request : place[r] \in Handling \/ reply[r] = 200 => step[r] = "passed"

\* What Budget does not do: take an admission back.
LEMMA PassedStays ==
    CheckTypes /\ [Budget!Next]_(Budget!vars)
        => \A r \in Request : step[r] = "passed" => step'[r] = "passed"
<1> SUFFICES ASSUME CheckTypes, [Budget!Next]_(Budget!vars), NEW r \in Request, step[r] = "passed"
             PROVE  step'[r] = "passed"
  OBVIOUS
<1> QED
  BY DEF CheckTypes, Budget!Next, Budget!CheckStep, Budget!CheckFails, Budget!Reconnect,
         Budget!ReplyLost, Budget!Intercept, Budget!Exists, Budget!Seed, Budget!EvalAccept,
         Budget!EvalReject, Budget!CheckOnly, Budget!IncrementBy, Budget!EvalReplyLost,
         Budget!SeedReplyLost, Budget!ReadReplyLost, Budget!IncrementReplyLost, Budget!RollBack,
         Budget!Crash, Budget!vars, Budget!Goto, Budget!SendNext, Budget!EndWith, Budget!SetZero,
         Budget!Unheard, Budget!Checking

LEMMA AnsweredInit == Init => AnsweredAdmitted
BY DEF Init, AnsweredAdmitted, Places, Handling

LEMMA AnsweredStep ==
    AnsweredAdmitted /\ CheckTypes /\ WorkerTypes /\ [Next]_vars => AnsweredAdmitted'
<1> SUFFICES ASSUME AnsweredAdmitted, CheckTypes, WorkerTypes, [Next]_vars PROVE AnsweredAdmitted'
  OBVIOUS
<1>0. \A r \in Request : step[r] = "passed" => step'[r] = "passed"
  BY BudgetStep, PassedStays
<1> USE <1>0 DEF AnsweredAdmitted, Places, Handling, Goto, Throw
<1>1. ASSUME NEW r \in Request, Progress(r) \/ Upstream(r) \/ Arrive(r) PROVE AnsweredAdmitted'
  <2>1. CASE Arrive(r) \/ Authenticate(r) \/ Unauthorized(r) \/ AuthError(r) \/ CheckError(r)
    BY <2>1 DEF Arrive, Authenticate, AuthError, CheckError, Unauthorized
  <2>2. CASE CheckBudget(r) \/ BudgetExceeded(r) \/ BadRequest(r)
    BY <2>2 DEF CheckBudget, BudgetExceeded, BadRequest, handlerVars
  <2>3. CASE Handle(r)
    BY <2>3 DEF Handle
  <2>4. CASE CacheHit(r) \/ CacheMiss(r)
    BY <2>4 DEF CacheHit, CacheMiss
  <2>5. CASE ProviderFails(r) \/ ProviderAnswers(r) \/ AllProvidersFailed(r)
    BY <2>5 DEF ProviderFails, ProviderAnswers, AllProvidersFailed, handlerVars
  <2>6. CASE Respond(r) \/ Flush(r)
    BY <2>6 DEF Respond, Flush
  <2> QED
    BY <1>1, <2>1, <2>2, <2>3, <2>4, <2>5, <2>6 DEF Progress, Upstream
<1>2. CASE UNCHANGED <<place, reply>>
  BY <1>2
<1>3. CASE Crash
  BY <1>3 DEF Crash, Open
<1> QED
  BY <1>1, <1>2, <1>3 DEF Next, AddArrives, AddJob, CacheWrites, WorkerOnly, WorkerSyncs,
                          WorkerFaults, RedisFaults, handlerVars, vars

LEMMA AnsweredAlways == Spec => []AnsweredAdmitted
<1>1. CheckInv => CheckTypes
  BY DEF CheckInv
<1>2. QED
  BY <1>1, AnsweredInit, AnsweredStep, CheckAlways, WorkerTypesAlways, PTL DEF Spec

\* The limit holds for what callers receive: at most Limit answers, over every
\* crash, re-sent command and interleaving, while Redis keeps its counts.
THEOREM LimitHolds == Spec => []ServedWithinLimit
<1>1. CheckInv /\ AnsweredAdmitted => ServedWithinLimit
  <2> SUFFICES ASSUME CheckInv, AnsweredAdmitted, rollBacks = 0, NEW k \in Key, Requests(k)
               PROVE  Cardinality({r \in Of(k) : reply[r] = 200}) <= Limit[k]
    BY DEF ServedWithinLimit, Requests
  <2>1. {r \in Of(k) : reply[r] = 200} \subseteq AdmittedOf(k)
    BY DEF Of, AnsweredAdmitted, AdmittedOf
  <2>2. Cardinality({r \in Of(k) : reply[r] = 200}) <= Cardinality(AdmittedOf(k))
    BY <2>1, AdmittedCount, FS_Subset
  <2>3. Cardinality({r \in Of(k) : reply[r] = 200}) \in Nat
    BY <2>1, AdmittedCount, FS_Subset, FS_CardinalityType
  <2>4. Cardinality(AdmittedOf(k)) <= counter[k] /\ counter[k] <= Limit[k] /\ counter[k] \in Nat
    BY DEF CheckInv, CountCovers
  <2> QED
    BY <2>2, <2>3, <2>4, AdmittedCount, KeyAssumption
<1>2. QED
  BY <1>1, CheckAlways, AnsweredAlways, PTL
-----------------------------------------------------------------------------
(***************************************************************************)
(* The charges follow the answers.                                         *)
(***************************************************************************)
HasAnswer(r) == hit[r] \/ outcome[r] \in {"success", "fallback_used"}

\* An admitted call with an answer, which its caller got, will get, or missed
\* because the process died.
Accountable(r) == step[r] = "passed" /\ HasAnswer(r) /\ (reply[r] = 200 \/ place[r] \in {"flush", "dead"})

\* A call responds only with an answer, and is over when its caller has a reply.
RespondsWithAnswer ==
    /\ hit \in [Request -> BOOLEAN]
    /\ outcome \in [Request -> {"idle", "calling", "success", "fallback_used", "unavailable", "dead"}]
    /\ \A r \in Request : place[r] = "respond" => HasAnswer(r)
    /\ \A r \in Request : reply[r] # 0 => place[r] = "closed"

\* Jobs, and with them rows and charges, are those of accountable calls.
BooksFollow ==
    /\ adding \subseteq Request
    /\ job \in [Request -> Worker!JobStates]
    /\ rows \in [Request -> Nat] /\ charges \in [Request -> Nat] /\ syncs \in [Request -> Nat]
    /\ \A r \in Request : r \in adding \/ job[r] # "none" => Accountable(r)
    /\ \A r \in Request : rows[r] + charges[r] + syncs[r] > 0 => job[r] # "none"
    /\ running # Worker!Nobody => job[running] # "none"

LEMMA RespondsInit == Init => RespondsWithAnswer
BY DEF Init, Promise!Init, RespondsWithAnswer

LEMMA FollowInit == Init => BooksFollow
BY DEF Init, Worker!Init, BooksFollow, Worker!JobStates

\* The chain never takes an answer back.
LEMMA OutcomeStays ==
    ASSUME RespondsWithAnswer,
           (\E r \in Request : Promise!Ask(r) \/ Promise!FailOne(r) \/ Promise!Answer(r)) \/ Promise!Die
    PROVE  /\ outcome' \in [Request -> {"idle", "calling", "success", "fallback_used", "unavailable", "dead"}]
           /\ \A r \in Request : outcome[r] \in {"success", "fallback_used"} => outcome'[r] = outcome[r]
BY DEF RespondsWithAnswer, Promise!Ask, Promise!FailOne, Promise!Answer, Promise!Die, Promise!Move,
       Promise!StatusOf

LEMMA RespondsStep == RespondsWithAnswer /\ AnsweredAdmitted /\ [Next]_vars => RespondsWithAnswer'
<1> SUFFICES ASSUME RespondsWithAnswer, AnsweredAdmitted, [Next]_vars PROVE RespondsWithAnswer'
  OBVIOUS
<1> USE DEF RespondsWithAnswer, AnsweredAdmitted, HasAnswer, Goto, Throw, Places
<1>1. ASSUME NEW r \in Request, Progress(r) \/ Upstream(r) \/ Arrive(r) PROVE RespondsWithAnswer'
  <2>1. CASE Arrive(r) \/ Authenticate(r) \/ Unauthorized(r) \/ AuthError(r) \/ CheckError(r)
    BY <2>1 DEF Arrive, Authenticate, AuthError, CheckError, Unauthorized, providerVars
  <2>2. CASE CheckBudget(r) \/ BudgetExceeded(r) \/ BadRequest(r) \/ Handle(r)
    BY <2>2 DEF CheckBudget, BudgetExceeded, BadRequest, Handle, handlerVars, providerVars
  <2>3. CASE CacheHit(r)
    BY <2>3 DEF CacheHit, providerVars
  <2>4. CASE CacheMiss(r)
    BY <2>4, OutcomeStays DEF CacheMiss
  <2>5. CASE ProviderFails(r)
    BY <2>5, OutcomeStays DEF ProviderFails, handlerVars
  <2>6. CASE ProviderAnswers(r)
    <3>1. outcome'[r] \in {"success", "fallback_used"}
      BY <2>6 DEF ProviderAnswers, Promise!Answer, Promise!Move, Promise!StatusOf
    <3> QED
      BY <2>6, <3>1, OutcomeStays DEF ProviderAnswers
  <2>7. CASE AllProvidersFailed(r) \/ Respond(r) \/ Flush(r)
    BY <2>7 DEF AllProvidersFailed, Respond, Flush, providerVars
  <2> QED
    BY <1>1, <2>1, <2>2, <2>3, <2>4, <2>5, <2>6, <2>7 DEF Progress, Upstream
<1>2. CASE UNCHANGED <<place, reply, hit, outcome>>
  BY <1>2
<1>3. CASE Crash
  BY <1>3, OutcomeStays DEF Crash, Open
<1> QED
  BY <1>1, <1>2, <1>3 DEF Next, AddArrives, AddJob, CacheWrites, WorkerOnly, WorkerSyncs,
                          WorkerFaults, RedisFaults, handlerVars, providerVars, vars

\* What is accountable stays so.
LEMMA AccountableStays ==
    ASSUME RespondsWithAnswer, AnsweredAdmitted, CheckTypes, WorkerTypes, [Next]_vars,
           NEW r \in Request, Accountable(r)
    PROVE  Accountable(r)'
<1>1. step'[r] = "passed"
  BY BudgetStep, PassedStays DEF Accountable
<1>2. HasAnswer(r)'
  <2>1. hit[r] => hit'[r]
    BY DEF Next, Progress, Upstream, Arrive, Authenticate, Unauthorized, AuthError, CheckError,
           CheckBudget, BudgetExceeded, Handle, BadRequest, CacheHit, CacheMiss, ProviderFails,
           ProviderAnswers, AllProvidersFailed, Respond, Flush, Throw, AddArrives, AddJob,
           CacheWrites, WorkerOnly, WorkerSyncs, WorkerFaults, RedisFaults, Crash, handlerVars,
           vars, RespondsWithAnswer
  <2>2. outcome[r] \in {"success", "fallback_used"} => outcome'[r] = outcome[r]
    <3>1. CASE UNCHANGED outcome
      BY <3>1
    <3>2. CASE (\E q \in Request : CacheMiss(q) \/ ProviderFails(q) \/ ProviderAnswers(q)) \/ Crash
      BY <3>2, OutcomeStays DEF CacheMiss, ProviderFails, ProviderAnswers, Crash
    <3> QED
      BY <3>1, <3>2 DEF Next, Progress, Upstream, Arrive, Authenticate, Unauthorized, AuthError,
                        CheckError, CheckBudget, BudgetExceeded, Handle, BadRequest, CacheHit,
                        AllProvidersFailed, Respond, Flush, AddArrives, AddJob, CacheWrites,
                        WorkerOnly, WorkerSyncs, WorkerFaults, RedisFaults, providerVars, vars
  <2> QED
    BY <2>1, <2>2 DEF HasAnswer, Accountable
<1>3. reply'[r] = 200 \/ place'[r] \in {"flush", "dead"}
  <2>1. CASE UNCHANGED <<place, reply>>
    BY <2>1 DEF Accountable
  <2>2. CASE Crash
    BY <2>2 DEF Crash, Accountable, Open
  <2>3. ASSUME NEW q \in Request, Progress(q) \/ Upstream(q) \/ Arrive(q) PROVE reply'[r] = 200 \/ place'[r] \in {"flush", "dead"}
    <3>1. CASE q # r
      BY <2>3, <3>1 DEF Progress, Upstream, Arrive, Authenticate, Unauthorized, AuthError,
                        CheckError, CheckBudget, BudgetExceeded, Handle, BadRequest, CacheHit,
                        CacheMiss, ProviderFails, ProviderAnswers, AllProvidersFailed, Respond,
                        Flush, Throw, Goto, handlerVars, AnsweredAdmitted, Accountable
    <3>2. CASE q = r
      <4>1. place[r] \in {"closed", "flush", "dead"}
        BY DEF Accountable, RespondsWithAnswer
      <4>2. Flush(r)
        BY <2>3, <3>2, <4>1 DEF Progress, Upstream, Arrive, Authenticate, Unauthorized, AuthError,
                                CheckError, CheckBudget, BudgetExceeded, Handle, BadRequest,
                                CacheHit, CacheMiss, ProviderFails, ProviderAnswers,
                                AllProvidersFailed, Respond
      <4> QED
        BY <4>2 DEF Flush, AnsweredAdmitted
    <3> QED
      BY <3>1, <3>2
  <2> QED
    BY <2>1, <2>2, <2>3 DEF Next, AddArrives, AddJob, CacheWrites, WorkerOnly, WorkerSyncs,
                            WorkerFaults, RedisFaults, handlerVars, vars
<1> QED
  BY <1>1, <1>2, <1>3 DEF Accountable

\* Every step keeps the books behind the answers: a job is added by Respond, in
\* an admitted call that has its answer, and the worker writes for jobs only.
LEMMA FollowStep ==
    BooksFollow /\ RespondsWithAnswer /\ AnsweredAdmitted /\ CheckTypes /\ WorkerTypes /\ [Next]_vars
        => BooksFollow'
<1> SUFFICES ASSUME BooksFollow, RespondsWithAnswer, AnsweredAdmitted, CheckTypes, WorkerTypes, [Next]_vars
             PROVE  BooksFollow'
  OBVIOUS
<1>0. \A r \in Request : Accountable(r) => Accountable(r)'
  BY AccountableStays
<1> USE <1>0, RequestAssumption DEF BooksFollow, WorkerTypes, Worker!JobStates, Worker!queueVars,
                                    Worker!workerVars, Worker!bookVars, Worker!Put, Worker!Inc,
                                    Worker!GoIdle, Worker!At, Worker!Nobody
<1>1. CASE UNCHANGED workerVars /\ adding' \subseteq adding
  BY <1>1 DEF workerVars
<1>2. ASSUME NEW r \in Request, Respond(r) PROVE BooksFollow'
  <2>1. Accountable(r)'
    BY <1>2 DEF Respond, Goto, Accountable, HasAnswer, AnsweredAdmitted, Handling,
                RespondsWithAnswer, budgetVars, providerVars
  <2> QED
    BY <1>2, <2>1 DEF Respond, workerVars
<1>3. ASSUME NEW r \in Request, NEW u \in Amount \cup {0}, AddJob(r, u) PROVE BooksFollow'
  BY <1>3 DEF AddJob, Worker!Add
<1>4. ASSUME NEW r \in Request, Worker!Take(r) \/ Worker!QueueStep(r) \/ Worker!LockLost(r), UNCHANGED adding
      PROVE  BooksFollow'
  BY <1>4 DEF Worker!Take, Worker!QueueStep, Worker!Promote, Worker!LockExpires, Worker!Stalled,
              Worker!LockLost
<1>5. CASE UNCHANGED adding
           /\ (Worker!InsertRow \/ Worker!UpdateBudgetUsed \/ Worker!SyncRedis \/ Worker!SyncReplyLost)
  BY <1>5 DEF Worker!InsertRow, Worker!UpdateBudgetUsed, Worker!SyncRedis, Worker!SyncReplyLost
<1>6. CASE adding' \subseteq adding /\ (Worker!Finish \/ Worker!WorkerCrash)
  BY <1>6 DEF Worker!Finish, Worker!WorkerCrash
<1>7. CASE UNCHANGED adding /\ (Worker!DatabaseError \/ Worker!SyncFails)
  <2>1. running \in Request /\ job[running] # "none" /\ running' = Worker!Nobody
    BY <1>7 DEF Worker!DatabaseError, Worker!SyncFails
  <2>2. /\ job' \in [Request -> Worker!JobStates]
        /\ \A r \in Request : job'[r] # "none" <=> job[r] # "none"
    BY <1>7, <2>1 DEF Worker!DatabaseError, Worker!SyncFails, Worker!MoveToFailed
  <2>3. /\ rows' \in [Request -> Nat] /\ charges' \in [Request -> Nat] /\ syncs' = syncs
        /\ \A r \in Request : r # running => rows'[r] = rows[r] /\ charges'[r] = charges[r]
    BY <1>7, <2>1 DEF Worker!DatabaseError, Worker!SyncFails
  <2> QED
    BY <1>7, <2>1, <2>2, <2>3
<1>8. ASSUME NEW r \in Request, Progress(r) \/ Upstream(r) \/ Arrive(r), ~Respond(r) PROVE UNCHANGED workerVars /\ UNCHANGED adding
  BY <1>8 DEF Progress, Upstream, Arrive, Authenticate, Unauthorized, AuthError, CheckError,
              CheckBudget, BudgetExceeded, Handle, BadRequest, CacheHit, CacheMiss, ProviderFails,
              ProviderAnswers, AllProvidersFailed, Flush, Throw, handlerVars
<1>9. CASE WorkerOnly
  BY <1>4, <1>5, <1>6, <1>9 DEF WorkerOnly, handlerVars
<1>10. CASE WorkerSyncs \/ WorkerFaults
  BY <1>4, <1>5, <1>7, <1>10 DEF WorkerSyncs, WorkerFaults, handlerVars
<1>11. CASE RedisFaults \/ CacheWrites \/ UNCHANGED vars
  BY <1>1, <1>11 DEF RedisFaults, CacheWrites, handlerVars, vars
<1>12. CASE Crash
  BY <1>1, <1>6, <1>12 DEF Crash
<1> QED
  BY <1>1, <1>2, <1>3, <1>8, <1>9, <1>10, <1>11, <1>12 DEF Next, AddArrives

\* No charge without an answer, in Postgres or in Redis: whatever is charged was
\* admitted, had an answer, and its caller got it unless the process died.
THEOREM AnswersFirst == Spec => []ChargesNeedAnswer
<1>1. CheckInv => CheckTypes
  BY DEF CheckInv
<1>2. Spec => []RespondsWithAnswer
  BY RespondsInit, RespondsStep, AnsweredAlways, PTL DEF Spec
<1>3. Spec => []BooksFollow
  BY <1>1, <1>2, FollowInit, FollowStep, AnsweredAlways, CheckAlways, WorkerTypesAlways, PTL
     DEF Spec
<1>4. BooksFollow => ChargesNeedAnswer
  BY DEF BooksFollow, Accountable, HasAnswer, ChargesNeedAnswer
<1>5. QED
  BY <1>3, <1>4, PTL
-----------------------------------------------------------------------------
(***************************************************************************)
(* What callers are answered with.  Whatever has been kept by others, a    *)
(* served prompt is within the threshold, and an asked one the call's own. *)
(***************************************************************************)
Fits(r) ==
    /\ <<PromptOf[r], answer[r]>> \in Similar
    /\ hit[r] <=> outcome[r] = "idle"
    /\ ~hit[r] => answer[r] = PromptOf[r]

\* Before the cache nothing is answered or asked; at the providers it is they who
\* were asked; from there on, and once the caller has a 200, the answer fits.
AnswerFollows ==
    /\ answer \in [Request -> Prompt \cup {None}]
    /\ \A r \in Request :
          /\ place[r] \in {"idle", "auth", "budget", "cache"} => ~hit[r] /\ outcome[r] = "idle"
          /\ place[r] = "provider" => ~hit[r] /\ outcome[r] # "idle"
          /\ place[r] \in {"respond", "flush"} \/ reply[r] = 200 => Fits(r)

AnswerInv == AnswerFollows /\ kept \subseteq Prompt /\ keeping \subseteq Request

LEMMA AnswerInit == Init => AnswerInv
BY DEF Init, Cache!Init, Promise!Init, AnswerInv, AnswerFollows

\* A caller's answer comes from its own handling only, and a death of the process
\* does not change whether its providers had been asked.
LEMMA AnswerStep ==
    AnswerInv /\ RespondsWithAnswer /\ AnsweredAdmitted /\ [Next]_vars => AnswerInv'
<1> SUFFICES ASSUME AnswerInv, RespondsWithAnswer, AnsweredAdmitted, [Next]_vars PROVE AnswerInv'
  OBVIOUS
<1> USE CacheAssumption
    DEF AnswerInv, AnswerFollows, Fits, RespondsWithAnswer, AnsweredAdmitted, Goto, Throw, Places
<1>1. ASSUME NEW r \in Request, Progress(r) \/ Upstream(r) \/ Arrive(r) PROVE AnswerInv'
  <2>1. CASE Arrive(r) \/ Authenticate(r) \/ Unauthorized(r) \/ AuthError(r) \/ CheckError(r)
    BY <2>1 DEF Arrive, Authenticate, AuthError, CheckError, Unauthorized, providerVars, cacheVars
  <2>2. CASE CheckBudget(r) \/ BudgetExceeded(r) \/ BadRequest(r) \/ Handle(r)
    BY <2>2 DEF CheckBudget, BudgetExceeded, BadRequest, Handle, handlerVars, providerVars,
                cacheVars
  <2>3. CASE CacheHit(r)
    <3>1. PICK p \in kept : <<PromptOf[r], p>> \in Similar /\ answer' = [answer EXCEPT ![r] = p]
      BY <2>3 DEF CacheHit, Cache!Serve, Cache!Reply
    <3>2. /\ place[r] = "cache" /\ place' = [place EXCEPT ![r] = "respond"]
          /\ hit' = [hit EXCEPT ![r] = TRUE]
          /\ UNCHANGED <<reply, outcome, kept, keeping>>
      BY <2>3 DEF CacheHit, Cache!Serve, providerVars
    <3>3. Fits(r)'
      <4>1. answer'[r] = p
        BY <3>1
      <4>2. outcome'[r] = "idle"
        BY <3>2
      <4>3. hit'[r]
        BY <3>2
      <4> QED
        BY <3>1, <4>1, <4>2, <4>3
    <3> QED
      BY <3>1, <3>2, <3>3
  <2>4. CASE CacheMiss(r)
    BY <2>4 DEF CacheMiss, Promise!Ask, Promise!Move, cacheVars
  <2>5. CASE ProviderFails(r)
    BY <2>5 DEF ProviderFails, Promise!FailOne, handlerVars, cacheVars
  <2>6. CASE ProviderAnswers(r)
    <3>1. /\ place[r] = "provider" /\ place' = [place EXCEPT ![r] = "respond"]
          /\ answer' = [answer EXCEPT ![r] = PromptOf[r]]
          /\ keeping' \subseteq Request
          /\ UNCHANGED <<reply, hit, kept>>
      BY <2>6 DEF ProviderAnswers, Cache!Answer, Cache!Reply
    <3>2. \E s \in {"success", "fallback_used"} : outcome' = [outcome EXCEPT ![r] = s]
      BY <2>6 DEF ProviderAnswers, Promise!Answer, Promise!Move, Promise!StatusOf
    <3>3. Fits(r)'
      <4>1. answer'[r] = PromptOf[r] /\ <<PromptOf[r], PromptOf[r]>> \in Similar
        BY <3>1
      <4>2. ~hit'[r]
        BY <3>1
      <4>3. outcome \in [Request -> {"idle", "calling", "success", "fallback_used", "unavailable", "dead"}]
        OBVIOUS
      <4>4. outcome'[r] # "idle"
        <5> HIDE DEF AnswerInv, RespondsWithAnswer, AnsweredAdmitted, Places
        <5> QED
          BY <3>2, <4>3
      <4> QED
        BY <4>1, <4>2, <4>4
    <3> QED
      BY <3>1, <3>2, <3>3
  <2>7. CASE AllProvidersFailed(r) \/ Respond(r) \/ Flush(r)
    BY <2>7 DEF AllProvidersFailed, Respond, Flush, providerVars, cacheVars
  <2> QED
    BY <1>1, <2>1, <2>2, <2>3, <2>4, <2>5, <2>6, <2>7 DEF Progress, Upstream
<1>2. CASE UNCHANGED <<place, reply, hit, cacheVars, outcome>>
  BY <1>2 DEF cacheVars
<1>3. CASE CacheWrites
  BY <1>3 DEF CacheWrites, Cache!Keep, Cache!GiveUp, handlerVars, providerVars
<1>4. CASE Crash
  BY <1>4 DEF Crash, Cache!Die, Promise!Die, Open
<1> QED
  BY <1>1, <1>2, <1>3, <1>4
  DEF Next, AddArrives, AddJob, WorkerOnly, WorkerSyncs, WorkerFaults, RedisFaults, handlerVars,
      providerVars, cacheVars, vars

\* For all prompts and any similarity, a caller's answer is one to its own prompt or
\* to one within the threshold, and the providers were asked by those who missed.
THEOREM AnswersFit == Spec => []AnswerFits
<1>1. Spec => []RespondsWithAnswer
  BY RespondsInit, RespondsStep, AnsweredAlways, PTL DEF Spec
<1>2. Spec => []AnswerInv
  BY <1>1, AnswerInit, AnswerStep, AnsweredAlways, PTL DEF Spec
<1>3. AnswerInv => AnswerFits
  BY DEF AnswerInv, AnswerFollows, Fits, AnswerFits
<1>4. QED
  BY <1>2, <1>3, PTL
-----------------------------------------------------------------------------
(***************************************************************************)
(* Types of the ledger, the queue and the replies.                         *)
(***************************************************************************)
LedgerTypes ==
    /\ lostReplies \in Nat
    /\ lost \in [Key -> Nat] /\ wasted \in [Key -> Nat] /\ charged \in [Key -> Nat]

LEMMA LedgerTypesStep ==
    CheckTypes /\ LedgerTypes /\ [Budget!Next]_(Budget!vars) => LedgerTypes'
<1> SUFFICES ASSUME CheckTypes, LedgerTypes, [Budget!Next]_(Budget!vars) PROVE LedgerTypes'
  OBVIOUS
<1> USE KeyAssumption DEF CheckTypes, LedgerTypes, Budget!Current, Budget!Absent
<1>1. ASSUME NEW r \in Request, Budget!CheckStep(r) \/ Budget!CheckFails(r) \/ Budget!Intercept(r)
      PROVE  LedgerTypes'
  <2>1. CASE Budget!Seed(r)
    <3>1. Budget!Current(KeyOf[r]) \in Nat /\ lost[KeyOf[r]] \in Nat
      OBVIOUS
    <3>2. /\ lostReplies' = lostReplies /\ wasted' = wasted /\ charged' = charged
          /\ lost' = [lost EXCEPT ![KeyOf[r]] = @ + Budget!Current(KeyOf[r]) - 0]
      BY <2>1 DEF Budget!Seed, Budget!SetZero, Budget!ThrowAway
    <3>3. lost[KeyOf[r]] + Budget!Current(KeyOf[r]) - 0 \in Nat
      BY <3>1
    <3> QED
      BY <3>2, <3>3
  <2>2. CASE ~Budget!Seed(r)
    BY <1>1, <2>2 DEF Budget!CheckStep, Budget!Intercept, Budget!Exists, Budget!EvalAccept,
                      Budget!EvalReject, Budget!CheckOnly, Budget!CheckFails
  <2> QED
    BY <2>1, <2>2
<1>2. ASSUME NEW k \in Key, NEW a \in Amount,
             Budget!IncrementBy(k, a) \/ Budget!IncrementReplyLost(k, a)
      PROVE  LedgerTypes'
  BY <1>2, AmountAssumption DEF Budget!IncrementBy, Budget!IncrementReplyLost, Budget!LoseReply
<1>3. ASSUME NEW r \in Request,
             Budget!EvalReplyLost(r) \/ Budget!SeedReplyLost(r) \/ Budget!ReadReplyLost(r)
      PROVE  LedgerTypes'
  <2>1. lostReplies' = lostReplies + 1
    BY <1>3 DEF Budget!EvalReplyLost, Budget!SeedReplyLost, Budget!ReadReplyLost, Budget!Unheard,
                Budget!LoseReply
  <2>2. CASE Budget!EvalReplyLost(r)
    BY <2>1, <2>2 DEF Budget!EvalReplyLost
  <2>3. CASE Budget!SeedReplyLost(r)
    <3>1. Budget!Current(KeyOf[r]) \in Nat /\ lost[KeyOf[r]] \in Nat
      OBVIOUS
    <3>2. /\ wasted' = wasted /\ charged' = charged
          /\ lost' = [lost EXCEPT ![KeyOf[r]] = @ + Budget!Current(KeyOf[r]) - 0]
      BY <2>3 DEF Budget!SeedReplyLost, Budget!SetZero, Budget!ThrowAway
    <3>3. lost[KeyOf[r]] + Budget!Current(KeyOf[r]) - 0 \in Nat
      BY <3>1
    <3> QED
      BY <2>1, <3>2, <3>3
  <2>4. CASE Budget!ReadReplyLost(r)
    BY <2>1, <2>4 DEF Budget!ReadReplyLost
  <2> QED
    BY <1>3, <2>2, <2>3, <2>4
<1>4. ASSUME NEW k \in Key, NEW c \in Budget!Absent..counter[k], Budget!RollBack(k, c)
      PROVE  LedgerTypes'
  BY <1>4 DEF Budget!RollBack, Budget!ThrowAway
<1>5. CASE Budget!Crash \/ Budget!Reconnect \/ UNCHANGED Budget!vars
  BY <1>5 DEF Budget!Crash, Budget!Reconnect, Budget!vars
<1> QED
  BY <1>1, <1>2, <1>3, <1>4, <1>5 DEF Budget!Next, Budget!ReplyLost

QueueTypes ==
    /\ lock \in [Request -> BOOLEAN]
    /\ attempts \in [Request -> Nat] /\ stalls \in [Request -> Nat]
    /\ phase \in Worker!Phases
    /\ syncs \in [Request -> Nat] /\ runs \in [Request -> Nat]
    /\ faults \in Nat /\ rollBackedJobs \in Nat

LEMMA QueueTypesStep == QueueTypes /\ WorkerTypes /\ [Next]_vars => QueueTypes'
<1> SUFFICES ASSUME QueueTypes, WorkerTypes, [Next]_vars PROVE QueueTypes'
  OBVIOUS
<1> USE DEF QueueTypes, WorkerTypes, Worker!Phases, Worker!queueVars, Worker!workerVars,
            Worker!bookVars, Worker!Put, Worker!Inc, Worker!GoIdle, Worker!At, Worker!Fault,
            Worker!NoFault
<1>1. ASSUME NEW r \in Request, NEW u \in Amount \cup {0}, AddJob(r, u) PROVE QueueTypes'
  BY <1>1 DEF AddJob, Worker!Add
<1>2. ASSUME NEW r \in Request, Worker!Take(r) \/ Worker!QueueStep(r) \/ Worker!LockLost(r)
      PROVE  QueueTypes'
  <2>1. CASE Worker!Take(r)
    BY <2>1 DEF Worker!Take
  <2>2. CASE Worker!QueueStep(r)
    <3>1. CASE Worker!Promote(r)
      BY <3>1 DEF Worker!Promote
    <3>2. CASE Worker!LockExpires(r)
      BY <3>2 DEF Worker!LockExpires
    <3>3. CASE Worker!Stalled(r)
      BY <3>3 DEF Worker!Stalled
    <3> QED
      BY <2>2, <3>1, <3>2, <3>3 DEF Worker!QueueStep
  <2>3. CASE Worker!LockLost(r)
    BY <2>3 DEF Worker!LockLost
  <2> QED
    BY <1>2, <2>1, <2>2, <2>3
<1>3. CASE Worker!InsertRow \/ Worker!UpdateBudgetUsed \/ Worker!SyncRedis \/ Worker!SyncReplyLost
  BY <1>3 DEF Worker!InsertRow, Worker!UpdateBudgetUsed, Worker!SyncRedis, Worker!SyncReplyLost
<1>4. CASE Worker!Finish \/ Worker!WorkerCrash
  <2>1. lock' \in [Request -> BOOLEAN]
    BY <1>4 DEF Worker!Finish, Worker!WorkerCrash
  <2> QED
    BY <1>4, <2>1 DEF Worker!Finish, Worker!WorkerCrash
<1>5. CASE Worker!DatabaseError \/ Worker!SyncFails
  <2>1. lock' \in [Request -> BOOLEAN] /\ attempts' \in [Request -> Nat]
    <3>1. Worker!MoveToFailed(running) /\ running \in Request
      BY <1>5 DEF Worker!DatabaseError, Worker!SyncFails
    <3>2. CASE lock[running]
      <4>1. /\ attempts' = [attempts EXCEPT ![running] = attempts[running] + 1]
            /\ lock' = [lock EXCEPT ![running] = FALSE]
        BY <3>1, <3>2 DEF Worker!MoveToFailed
      <4> QED
        BY <3>1, <4>1
    <3>3. CASE ~lock[running]
      BY <3>1, <3>3 DEF Worker!MoveToFailed
    <3> QED
      BY <3>2, <3>3
  <2> QED
    BY <1>5, <2>1 DEF Worker!DatabaseError, Worker!SyncFails
<1>6. CASE UNCHANGED workerVars
  BY <1>6 DEF workerVars
<1>7. ASSUME NEW r \in Request, Progress(r) \/ Upstream(r) \/ Arrive(r) PROVE UNCHANGED workerVars
  BY <1>7 DEF Progress, Upstream, Arrive, Authenticate, Unauthorized, AuthError, CheckError,
              CheckBudget, BudgetExceeded, Handle, BadRequest, CacheHit, CacheMiss, ProviderFails,
              ProviderAnswers, AllProvidersFailed, Respond, Flush
<1>8. CASE WorkerOnly \/ WorkerSyncs \/ WorkerFaults
  BY <1>2, <1>3, <1>4, <1>5, <1>8 DEF WorkerOnly, WorkerSyncs, WorkerFaults
<1>9. CASE Crash
  BY <1>4, <1>6, <1>9 DEF Crash
<1>10. CASE CacheWrites \/ RedisFaults \/ UNCHANGED vars
  BY <1>6, <1>10 DEF CacheWrites, RedisFaults, vars
<1> QED
  BY <1>1, <1>6, <1>7, <1>8, <1>9, <1>10 DEF Next, AddArrives

Replies == reply \in [Request -> {0, 200, 400, 401, 429, 500, 503}]

LEMMA RepliesStep == Replies /\ [Next]_vars => Replies'
<1> SUFFICES ASSUME Replies, [Next]_vars PROVE Replies'
  OBVIOUS
<1> USE DEF Replies, Throw
<1>1. ASSUME NEW r \in Request, Progress(r) \/ Upstream(r) \/ Arrive(r) PROVE Replies'
  BY <1>1 DEF Progress, Upstream, Arrive, Authenticate, Unauthorized, AuthError, CheckError,
              CheckBudget, BudgetExceeded, Handle, BadRequest, CacheHit, CacheMiss, ProviderFails,
              ProviderAnswers, AllProvidersFailed, Respond, Flush, handlerVars
<1>2. CASE UNCHANGED reply
  BY <1>2
<1> QED
  BY <1>1, <1>2 DEF Next, AddArrives, AddJob, CacheWrites, WorkerOnly, WorkerSyncs, WorkerFaults,
                    RedisFaults, Crash, handlerVars, vars

-----------------------------------------------------------------------------
(***************************************************************************)
(* The two books of one quantity.  Without faults the worker charges every *)
(* call once, Postgres first; a "requests" counter has the admitted calls, *)
(* a metered one what the worker has added so far.                         *)
(***************************************************************************)
Metered(r) == ~Requests(KeyOf[r])

\* A call whose job was neither stopped nor started again.
ExactOf(r) ==
    /\ job[r] \in {"none", "waiting", "active", "completed"}
    /\ job[r] \in {"none", "waiting"} => charges[r] = 0 /\ syncs[r] = 0
    /\ job[r] = "active" => running = r /\ lock[r]
    /\ running = r => job[r] = "active"
    /\ running = r /\ phase \in {"insert", "update"} => charges[r] = 0 /\ syncs[r] = 0
    /\ IF running = r /\ phase = "sync"
       THEN Metered(r) /\ charges[r] = 1 /\ syncs[r] = 0
       ELSE charges[r] \in {0, 1} /\ syncs[r] = (IF Metered(r) THEN charges[r] ELSE 0)

WorkerExact ==
    /\ phase # "idle" => running \in Request
    /\ faults = 0 => \A r \in Request : ExactOf(r)

WorkerParts ==
    /\ WorkerTypes /\ QueueTypes
    /\ job \in [Request -> Worker!JobStates] /\ charges \in [Request -> Nat]

LEMMA ExactInit == Init => WorkerExact
BY RequestAssumption DEF Init, Worker!Init, Worker!Nobody, WorkerExact, ExactOf

\* Faults are counted, so a run of the system that has none so far had none.
LEMMA ExactFaulted ==
    ASSUME WorkerParts, WorkerExact, Worker!Fault,
           phase' = "idle" \/ (phase' = phase /\ running' = running)
    PROVE  WorkerExact'
BY DEF WorkerParts, QueueTypes, WorkerExact, Worker!Fault

LEMMA ExactStep == WorkerParts /\ WorkerExact /\ [Next]_vars => WorkerExact'
<1> SUFFICES ASSUME WorkerParts, WorkerExact, [Next]_vars PROVE WorkerExact'
  OBVIOUS
<1> USE RequestAssumption DEF WorkerParts, WorkerTypes, QueueTypes, WorkerExact, ExactOf, Metered,
                              Requests, Worker!Put, Worker!Inc, Worker!NoFault, Worker!At,
                              Worker!Nobody, Worker!queueVars, Worker!workerVars, Worker!bookVars,
                              Worker!IsMetered
<1>1. CASE UNCHANGED workerVars
  BY <1>1 DEF workerVars
<1>2. ASSUME NEW r \in Request, NEW u \in Amount \cup {0}, Worker!Add(r, u) PROVE WorkerExact'
  <2>1. /\ job[r] = "none" /\ job' = [job EXCEPT ![r] = "waiting"]
        /\ UNCHANGED <<lock, running, phase, charges, syncs, faults>>
    BY <1>2 DEF Worker!Add
  <2> QED
    BY <2>1
<1>3. ASSUME NEW r \in Request, Worker!Take(r) PROVE WorkerExact'
  <2>1. /\ running = Worker!Nobody /\ job[r] = "waiting" /\ running' = r /\ phase' = "insert"
        /\ job' = [job EXCEPT ![r] = "active"] /\ lock' = [lock EXCEPT ![r] = TRUE]
        /\ UNCHANGED <<charges, syncs, faults>>
    BY <1>3 DEF Worker!Take
  <2> QED
    BY <2>1
<1>4. ASSUME NEW r \in Request, Worker!QueueStep(r) PROVE WorkerExact'
  <2>1. faults' = faults /\ running' = running /\ phase' = phase
    BY <1>4 DEF Worker!QueueStep, Worker!Promote, Worker!LockExpires, Worker!Stalled
  <2>2. faults # 0
    BY <1>4 DEF Worker!QueueStep, Worker!Promote, Worker!LockExpires, Worker!Stalled
  <2> QED
    BY <2>1, <2>2
<1>5. CASE Worker!InsertRow
  <2>1. /\ running \in Request /\ phase = "insert" /\ phase' \in {"update", "finish"}
        /\ UNCHANGED <<job, lock, running, charges, syncs, faults>>
    BY <1>5 DEF Worker!InsertRow
  <2> QED
    BY <2>1
<1>6. CASE Worker!UpdateBudgetUsed
  <2>1. /\ running \in Request /\ phase = "update" /\ charges' = [charges EXCEPT ![running] = @ + 1]
        /\ phase' = IF Metered(running) THEN "sync" ELSE "finish"
        /\ UNCHANGED <<job, lock, running, syncs, faults>>
    BY <1>6 DEF Worker!UpdateBudgetUsed
  <2>2. charges'[running] = charges[running] + 1 /\ \A r \in Request : r # running => charges'[r] = charges[r]
    BY <2>1
  <2> QED
    BY <2>1, <2>2
<1>7. CASE Worker!SyncRedis
  <2>1. /\ running \in Request /\ phase = "sync" /\ syncs' = [syncs EXCEPT ![running] = @ + 1]
        /\ phase' = "finish"
        /\ UNCHANGED <<job, lock, running, charges, faults>>
    BY <1>7 DEF Worker!SyncRedis
  <2>2. syncs'[running] = syncs[running] + 1 /\ \A r \in Request : r # running => syncs'[r] = syncs[r]
    BY <2>1
  <2> QED
    BY <2>1, <2>2
<1>8. CASE Worker!Finish
  <2>1. /\ running \in Request /\ phase = "finish" /\ running' = Worker!Nobody /\ phase' = "idle"
        /\ IF lock[running]
           THEN job' = [job EXCEPT ![running] = "completed"] /\ lock' = [lock EXCEPT ![running] = FALSE]
           ELSE UNCHANGED <<job, lock>>
        /\ UNCHANGED <<charges, syncs, faults>>
    BY <1>8 DEF Worker!Finish, Worker!GoIdle
  <2> QED
    BY <2>1
<1>9. CASE Worker!DatabaseError \/ Worker!SyncFails \/ Worker!WorkerCrash \/ Worker!SyncReplyLost
           \/ \E r \in Request : Worker!LockLost(r)
  BY <1>9, ExactFaulted DEF Worker!DatabaseError, Worker!SyncFails, Worker!WorkerCrash,
                            Worker!SyncReplyLost, Worker!LockLost, Worker!GoIdle
<1>10. ASSUME NEW r \in Request, Progress(r) \/ Upstream(r) \/ Arrive(r) PROVE UNCHANGED workerVars
  BY <1>10 DEF Progress, Upstream, Arrive, Authenticate, Unauthorized, AuthError, CheckError,
               CheckBudget, BudgetExceeded, Handle, BadRequest, CacheHit, CacheMiss,
               ProviderFails, ProviderAnswers, AllProvidersFailed, Respond, Flush
<1>11. CASE WorkerOnly \/ WorkerSyncs \/ WorkerFaults
  BY <1>3, <1>4, <1>5, <1>6, <1>7, <1>8, <1>9, <1>11 DEF WorkerOnly, WorkerSyncs, WorkerFaults
<1>12. CASE Crash
  BY <1>1, <1>9, <1>12 DEF Crash
<1>13. ASSUME NEW r \in Request, AddArrives(r) PROVE WorkerExact'
  BY <1>2, <1>13 DEF AddArrives, AddJob
<1>14. CASE CacheWrites \/ RedisFaults \/ UNCHANGED vars
  BY <1>1, <1>14 DEF CacheWrites, RedisFaults, vars
<1> QED
  BY <1>1, <1>10, <1>11, <1>12, <1>13, <1>14 DEF Next
-----------------------------------------------------------------------------
\* What the worker has added to the counter of a metered key.
SyncedUnits == [r \in Request |-> syncs[r] * units[r]]
Synced(k)   == SumFunctionOnSet(SyncedUnits, Of(k))

CountersExact ==
    NoFaults => \A k \in Key :
        counter[k] = IF Requests(k) THEN Cardinality(AdmittedOf(k)) ELSE Synced(k)

LEMMA ProductType == \A a, b \in Nat : a * b \in Nat
OBVIOUS

LEMMA OfFinite == \A k : IsFiniteSet(Of(k)) /\ Of(k) \subseteq Request
BY RequestAssumption, FS_Subset DEF Of

LEMMA SyncedType ==
    ASSUME WorkerParts
    PROVE  /\ \A r \in Request : SyncedUnits[r] \in Nat /\ syncs[r] \in Nat /\ units[r] \in Nat
           /\ \A k : Synced(k) \in Nat
<1>1. ASSUME NEW r \in Request PROVE SyncedUnits[r] \in Nat /\ syncs[r] \in Nat /\ units[r] \in Nat
  <2>1. syncs[r] \in Nat
    BY DEF WorkerParts, QueueTypes
  <2>2. units[r] \in Amount \cup {0}
    BY DEF WorkerParts, WorkerTypes
  <2>3. units[r] \in Nat
    <3>1. Amount \cup {0} \subseteq Nat
      BY AmountAssumption
    <3> QED
      BY <2>2, <3>1, Zenon
  <2> QED
    BY <2>1, <2>3, ProductType DEF SyncedUnits
<1>2. ASSUME NEW k PROVE Synced(k) \in Nat
  BY <1>1, OfFinite, SumNat DEF Synced
<1> QED
  BY <1>1, <1>2

\* The sum stays, also when a job that was not synced gets its units, ...
LEMMA SyncedStays ==
    ASSUME WorkerParts, NEW k, syncs' = syncs,
           \A r \in Request : (syncs[r] = 0 /\ units'[r] \in Nat) \/ units'[r] = units[r]
    PROVE  Synced(k)' = Synced(k)
<1> DEFINE w == [r \in Request |-> syncs'[r] * units'[r]]
<1>1. \A r \in Of(k) : SyncedUnits[r] \in Int /\ w[r] = SyncedUnits[r]
  <2> SUFFICES ASSUME NEW r \in Request PROVE SyncedUnits[r] \in Int /\ w[r] = SyncedUnits[r]
    BY DEF Of
  <2>1. syncs[r] \in Nat /\ units[r] \in Nat /\ SyncedUnits[r] \in Nat
    BY SyncedType
  <2>2. CASE syncs[r] = 0 /\ units'[r] \in Nat
    BY <2>1, <2>2 DEF SyncedUnits
  <2>3. CASE units'[r] = units[r]
    BY <2>1, <2>3 DEF SyncedUnits
  <2> QED
    BY <2>2, <2>3
<1>2. Synced(k)' = SumFunctionOnSet(w, Of(k))
  BY DEF Synced, SyncedUnits, Of
<1> HIDE DEF w
<1>3. SumFunctionOnSet(SyncedUnits, Of(k)) = SumFunctionOnSet(w, Of(k))
  BY <1>1, OfFinite, SumSame
<1> QED
  BY <1>2, <1>3 DEF Synced

\* ... and grows by the units of the job that is synced.
LEMMA SyncedGrows ==
    ASSUME WorkerParts, NEW k, NEW q \in Request, syncs' = [syncs EXCEPT ![q] = @ + 1], units' = units
    PROVE  Synced(k)' = Synced(k) + (IF KeyOf[q] = k THEN units[q] ELSE 0)
<1> DEFINE w == [r \in Request |-> syncs'[r] * units'[r]]
<1>1. ASSUME NEW r \in Request
      PROVE  SyncedUnits[r] \in Nat /\ w[r] = SyncedUnits[r] + (IF r = q THEN units[q] ELSE 0)
  <2>1. syncs[r] \in Nat /\ units[r] \in Nat /\ SyncedUnits[r] = syncs[r] * units[r] /\ SyncedUnits[r] \in Nat
    BY SyncedType DEF SyncedUnits
  <2>2. w[r] = (IF r = q THEN syncs[r] + 1 ELSE syncs[r]) * units[r]
    BY DEF WorkerParts, QueueTypes
  <2> QED
    BY <2>1, <2>2
<1>2. Synced(k)' = SumFunctionOnSet(w, Of(k))
  BY DEF Synced, SyncedUnits, Of
<1>3. \A r \in Request : SyncedUnits[r] \in Int /\ w[r] \in Int
  BY <1>1, SyncedType
<1>4. units[q] \in Nat
  BY SyncedType
<1> HIDE DEF w
<1>5. CASE KeyOf[q] = k
  <2>1. q \in Of(k)
    BY <1>5 DEF Of
  <2>2. \A r \in Of(k) \ {q} : w[r] = SyncedUnits[r]
    BY <1>1 DEF Of
  <2>3. SumFunctionOnSet(w, Of(k)) = SumFunctionOnSet(SyncedUnits, Of(k)) + w[q] - SyncedUnits[q]
    <3> DEFINE v == SyncedUnits
               D == Of(k)
    <3>1. IsFiniteSet(D) /\ q \in D /\ (\A r \in D : v[r] \in Int /\ w[r] \in Int) /\ \A r \in D \ {q} : w[r] = v[r]
      BY <1>3, <2>1, <2>2, OfFinite
    <3> HIDE DEF v, D
    <3>2. SumFunctionOnSet(w, D) = SumFunctionOnSet(v, D) + w[q] - v[q]
      BY <3>1, SumUpdate
    <3> QED
      BY <3>2 DEF v, D
  <2>4. SumFunctionOnSet(SyncedUnits, Of(k)) \in Nat /\ w[q] = SyncedUnits[q] + units[q] /\ SyncedUnits[q] \in Nat
    BY <1>1, SyncedType DEF Synced
  <2> QED
    BY <1>2, <1>4, <1>5, <2>3, <2>4 DEF Synced
<1>6. CASE KeyOf[q] # k
  <2>1. \A r \in Of(k) : SyncedUnits[r] \in Int /\ w[r] = SyncedUnits[r]
    BY <1>1, <1>6 DEF Of
  <2>2. SumFunctionOnSet(SyncedUnits, Of(k)) = SumFunctionOnSet(w, Of(k))
    BY <2>1, OfFinite, SumSame
  <2> QED
    BY <1>2, <1>6, <2>2, SyncedType DEF Synced
<1> QED
  BY <1>5, <1>6

LEMMA CountersInit == Init => CountersExact
<1> SUFFICES ASSUME Init, NEW k \in Key
             PROVE  counter[k] = IF Requests(k) THEN Cardinality(AdmittedOf(k)) ELSE Synced(k)
  BY DEF CountersExact
<1>1. /\ counter[k] = 0 /\ step = [r \in Request |-> "idle"]
      /\ syncs = [r \in Request |-> 0] /\ units = [r \in Request |-> 0]
  BY DEF Init, Budget!Init, Budget!InitWith, Worker!Init
<1>2. Cardinality(AdmittedOf(k)) = 0
  <2>1. AdmittedOf(k) = {}
    BY <1>1 DEF AdmittedOf
  <2> QED
    BY <2>1, FS_EmptySet
<1>3. Synced(k) = 0
  <2>1. \A r \in Of(k) : SyncedUnits[r] \in {0, 1} /\ SyncedUnits[r] # 1
    BY <1>1, OfFinite DEF SyncedUnits
  <2>2. {r \in Of(k) : SyncedUnits[r] = 1} = {}
    BY <2>1
  <2> QED
    BY <2>1, <2>2, OfFinite, SumBits, FS_EmptySet DEF Synced
<1> QED
  BY <1>1, <1>2, <1>3

\* A check, when Redis forgets nothing and executes nothing twice.
LEMMA CheckExact ==
    ASSUME CheckTypes, CountCovers, NEW k \in Key, NEW n \in Nat,
           counter[k] = IF Requests(k) THEN Cardinality(AdmittedOf(k)) ELSE n,
           \/ \E r \in Request : Budget!Intercept(r) \/ Budget!CheckStep(r) \/ Budget!CheckFails(r)
           \/ Budget!Crash \/ Budget!Reconnect \/ UNCHANGED budgetVars
    PROVE  counter'[k] = IF Requests(k) THEN Cardinality(AdmittedOf(k)') ELSE n
<1>0. ASSUME \A r \in Request : step'[r] = "passed" <=> step[r] = "passed", counter'[k] = counter[k]
      PROVE  counter'[k] = IF Requests(k) THEN Cardinality(AdmittedOf(k)') ELSE n
  <2>1. AdmittedOf(k)' = AdmittedOf(k)
    BY <1>0 DEF AdmittedOf
  <2> QED
    BY <1>0, <2>1
<1> USE KeyAssumption DEF CheckTypes, CountCovers, Requests, Budget!Goto, Budget!SendNext,
                          Budget!EndWith, Budget!SetZero, Budget!Unheard, Budget!SetCounter,
                          Budget!Current, Budget!Absent, Budget!IsRequests
<1>1. ASSUME NEW r \in Request,
             Budget!Intercept(r) \/ Budget!Exists(r) \/ Budget!EvalReject(r) \/ Budget!CheckFails(r)
      PROVE  counter'[k] = IF Requests(k) THEN Cardinality(AdmittedOf(k)') ELSE n
  <2>1. (\A q \in Request : step'[q] = "passed" <=> step[q] = "passed") /\ counter' = counter
    BY <1>1 DEF Budget!Intercept, Budget!Exists, Budget!EvalReject, Budget!CheckFails,
                Budget!Checking
  <2> QED
    BY <1>0, <2>1
<1>2. ASSUME NEW r \in Request, Budget!EvalAccept(r)
      PROVE  counter'[k] = IF Requests(k) THEN Cardinality(AdmittedOf(k)') ELSE n
  <2>1. Cardinality(AdmittedOf(k)') = Cardinality(AdmittedOf(k)) + (IF k = KeyOf[r] THEN 1 ELSE 0)
    BY <1>2, OneAdmitted DEF Budget!EvalAccept
  <2>2. Requests(KeyOf[r]) /\ KeyOf[r] \in Key /\ counter[KeyOf[r]] \in Nat
    BY <1>2 DEF Budget!EvalAccept
  <2>3. counter' = [counter EXCEPT ![KeyOf[r]] = counter[KeyOf[r]] + 1]
    <3>1. counter[KeyOf[r]] # Budget!Absent
      BY <2>2
    <3>2. Budget!Current(KeyOf[r]) = counter[KeyOf[r]]
      BY <3>1
    <3> QED
      BY <1>2, <3>2 DEF Budget!EvalAccept
  <2> QED
    BY <2>1, <2>2, <2>3, AdmittedCount
<1>3. ASSUME NEW r \in Request, Budget!CheckOnly(r)
      PROVE  counter'[k] = IF Requests(k) THEN Cardinality(AdmittedOf(k)') ELSE n
  <2>1. step[r] = "get" /\ ~Requests(KeyOf[r]) /\ counter' = counter
    BY <1>3 DEF Budget!CheckOnly
  <2>2. CASE step' = [step EXCEPT ![r] = "passed"]
    <3>1. Cardinality(AdmittedOf(k)') = Cardinality(AdmittedOf(k)) + (IF k = KeyOf[r] THEN 1 ELSE 0)
      BY <2>1, <2>2, OneAdmitted
    <3> QED
      BY <2>1, <3>1, AdmittedCount
  <2>3. CASE step' = [step EXCEPT ![r] = "refused"]
    <3>1. \A q \in Request : step'[q] = "passed" <=> step[q] = "passed"
      BY <2>1, <2>3
    <3> QED
      BY <1>0, <2>1, <3>1
  <2> QED
    BY <1>3, <2>2, <2>3 DEF Budget!CheckOnly
<1>4. ASSUME NEW r \in Request, Budget!Seed(r) PROVE FALSE
  BY <1>4 DEF Budget!Seed
<1>5. CASE Budget!Crash
  <2>1. (\A q \in Request : step'[q] = "passed" <=> step[q] = "passed") /\ counter' = counter
    BY <1>5 DEF Budget!Crash, Budget!Checking
  <2> QED
    BY <1>0, <2>1
<1>6. CASE Budget!Reconnect \/ UNCHANGED budgetVars
  BY <1>0, <1>6 DEF Budget!Reconnect, budgetVars
<1> QED
  BY <1>1, <1>2, <1>3, <1>4, <1>5, <1>6 DEF Budget!CheckStep

\* No fault is ever taken back.
LEMMA FaultsStay ==
    ASSUME CheckTypes, LedgerTypes, WorkerParts, [Next]_vars, NoFaults'
    PROVE  /\ NoFaults
           /\ ~WorkerFaults /\ ~Worker!WorkerCrash
           /\ RedisFaults => Budget!Reconnect
<1>a. ~Worker!Fault
  <2>1. faults \in Nat /\ faults' = 0
    BY DEF NoFaults, WorkerParts, QueueTypes
  <2> QED
    BY <2>1 DEF Worker!Fault
<1>1. ~WorkerFaults
  BY <1>a DEF WorkerFaults, Worker!DatabaseError, Worker!SyncFails, Worker!LockLost,
              Worker!SyncReplyLost
<1> USE DEF NoFaults, CheckTypes, LedgerTypes, WorkerParts, QueueTypes
<1>2. RedisFaults => Budget!Reconnect
  BY DEF RedisFaults, Budget!EvalReplyLost, Budget!SeedReplyLost, Budget!ReadReplyLost,
         Budget!Unheard, Budget!LoseReply, Budget!RollBack
<1>3. ~Worker!WorkerCrash
  BY DEF Worker!WorkerCrash, Worker!Fault
<1>4. NoFaults
  <2>1. CASE \E r \in Request : Progress(r) \/ Upstream(r) \/ Arrive(r)
    BY <2>1 DEF Progress, Upstream, Arrive, Authenticate, Unauthorized, AuthError, CheckError,
                CheckBudget, BudgetExceeded, Handle, BadRequest, CacheHit, CacheMiss,
                ProviderFails, ProviderAnswers, AllProvidersFailed, Respond, Flush, budgetVars,
                workerVars, Budget!Intercept, Budget!CheckStep, Budget!Exists, Budget!Seed,
                Budget!EvalAccept, Budget!EvalReject, Budget!CheckOnly, Budget!CheckFails
  <2>2. CASE \E r \in Request : AddArrives(r)
    BY <2>2 DEF AddArrives, AddJob, Worker!Add, Worker!NoFault, budgetVars
  <2>3. CASE WorkerOnly
    BY <2>3 DEF WorkerOnly, Worker!Take, Worker!QueueStep, Worker!Promote, Worker!LockExpires,
                Worker!Stalled, Worker!InsertRow, Worker!UpdateBudgetUsed, Worker!Finish,
                Worker!NoFault, budgetVars
  <2>4. CASE WorkerSyncs
    BY <2>4 DEF WorkerSyncs, Worker!SyncRedis, Worker!NoFault, Budget!IncrementBy
  <2>5. CASE Crash
    BY <1>3, <2>5 DEF Crash, Budget!Crash, budgetVars, workerVars
  <2>6. CASE CacheWrites \/ UNCHANGED vars
    BY <2>6 DEF CacheWrites, budgetVars, workerVars, vars
  <2>7. CASE RedisFaults
    BY <1>2, <2>7 DEF RedisFaults, Budget!Reconnect, workerVars
  <2> QED
    BY <1>1, <2>1, <2>2, <2>3, <2>4, <2>5, <2>6, <2>7 DEF Next
<1> QED
  BY <1>1, <1>2, <1>3, <1>4

LEMMA CountersStep ==
    CheckInv /\ LedgerTypes /\ WorkerParts /\ WorkerExact /\ CountersExact /\ [Next]_vars => CountersExact'
<1> SUFFICES ASSUME CheckInv, LedgerTypes, WorkerParts, WorkerExact, CountersExact, [Next]_vars,
                    NoFaults', NEW k \in Key
             PROVE  counter'[k] = IF Requests(k) THEN Cardinality(AdmittedOf(k)') ELSE Synced(k)'
  BY DEF CountersExact, Requests
<1>0. NoFaults /\ ~WorkerFaults /\ (RedisFaults => Budget!Reconnect) /\ ~Worker!WorkerCrash
  BY FaultsStay DEF CheckInv
<1>1. /\ CheckTypes /\ CountCovers /\ Synced(k) \in Nat
      /\ counter[k] = IF Requests(k) THEN Cardinality(AdmittedOf(k)) ELSE Synced(k)
  BY <1>0, SyncedType DEF CheckInv, CountersExact, NoFaults
<1>2. ASSUME Synced(k)' = Synced(k),
             \/ \E r \in Request : Budget!Intercept(r) \/ Budget!CheckStep(r) \/ Budget!CheckFails(r)
             \/ Budget!Crash \/ Budget!Reconnect \/ UNCHANGED budgetVars
      PROVE  counter'[k] = IF Requests(k) THEN Cardinality(AdmittedOf(k)') ELSE Synced(k)'
  <2>1. counter'[k] = IF Requests(k) THEN Cardinality(AdmittedOf(k)') ELSE Synced(k)
    BY <1>1, <1>2, CheckExact
  <2> QED
    BY <1>2, <2>1
<1>3. UNCHANGED <<syncs, units>> => Synced(k)' = Synced(k)
  BY SyncedStays
<1>4. ASSUME NEW r \in Request, Progress(r) \/ Upstream(r) \/ Arrive(r)
      PROVE  /\ UNCHANGED <<syncs, units>>
             /\ \/ Budget!Intercept(r) \/ Budget!CheckStep(r) \/ Budget!CheckFails(r)
                \/ UNCHANGED budgetVars
  BY <1>4 DEF Progress, Upstream, Arrive, Authenticate, Unauthorized, AuthError, CheckError,
              CheckBudget, BudgetExceeded, Handle, BadRequest, CacheHit, CacheMiss, ProviderFails,
              ProviderAnswers, AllProvidersFailed, Respond, Flush, workerVars
<1>5. ASSUME NEW r \in Request, AddArrives(r)
      PROVE  Synced(k)' = Synced(k) /\ UNCHANGED budgetVars
  <2>1. PICK u \in Amount \cup {0} : AddJob(r, u)
    BY <1>5 DEF AddArrives
  <2>2. job[r] = "none" /\ units' = [units EXCEPT ![r] = u] /\ syncs' = syncs /\ u \in Nat
    BY <2>1, AmountAssumption DEF AddJob, Worker!Add, Worker!Put, Worker!bookVars
  <2>3. syncs[r] = 0
    BY <1>0, <2>2 DEF NoFaults, WorkerExact, ExactOf
  <2>4. \A q \in Request : (syncs[q] = 0 /\ units'[q] \in Nat) \/ units'[q] = units[q]
    BY <2>2, <2>3 DEF WorkerParts, WorkerTypes
  <2> QED
    BY <2>1, <2>2, <2>4, SyncedStays DEF AddJob
<1>6. CASE WorkerOnly
  <2>1. UNCHANGED <<syncs, units>> /\ UNCHANGED budgetVars
    BY <1>6 DEF WorkerOnly, Worker!Take, Worker!QueueStep, Worker!Promote, Worker!LockExpires,
                Worker!Stalled, Worker!InsertRow, Worker!UpdateBudgetUsed, Worker!Finish,
                Worker!bookVars, Worker!queueVars
  <2> QED
    BY <1>2, <1>3, <2>1
<1>7. CASE WorkerSyncs
  <2>1. /\ running \in Request /\ syncs' = [syncs EXCEPT ![running] = @ + 1] /\ units' = units
        /\ Budget!IncrementBy(KeyOf[running], units[running])
    BY <1>7 DEF WorkerSyncs, Worker!SyncRedis, Worker!At, Worker!Inc, Worker!queueVars,
                WorkerParts, WorkerTypes
  <2>2. Synced(k)' = Synced(k) + (IF KeyOf[running] = k THEN units[running] ELSE 0)
    BY <2>1, SyncedGrows
  <2>3. /\ ~Requests(KeyOf[running]) /\ KeyOf[running] \in Key /\ step' = step
        /\ counter' = [counter EXCEPT ![KeyOf[running]] = Budget!Current(KeyOf[running]) + units[running]]
    BY <2>1, KeyAssumption DEF Budget!IncrementBy, Budget!SetCounter, Budget!IsRequests, Requests
  <2>4. AdmittedOf(k)' = AdmittedOf(k)
    BY <2>3 DEF AdmittedOf
  <2>5. CASE KeyOf[running] = k
    <3>1. Budget!Current(k) = Synced(k) /\ ~Requests(k)
      BY <1>1, <2>3, <2>5 DEF Budget!Current, Budget!Absent
    <3> QED
      BY <1>1, <2>2, <2>3, <2>5, <3>1 DEF CheckTypes
  <2>6. CASE KeyOf[running] # k
    BY <1>1, <2>2, <2>3, <2>4, <2>6 DEF CheckTypes
  <2> QED
    BY <2>5, <2>6
<1>8. CASE Crash
  <2>1. UNCHANGED <<syncs, units>> /\ (Budget!Crash \/ UNCHANGED budgetVars)
    BY <1>0, <1>8 DEF Crash, workerVars
  <2> QED
    BY <1>2, <1>3, <2>1
<1>9. CASE CacheWrites \/ RedisFaults \/ UNCHANGED vars
  BY <1>0, <1>2, <1>3, <1>9 DEF CacheWrites, RedisFaults, vars, workerVars
<1> QED
  BY <1>0, <1>2, <1>3, <1>4, <1>5, <1>6, <1>7, <1>8, <1>9 DEF Next
-----------------------------------------------------------------------------
\* budget_used and what Redis has, with each call charged at most once.
ChargedUnits == [r \in Request |-> charges[r] * Worker!BudgetIncrement(r)]

\* On a "requests" key, admitted calls are charged or not.
LEMMA RequestsDrift ==
    ASSUME WorkerParts, WorkerExact, BooksFollow, NoFaults, NEW k \in Key, Requests(k)
    PROVE  Cardinality(AdmittedOf(k)) =
               BudgetUsed(k) + Cardinality({r \in Of(k) : step[r] = "passed" /\ charges[r] = 0})
<1> DEFINE A == {r \in Of(k) : ChargedUnits[r] = 1}
           B == {r \in Of(k) : step[r] = "passed" /\ charges[r] = 0}
<1>1. ASSUME NEW r \in Of(k)
      PROVE  ChargedUnits[r] = charges[r] /\ charges[r] \in {0, 1} /\ (charges[r] = 1 => step[r] = "passed")
  <2>1. r \in Request /\ KeyOf[r] = k
    BY <1>1 DEF Of
  <2>2. Worker!BudgetIncrement(r) = 1
    BY <2>1 DEF Worker!BudgetIncrement, Worker!IsMetered, Requests
  <2>3. charges[r] \in {0, 1}
    BY <2>1 DEF NoFaults, WorkerExact, ExactOf
  <2>4. charges[r] = 1 => step[r] = "passed"
    BY <2>1 DEF BooksFollow, Accountable
  <2> QED
    BY <2>1, <2>2, <2>3, <2>4 DEF ChargedUnits
<1>2. SumFunctionOnSet(ChargedUnits, Of(k)) = Cardinality(A)
  <2>1. \A r \in Of(k) : ChargedUnits[r] \in {0, 1}
    BY <1>1
  <2> QED
    BY <2>1, OfFinite, SumBits
<1>3. AdmittedOf(k) = A \cup B /\ A \cap B = {}
  BY <1>1 DEF AdmittedOf, Of
<1>4. IsFiniteSet(A) /\ IsFiniteSet(B)
  BY OfFinite, FS_Subset
<1> HIDE DEF A, B
<1>5. Cardinality(A \cup B) = Cardinality(A) + Cardinality(B)
  <2>1. Cardinality(A \cap B) = 0
    BY <1>3, FS_EmptySet
  <2>2. Cardinality(A) \in Nat /\ Cardinality(B) \in Nat
    BY <1>4, FS_CardinalityType
  <2>3. Cardinality(A \cup B) = Cardinality(A) + Cardinality(B) - Cardinality(A \cap B)
    BY <1>4, FS_Union
  <2> QED
    BY <2>1, <2>2, <2>3
<1> QED
  BY <1>2, <1>3, <1>5 DEF BudgetUsed, ChargedUnits, B

\* On a metered key, the two differ by the call that the worker is about to sync.
LEMMA MeteredDrift ==
    ASSUME WorkerParts, WorkerExact, NoFaults, NEW k \in Key, ~Requests(k)
    PROVE  Synced(k) = BudgetUsed(k) - (IF phase = "sync" /\ KeyOf[running] = k THEN units[running] ELSE 0)
<1>1. ASSUME NEW r \in Of(k)
      PROVE  /\ ChargedUnits[r] = charges[r] * units[r] /\ SyncedUnits[r] = syncs[r] * units[r]
             /\ units[r] \in Nat /\ charges[r] \in Nat /\ syncs[r] \in Nat
             /\ ChargedUnits[r] \in Nat /\ SyncedUnits[r] \in Nat
  <2>1. r \in Request /\ KeyOf[r] = k
    BY <1>1 DEF Of
  <2>2. Worker!BudgetIncrement(r) = units[r]
    BY <2>1 DEF Worker!BudgetIncrement, Worker!IsMetered, Requests
  <2>3. units[r] \in Nat /\ charges[r] \in Nat /\ syncs[r] \in Nat
    BY <2>1, SyncedType DEF WorkerParts
  <2> QED
    BY <2>1, <2>2, <2>3, ProductType DEF ChargedUnits, SyncedUnits
<1>2. \A r \in Of(k) : r \in Request /\ Metered(r) /\ ExactOf(r)
  BY DEF Of, Metered, NoFaults, WorkerExact
<1>3. CASE phase = "sync" /\ KeyOf[running] = k
  <2>1. running \in Request /\ running \in Of(k)
    BY <1>3 DEF WorkerExact, Of
  <2>2. charges[running] = 1 /\ syncs[running] = 0
    BY <1>2, <1>3, <2>1 DEF ExactOf
  <2>3. ChargedUnits[running] = units[running] /\ SyncedUnits[running] = 0
    BY <1>1, <2>1, <2>2
  <2>4. \A r \in Of(k) \ {running} : ChargedUnits[r] = SyncedUnits[r]
    <3> SUFFICES ASSUME NEW r \in Of(k), r # running PROVE ChargedUnits[r] = SyncedUnits[r]
      OBVIOUS
    <3>1. syncs[r] = charges[r]
      BY <1>2 DEF ExactOf
    <3> QED
      BY <1>1, <3>1
  <2>5. SumFunctionOnSet(ChargedUnits, Of(k)) =
            SumFunctionOnSet(SyncedUnits, Of(k)) + ChargedUnits[running] - SyncedUnits[running]
    <3>1. \A r \in Of(k) : SyncedUnits[r] \in Int /\ ChargedUnits[r] \in Int
      BY <1>1
    <3> QED
      BY <2>1, <2>4, <3>1, OfFinite, SumUpdate
  <2>6. SumFunctionOnSet(SyncedUnits, Of(k)) \in Nat /\ units[running] \in Nat
    BY <1>1, <2>1, SyncedType DEF Synced
  <2> QED
    BY <1>3, <2>3, <2>5, <2>6 DEF Synced, BudgetUsed, ChargedUnits
<1>4. CASE ~(phase = "sync" /\ KeyOf[running] = k)
  <2>1. \A r \in Of(k) : SyncedUnits[r] \in Int /\ ChargedUnits[r] = SyncedUnits[r]
    <3> SUFFICES ASSUME NEW r \in Of(k) PROVE SyncedUnits[r] \in Int /\ ChargedUnits[r] = SyncedUnits[r]
      OBVIOUS
    <3>1. ~(running = r /\ phase = "sync")
      BY <1>4 DEF Of
    <3>2. syncs[r] = charges[r]
      BY <1>2, <3>1 DEF ExactOf
    <3> QED
      BY <1>1, <3>2
  <2>2. SumFunctionOnSet(SyncedUnits, Of(k)) = SumFunctionOnSet(ChargedUnits, Of(k))
    BY <2>1, OfFinite, SumSame
  <2>3. SumFunctionOnSet(SyncedUnits, Of(k)) \in Nat
    BY SyncedType DEF Synced
  <2> QED
    BY <1>4, <2>2, <2>3 DEF Synced, BudgetUsed, ChargedUnits
<1> QED
  BY <1>3, <1>4

\* The Redis counter and budget_used part only by what can be explained: admitted
\* calls that were not charged, or the one update the worker is about to make.
THEOREM DriftIsExplained == Spec => []DriftExplained
<1>1. Init => LedgerTypes /\ QueueTypes
  BY DEF Init, Budget!Init, Budget!InitWith, Worker!Init, LedgerTypes, QueueTypes, Worker!Phases
<1>2. CheckInv => CheckTypes
  BY DEF CheckInv
<1>3. Spec => [](LedgerTypes /\ QueueTypes)
  BY <1>1, <1>2, LedgerTypesStep, QueueTypesStep, BudgetStep, CheckAlways, WorkerTypesAlways, PTL
     DEF Spec
<1>4. Spec => []RespondsWithAnswer
  BY RespondsInit, RespondsStep, AnsweredAlways, PTL DEF Spec
<1>5. Spec => []BooksFollow
  BY <1>2, <1>4, FollowInit, FollowStep, AnsweredAlways, CheckAlways, WorkerTypesAlways, PTL
     DEF Spec
<1>6. WorkerTypes /\ QueueTypes /\ BooksFollow => WorkerParts
  BY DEF WorkerParts, BooksFollow
<1>7. Spec => []WorkerParts
  BY <1>3, <1>5, <1>6, WorkerTypesAlways, PTL
<1>8. Spec => []WorkerExact
  BY <1>7, ExactInit, ExactStep, PTL DEF Spec
<1>9. Spec => []CountersExact
  BY <1>3, <1>7, <1>8, CountersInit, CountersStep, CheckAlways, PTL DEF Spec
<1>10. CheckInv /\ WorkerParts /\ WorkerExact /\ BooksFollow /\ CountersExact => DriftExplained
  <2> SUFFICES ASSUME CheckInv, WorkerParts, WorkerExact, BooksFollow, CountersExact, NoFaults, NEW k \in Key
               PROVE  IF Requests(k)
                      THEN counter[k] = BudgetUsed(k) +
                              Cardinality({r \in Of(k) : step[r] = "passed" /\ charges[r] = 0})
                      ELSE counter[k] = BudgetUsed(k) -
                              (IF phase = "sync" /\ KeyOf[running] = k THEN units[running] ELSE 0)
    BY DEF DriftExplained, Requests
  <2>1. counter[k] = IF Requests(k) THEN Cardinality(AdmittedOf(k)) ELSE Synced(k)
    BY DEF CountersExact
  <2> QED
    BY <2>1, RequestsDrift, MeteredDrift
<1>11. QED
  BY <1>5, <1>7, <1>8, <1>9, <1>10, CheckAlways, PTL
-----------------------------------------------------------------------------
(***************************************************************************)
(* The other three parts.  As with Budget, every step of the gateway is a  *)
(* step of the part or leaves its variables alone, so that the gateway     *)
(* implements each of them as its own module specifies it.                 *)
(***************************************************************************)
LEMMA WorkerStep == [Next]_vars => [Worker!Next]_(Worker!vars)
<1> SUFFICES ASSUME [Next]_vars PROVE [Worker!Next]_(Worker!vars)
  OBVIOUS
<1>0. UNCHANGED workerVars => UNCHANGED Worker!vars
  BY DEF workerVars, Worker!vars, Worker!queueVars, Worker!workerVars, Worker!bookVars
<1>1. ASSUME NEW r \in Request, Progress(r) \/ Upstream(r) \/ Arrive(r) PROVE UNCHANGED workerVars
  BY <1>1 DEF Progress, Upstream, Arrive, Authenticate, Unauthorized, AuthError, CheckError,
              CheckBudget, BudgetExceeded, Handle, BadRequest, CacheHit, CacheMiss, ProviderFails,
              ProviderAnswers, AllProvidersFailed, Respond, Flush
<1>2. ASSUME NEW r \in Request, AddArrives(r) PROVE Worker!Next
  BY <1>2 DEF AddArrives, AddJob, Worker!Next
<1>3. CASE WorkerOnly
  BY <1>3 DEF WorkerOnly, Worker!Next, Worker!WorkerStep
<1>4. CASE WorkerSyncs
  BY <1>4 DEF WorkerSyncs, Worker!Next, Worker!WorkerStep
<1>5. CASE WorkerFaults
  BY <1>5 DEF WorkerFaults, Worker!Next, Worker!Faults
<1>6. CASE Crash
  BY <1>0, <1>6 DEF Crash, Worker!Next, Worker!Faults
<1>7. CASE CacheWrites \/ RedisFaults \/ UNCHANGED vars
  BY <1>0, <1>7 DEF CacheWrites, RedisFaults, vars
<1> QED
  BY <1>0, <1>1, <1>2, <1>3, <1>4, <1>5, <1>6, <1>7 DEF Next

\* The worker inside the gateway is the one of UsageWorker, fed by the handler.
THEOREM UsesWorker == Spec => Worker!Spec
<1>1. Init => Worker!Init
  BY DEF Init
<1>2. QED
  BY <1>1, WorkerStep, PTL DEF Spec, Worker!Spec

LEMMA ChainStep == [Next]_vars => [Promise!Next]_(Promise!promiseVars)
<1> SUFFICES ASSUME [Next]_vars PROVE [Promise!Next]_(Promise!promiseVars)
  OBVIOUS
<1>0. UNCHANGED providerVars => UNCHANGED Promise!promiseVars
  BY DEF providerVars, Promise!promiseVars
<1>1. ASSUME NEW r \in Request, CacheMiss(r) \/ ProviderFails(r) \/ ProviderAnswers(r) PROVE Promise!Next
  BY <1>1 DEF CacheMiss, ProviderFails, ProviderAnswers, Promise!Next
<1>2. ASSUME NEW r \in Request, Progress(r) \/ Upstream(r) \/ Arrive(r) \/ AddArrives(r),
             ~(CacheMiss(r) \/ ProviderFails(r) \/ ProviderAnswers(r))
      PROVE  UNCHANGED providerVars
  BY <1>2 DEF Progress, Upstream, Arrive, AddArrives, AddJob, Authenticate, Unauthorized,
              AuthError, CheckError, CheckBudget, BudgetExceeded, Handle, BadRequest, CacheHit,
              AllProvidersFailed, Respond, Flush
<1>3. CASE Crash
  BY <1>3 DEF Crash, Promise!Next
<1>4. CASE CacheWrites \/ WorkerOnly \/ WorkerSyncs \/ WorkerFaults \/ RedisFaults \/ UNCHANGED vars
  BY <1>0, <1>4 DEF CacheWrites, WorkerOnly, WorkerSyncs, WorkerFaults, RedisFaults, vars
<1> QED
  BY <1>0, <1>1, <1>2, <1>3, <1>4 DEF Next

\* The providers are asked as ProviderPromise says, which Provider implements.
THEOREM UsesChain == Spec => Promise!Spec
<1>1. Init => Promise!Init
  BY DEF Init
<1>2. QED
  BY <1>1, ChainStep, PTL DEF Spec, Promise!Spec

LEMMA KeepStep == [Next]_vars => [Cache!Next]_(Cache!cacheVars)
<1> SUFFICES ASSUME [Next]_vars PROVE [Cache!Next]_(Cache!cacheVars)
  OBVIOUS
<1>0. UNCHANGED cacheVars => UNCHANGED Cache!cacheVars
  BY DEF cacheVars, Cache!cacheVars
<1>1. ASSUME NEW r \in Request, CacheHit(r) \/ ProviderAnswers(r) PROVE Cache!Next
  BY <1>1 DEF CacheHit, ProviderAnswers, Cache!Next
<1>2. ASSUME NEW r \in Request, Progress(r) \/ Upstream(r) \/ Arrive(r) \/ AddArrives(r), ~(CacheHit(r) \/ ProviderAnswers(r))
      PROVE  UNCHANGED cacheVars
  BY <1>2 DEF Progress, Upstream, Arrive, AddArrives, AddJob, Authenticate, Unauthorized,
              AuthError, CheckError, CheckBudget, BudgetExceeded, Handle, BadRequest, CacheMiss,
              ProviderFails, AllProvidersFailed, Respond, Flush
<1>3. CASE CacheWrites
  BY <1>3 DEF CacheWrites, Cache!Next
<1>4. CASE Crash
  BY <1>4 DEF Crash, Cache!Next
<1>5. CASE WorkerOnly \/ WorkerSyncs \/ WorkerFaults \/ RedisFaults \/ UNCHANGED vars
  BY <1>0, <1>5 DEF WorkerOnly, WorkerSyncs, WorkerFaults, RedisFaults, vars
<1> QED
  BY <1>0, <1>1, <1>2, <1>3, <1>4, <1>5 DEF Next

\* The cache is used as CachePromise says, which SemanticCache implements.
THEOREM UsesCache == Spec => Cache!Spec
<1>1. Init => Cache!Init
  BY DEF Init
<1>2. QED
  BY <1>1, KeepStep, PTL DEF Spec, Cache!Spec
-----------------------------------------------------------------------------
(***************************************************************************)
(* The theorems about the parts, said of the gateway.  Their modules are   *)
(* instantiated like the parts themselves; what they assume of their       *)
(* constants follows from what the gateway assumes of its own.             *)
(***************************************************************************)
WorkerTheorems == INSTANCE UsageWorkerProofs WITH
    Job          <- Request,
    JobType      <- [r \in Request |-> BudgetType[KeyOf[r]]],
    Attempts     <- [r \in Request |-> Attempts],
    MaxRollBacks <- 0

LEMMA WorkerAssumptions ==
    /\ WorkerTheorems!JobAssumption /\ WorkerTheorems!JobTypeAssumption /\ WorkerTheorems!AmountAssumption
    /\ WorkerTheorems!AttemptsAssumption /\ WorkerTheorems!FaultAssumption
BY RequestAssumption, KeyAssumption, AmountAssumption, AttemptsAssumption, BoundAssumption
DEF WorkerTheorems!JobAssumption, WorkerTheorems!JobTypeAssumption, WorkerTheorems!AmountAssumption,
    WorkerTheorems!AttemptsAssumption, WorkerTheorems!FaultAssumption, WorkerTheorems!Nobody

\* Both instances of UsageWorker say the same.
LEMMA SameWorker == Worker!Spec => WorkerTheorems!Spec
<1>1. Worker!Init => WorkerTheorems!Init
  BY DEF Worker!Init, WorkerTheorems!Init, Worker!Nobody, WorkerTheorems!Nobody
<1>2. UNCHANGED Worker!vars => UNCHANGED WorkerTheorems!vars
  BY DEF Worker!vars, WorkerTheorems!vars, Worker!queueVars, WorkerTheorems!queueVars,
         Worker!workerVars, WorkerTheorems!workerVars, Worker!bookVars, WorkerTheorems!bookVars
<1>3. Worker!Next => WorkerTheorems!Next
  <2> USE DEF Worker!queueVars, WorkerTheorems!queueVars, Worker!workerVars,
              WorkerTheorems!workerVars, Worker!bookVars, WorkerTheorems!bookVars, Worker!Nobody,
              WorkerTheorems!Nobody, Worker!MaxStalledCount, WorkerTheorems!MaxStalledCount,
              Worker!Put, WorkerTheorems!Put, Worker!Inc, WorkerTheorems!Inc, Worker!Fault,
              WorkerTheorems!Fault, Worker!NoFault, WorkerTheorems!NoFault, Worker!At,
              WorkerTheorems!At, Worker!GoIdle, WorkerTheorems!GoIdle, Worker!MoveToFailed,
              WorkerTheorems!MoveToFailed, Worker!IsMetered, WorkerTheorems!IsMetered,
              Worker!BudgetIncrement, WorkerTheorems!BudgetIncrement
  <2>1. \A r : Worker!QueueStep(r) => WorkerTheorems!QueueStep(r)
    BY DEF Worker!QueueStep, WorkerTheorems!QueueStep, Worker!Promote, WorkerTheorems!Promote,
           Worker!LockExpires, WorkerTheorems!LockExpires, Worker!Stalled, WorkerTheorems!Stalled
  <2>2. Worker!WorkerStep => WorkerTheorems!WorkerStep
    BY DEF Worker!WorkerStep, WorkerTheorems!WorkerStep, Worker!Take, WorkerTheorems!Take,
           Worker!InsertRow, WorkerTheorems!InsertRow, Worker!UpdateBudgetUsed,
           WorkerTheorems!UpdateBudgetUsed, Worker!SyncRedis, WorkerTheorems!SyncRedis,
           Worker!Finish, WorkerTheorems!Finish
  <2>3. Worker!Faults => WorkerTheorems!Faults
    BY DEF Worker!Faults, WorkerTheorems!Faults, Worker!DatabaseError,
           WorkerTheorems!DatabaseError, Worker!SyncFails, WorkerTheorems!SyncFails,
           Worker!SyncReplyLost, WorkerTheorems!SyncReplyLost, Worker!WorkerCrash,
           WorkerTheorems!WorkerCrash, Worker!LockLost, WorkerTheorems!LockLost,
           Worker!QueueRollBack, WorkerTheorems!QueueRollBack
  <2>4. \A r, u : Worker!Add(r, u) => WorkerTheorems!Add(r, u)
    BY DEF Worker!Add, WorkerTheorems!Add
  <2> QED
    BY <2>1, <2>2, <2>3, <2>4 DEF Worker!Next, WorkerTheorems!Next
<1>4. [Worker!Next]_(Worker!vars) => [WorkerTheorems!Next]_(WorkerTheorems!vars)
  BY <1>2, <1>3
<1>5. QED
  BY <1>1, <1>4, PTL DEF Worker!Spec, WorkerTheorems!Spec

\* The accounting of every call the gateway serves, whatever the rest of it does:
\* what UsageWorkerProofs says of a worker on its own.
THEOREM AccountingHolds ==
    Spec => /\ []Worker!LoggedBeforeCharged
            /\ []Worker!CompletedIsRecorded
            /\ []Worker!RunsBounded
            /\ []Worker!ExactWithoutFaults
<1>0. Spec => WorkerTheorems!Spec
  BY UsesWorker, SameWorker
<1> USE WorkerAssumptions DEF Worker!IsMetered, WorkerTheorems!IsMetered, Worker!BudgetIncrement,
                              WorkerTheorems!BudgetIncrement, Worker!MaxStalledCount,
                              WorkerTheorems!MaxStalledCount, Worker!vars, WorkerTheorems!vars,
                              Worker!queueVars, WorkerTheorems!queueVars, Worker!workerVars,
                              WorkerTheorems!workerVars, Worker!bookVars, WorkerTheorems!bookVars
<1>1. WorkerTheorems!Spec => []Worker!LoggedBeforeCharged
  BY WorkerTheorems!ChargesAreLogged DEF Worker!LoggedBeforeCharged,
                                         WorkerTheorems!LoggedBeforeCharged
<1>2. WorkerTheorems!Spec => []Worker!CompletedIsRecorded
  BY WorkerTheorems!CompletedRecorded DEF Worker!CompletedIsRecorded,
                                          WorkerTheorems!CompletedIsRecorded
<1>3. WorkerTheorems!Spec => []Worker!RunsBounded
  BY WorkerTheorems!BoundedRuns DEF Worker!RunsBounded, WorkerTheorems!RunsBounded
<1>4. WorkerTheorems!Spec => []Worker!ExactWithoutFaults
  BY WorkerTheorems!Exactness DEF Worker!ExactWithoutFaults, WorkerTheorems!ExactWithoutFaults
<1> QED
  BY <1>0, <1>1, <1>2, <1>3, <1>4

BudgetTheorems == INSTANCE BudgetProofs WITH MaxCharged <- 0

LEMMA BudgetAssumptions ==
    /\ BudgetTheorems!RequestAssumption /\ BudgetTheorems!KeyOfAssumption /\ BudgetTheorems!TypeAssumption
    /\ BudgetTheorems!LimitAssumption /\ BudgetTheorems!AmountAssumption /\ BudgetTheorems!BoundAssumption
BY RequestAssumption, KeyAssumption, AmountAssumption, BoundAssumption
DEF BudgetTheorems!RequestAssumption, BudgetTheorems!KeyOfAssumption, BudgetTheorems!TypeAssumption,
    BudgetTheorems!LimitAssumption, BudgetTheorems!AmountAssumption, BudgetTheorems!BoundAssumption,
    BudgetTheorems!Types, BudgetTheorems!IsFiniteSet, IsFiniteSet

\* Both instances of Budget say the same.
LEMMA SameBudget == Budget!Spec => BudgetTheorems!Spec
<1>1. Budget!Init => BudgetTheorems!Init
  BY DEF Budget!Init, BudgetTheorems!Init, Budget!InitWith, BudgetTheorems!InitWith
<1>2. UNCHANGED Budget!vars => UNCHANGED BudgetTheorems!vars
  BY DEF Budget!vars, BudgetTheorems!vars
<1>3. Budget!Next => BudgetTheorems!Next
  <2> USE DEF Budget!Goto, BudgetTheorems!Goto, Budget!SetCounter, BudgetTheorems!SetCounter,
              Budget!ThrowAway, BudgetTheorems!ThrowAway, Budget!LuaAccepts,
              BudgetTheorems!LuaAccepts, Budget!Current, BudgetTheorems!Current, Budget!Absent,
              BudgetTheorems!Absent, Budget!IsRequests, BudgetTheorems!IsRequests,
              Budget!LoseReply, BudgetTheorems!LoseReply, Budget!Checking,
              BudgetTheorems!Checking, Budget!SetZero, BudgetTheorems!SetZero
  <2>a. /\ \A r, s : Budget!SendNext(r, s) = BudgetTheorems!SendNext(r, s)
        /\ \A r, s : Budget!EndWith(r, s) = BudgetTheorems!EndWith(r, s)
        /\ \A r : Budget!Unheard(r) = BudgetTheorems!Unheard(r)
    BY DEF Budget!SendNext, BudgetTheorems!SendNext, Budget!EndWith, BudgetTheorems!EndWith,
           Budget!Unheard, BudgetTheorems!Unheard, Budget!Answered, BudgetTheorems!Answered
  <2>1. \A r : Budget!Intercept(r) \/ Budget!CheckStep(r) \/ Budget!CheckFails(r)
                 => BudgetTheorems!Intercept(r) \/ BudgetTheorems!CheckStep(r) \/ BudgetTheorems!CheckFails(r)
    BY <2>a DEF Budget!Intercept, BudgetTheorems!Intercept, Budget!CheckStep,
                BudgetTheorems!CheckStep, Budget!Exists, BudgetTheorems!Exists, Budget!Seed,
                BudgetTheorems!Seed, Budget!EvalAccept, BudgetTheorems!EvalAccept,
                Budget!EvalReject, BudgetTheorems!EvalReject, Budget!CheckOnly,
                BudgetTheorems!CheckOnly, Budget!CheckFails, BudgetTheorems!CheckFails
  <2>2. \A k, a : Budget!IncrementBy(k, a) => BudgetTheorems!IncrementBy(k, a)
    BY DEF Budget!IncrementBy, BudgetTheorems!IncrementBy
  <2>3. Budget!ReplyLost => BudgetTheorems!ReplyLost
    BY <2>a DEF Budget!ReplyLost, BudgetTheorems!ReplyLost, Budget!EvalReplyLost,
                BudgetTheorems!EvalReplyLost, Budget!SeedReplyLost, BudgetTheorems!SeedReplyLost,
                Budget!ReadReplyLost, BudgetTheorems!ReadReplyLost, Budget!IncrementReplyLost,
                BudgetTheorems!IncrementReplyLost
  <2>4. \A k, c : Budget!RollBack(k, c) => BudgetTheorems!RollBack(k, c)
    BY DEF Budget!RollBack, BudgetTheorems!RollBack
  <2>5. (Budget!Crash => BudgetTheorems!Crash) /\ (Budget!Reconnect => BudgetTheorems!Reconnect)
    BY DEF Budget!Crash, BudgetTheorems!Crash, Budget!Reconnect, BudgetTheorems!Reconnect
  <2> QED
    BY <2>1, <2>2, <2>3, <2>4, <2>5 DEF Budget!Next, BudgetTheorems!Next
<1>4. [Budget!Next]_(Budget!vars) => [BudgetTheorems!Next]_(BudgetTheorems!vars)
  BY <1>2, <1>3
<1>5. QED
  BY <1>1, <1>4, PTL DEF Budget!Spec, BudgetTheorems!Spec

\* The budget of every key the gateway serves, whatever handler, providers and
\* worker do: what BudgetProofs says of the check on its own.
THEOREM BudgetsHold ==
    Spec => /\ []Budget!NoOverspend
            /\ []Budget!OverspendBound
            /\ []Budget!NoFalseRefusal
            /\ []Budget!LedgerBalances
            /\ Budget!ExhaustionIsFinal
<1>0. Spec => BudgetTheorems!Spec
  BY UsesBudget, SameBudget DEF ImplementsBudget
<1>c. \A S : BudgetTheorems!Cardinality(S) = Budget!Cardinality(S)
  BY DEF BudgetTheorems!Cardinality, Budget!Cardinality
<1> USE DEF Budget!Consumed, BudgetTheorems!Consumed, Budget!Admitted, BudgetTheorems!Admitted,
            Budget!IsRequests, BudgetTheorems!IsRequests, Budget!Current, BudgetTheorems!Current,
            Budget!Absent, BudgetTheorems!Absent
<1>1. Spec => []Budget!NoOverspend
  <2>1. BudgetTheorems!Spec => []BudgetTheorems!NoOverspend
    BY BudgetAssumptions, BudgetTheorems!ZeroOverspend
  <2>2. BudgetTheorems!NoOverspend => Budget!NoOverspend
    BY <1>c DEF BudgetTheorems!NoOverspend, Budget!NoOverspend
  <2> QED
    BY <1>0, <2>1, <2>2, PTL
<1>2. Spec => []Budget!OverspendBound
  <2>1. BudgetTheorems!Spec => []BudgetTheorems!OverspendBound
    BY BudgetAssumptions, BudgetTheorems!Overspend
  <2>2. BudgetTheorems!OverspendBound => Budget!OverspendBound
    BY <1>c DEF BudgetTheorems!OverspendBound, Budget!OverspendBound
  <2> QED
    BY <1>0, <2>1, <2>2, PTL
<1>3. Spec => []Budget!NoFalseRefusal
  <2>1. BudgetTheorems!Spec => []BudgetTheorems!NoFalseRefusal
    BY BudgetAssumptions, BudgetTheorems!RefusalsAreDue
  <2>2. BudgetTheorems!NoFalseRefusal => Budget!NoFalseRefusal
    BY <1>c DEF BudgetTheorems!NoFalseRefusal, Budget!NoFalseRefusal
  <2> QED
    BY <1>0, <2>1, <2>2, PTL
<1>4. Spec => []Budget!LedgerBalances
  <2>1. BudgetTheorems!Spec => []BudgetTheorems!LedgerBalances
    BY BudgetAssumptions, BudgetTheorems!Ledger
  <2>2. BudgetTheorems!LedgerBalances => Budget!LedgerBalances
    BY <1>c DEF BudgetTheorems!LedgerBalances, Budget!LedgerBalances
  <2> QED
    BY <1>0, <2>1, <2>2, PTL
<1>5. Spec => Budget!ExhaustionIsFinal
  <2>1. BudgetTheorems!Spec => BudgetTheorems!ExhaustionIsFinal
    BY BudgetAssumptions, BudgetTheorems!Exhaustion
  <2>2. [\A r \in Request :
             (lost[KeyOf[r]] = 0 /\ BudgetTheorems!Consumed(KeyOf[r]) >= Limit[KeyOf[r]])
                 => (step'[r] = "passed" => step[r] = "passed")]_(BudgetTheorems!vars)
            => [\A r \in Request :
                   (lost[KeyOf[r]] = 0 /\ Budget!Consumed(KeyOf[r]) >= Limit[KeyOf[r]])
                       => (step'[r] = "passed" => step[r] = "passed")]_(Budget!vars)
    BY <1>c DEF BudgetTheorems!vars, Budget!vars
  <2> QED
    BY <1>0, <2>1, <2>2, PTL DEF BudgetTheorems!ExhaustionIsFinal, Budget!ExhaustionIsFinal
<1> QED
  BY <1>0, <1>1, <1>2, <1>3, <1>4, <1>5

\* Type correctness of the composition and of the components in it: most of it is
\* in the invariants above, the rest in what is proved of Budget.
THEOREM TypeCorrect == Spec => []TypeOK
<1>1. Init => LedgerTypes /\ QueueTypes /\ Replies
  BY DEF Init, Budget!Init, Budget!InitWith, Worker!Init, LedgerTypes, QueueTypes, Replies,
         Worker!Phases
<1>2. CheckInv => CheckTypes
  BY DEF CheckInv
<1>3. Spec => [](LedgerTypes /\ QueueTypes /\ Replies)
  BY <1>1, <1>2, LedgerTypesStep, QueueTypesStep, RepliesStep, BudgetStep, CheckAlways,
     WorkerTypesAlways, PTL DEF Spec
<1>4. Spec => []RespondsWithAnswer
  BY RespondsInit, RespondsStep, AnsweredAlways, PTL DEF Spec
<1>5. Spec => []BooksFollow
  BY <1>2, <1>4, FollowInit, FollowStep, AnsweredAlways, CheckAlways, WorkerTypesAlways, PTL
     DEF Spec
<1>6. Spec => []AnswerInv
  BY <1>4, AnswerInit, AnswerStep, AnsweredAlways, PTL DEF Spec
<1>7. /\ LedgerTypes /\ QueueTypes /\ Replies /\ CheckTypes /\ WorkerTypes
      /\ AnsweredAdmitted /\ RespondsWithAnswer /\ BooksFollow /\ AnswerInv /\ Budget!TypeOK
      => TypeOK
  BY DEF LedgerTypes, QueueTypes, Replies, CheckTypes, WorkerTypes, AnsweredAdmitted,
         RespondsWithAnswer, BooksFollow, AnswerInv, AnswerFollows, TypeOK, Worker!TypeOK
<1>8. Spec => []Budget!TypeOK
  <2>1. BudgetTheorems!Spec => []BudgetTheorems!TypeOK
    BY BudgetAssumptions, BudgetTheorems!TypeCorrect
  <2>2. BudgetTheorems!TypeOK => Budget!TypeOK
    BY DEF BudgetTheorems!TypeOK, Budget!TypeOK, BudgetTheorems!QueueOK, Budget!QueueOK,
           BudgetTheorems!Steps, Budget!Steps, BudgetTheorems!Checking, Budget!Checking,
           BudgetTheorems!Decided, Budget!Decided, BudgetTheorems!Absent, Budget!Absent
  <2> QED
    BY <2>1, <2>2, UsesBudget, SameBudget, PTL DEF ImplementsBudget
<1>9. QED
  BY <1>8, <1>2, <1>3, <1>4, <1>5, <1>6, <1>7, AnsweredAlways, CheckAlways, WorkerTypesAlways, PTL
=============================================================================
