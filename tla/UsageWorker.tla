----------------------------- MODULE UsageWorker -----------------------------
(***************************************************************************)
(* The asynchronous accounting of a served call: a BullMQ job on the queue *)
(* 'usage-logging', and UsageProcessor.process, which inserts a usage_logs *)
(* row, adds to virtual_keys.budget_used and, for metered keys, adds to    *)
(* the Redis counter: three separate commits, in that order.               *)
(*                                                                         *)
(* BullMQ is not in this repository; its jobs are modelled from how the    *)
(* code uses it (default worker options: one job at a time, a lock that is *)
(* renewed while the job runs, a stalled check that gives a job back once).*)
(* A database error may come before or after the commit took effect; an    *)
(* error reply of Redis changes nothing.                                   *)
(***************************************************************************)
EXTENDS Integers, FiniteSets

CONSTANTS
    Job,         \* one job per served call
    JobType,     \* its budgetType
    Amount,      \* the totalTokens, or costEstimateInr in whole units, of a call
    Attempts,    \* its option "attempts"
    MaxFaults,   \* bound: errors, crashes, lost locks and lost replies
    MaxRollBacks \* bound: jobs that Redis restores from an older state

Nobody == "nobody"          \* no job is running

\* gateway.module.ts registers the queue the controller adds to without
\* defaultJobOptions; usage.module.ts registers its own with three attempts.
GatewayAttempts == 1
UsageAttempts   == 3

MaxStalledCount == 1        \* BullMQ's default

ASSUME JobAssumption      == Nobody \notin Job
ASSUME JobTypeAssumption  == JobType \in [Job -> {"requests", "tokens", "cost_inr"}]
ASSUME AmountAssumption   == Amount \subseteq Nat
ASSUME AttemptsAssumption == Attempts \in [Job -> Nat \ {0}]
ASSUME FaultAssumption    == MaxFaults \in Nat /\ MaxRollBacks \in Nat

VARIABLES
    job,       \* the job's state in Redis
    units,     \* the units in the job's data
    lock,      \* is the job's lock there?
    attempts,  \* attemptsMade
    stalls,    \* stalledCounter
    running,   \* the job the worker runs, or Nobody
    phase,     \* how far process() is in it
    rows,      \* usage_logs rows of the call
    charges,   \* how often budget_used was increased for the call
    syncs,     \* how often the Redis counter was increased for the call
    runs,      \* history: how often process() was started for the call
    faults, rollBackedJobs  \* faults so far

workerVars == <<running, phase>>
queueVars  == <<job, units, lock, attempts, stalls>>
bookVars   == <<rows, charges, syncs>>
vars == <<queueVars, workerVars, bookVars, runs, faults, rollBackedJobs>>

JobStates == {"none", "waiting", "active", "delayed", "completed", "failed", "lost"}
Settled   == {"none", "completed", "failed", "lost"}
Phases    == {"idle", "insert", "update", "sync", "finish"}

IsMetered(j) == JobType[j] # "requests"

\* Mutant: a "requests" key is charged its tokens.
BudgetIncrementUnits(j) == units[j]

\* budgetIncrement: every job the controller adds has status "success" or
\* "fallback_used", so the status test of process() always holds.
BudgetIncrement(j) == IF IsMetered(j) THEN units[j] ELSE 1

TypeOK ==
    /\ job \in [Job -> JobStates]
    /\ units \in [Job -> Amount \cup {0}]
    /\ lock \in [Job -> BOOLEAN]
    /\ attempts \in [Job -> Nat]
    /\ stalls \in [Job -> Nat]
    /\ running \in Job \cup {Nobody}
    /\ phase \in Phases
    /\ rows \in [Job -> Nat]
    /\ charges \in [Job -> Nat]
    /\ syncs \in [Job -> Nat]
    /\ runs \in [Job -> Nat]
    /\ faults \in Nat
    /\ rollBackedJobs \in Nat

Init ==
    /\ job = [j \in Job |-> "none"]
    /\ units = [j \in Job |-> 0]
    /\ lock = [j \in Job |-> FALSE]
    /\ attempts = [j \in Job |-> 0]
    /\ stalls = [j \in Job |-> 0]
    /\ running = Nobody
    /\ phase = "idle"
    /\ rows = [j \in Job |-> 0]
    /\ charges = [j \in Job |-> 0]
    /\ syncs = [j \in Job |-> 0]
    /\ runs = [j \in Job |-> 0]
    /\ faults = 0
    /\ rollBackedJobs = 0
-----------------------------------------------------------------------------
Put(f, j, v) == [f EXCEPT ![j] = v]
Inc(f, j)    == [f EXCEPT ![j] = @ + 1]

Fault    == faults < MaxFaults /\ faults' = faults + 1
NoFault  == UNCHANGED <<faults, rollBackedJobs>>

\* The controller's usageQueue.add('log', jobData), executed by Redis.  A call
\* that was answered from the cache used 0 units.
Add(j, u) ==
    /\ job[j] = "none"
    /\ job' = Put(job, j, "waiting")
    /\ units' = Put(units, j, u)
    /\ NoFault
    /\ UNCHANGED <<lock, attempts, stalls, workerVars, bookVars, runs>>

\* The worker takes a job and its lock, and calls process().
Take(j) ==
    /\ running = Nobody
    /\ job[j] = "waiting"
    /\ job' = Put(job, j, "active")
    /\ lock' = Put(lock, j, TRUE)
    /\ running' = j
    /\ phase' = "insert"
    /\ runs' = Inc(runs, j)
    /\ NoFault
    /\ UNCHANGED <<units, attempts, stalls, bookVars>>

At(p) == running # Nobody /\ phase = p

\* Mutant: a re-run takes the row it finds for the whole job.
InsertRowOnce ==
    /\ At("insert")
    /\ rows' = Put(rows, running, 1)
    /\ phase' = IF BudgetIncrement(running) > 0 /\ rows[running] = 0 THEN "update" ELSE "finish"
    /\ NoFault
    /\ UNCHANGED <<queueVars, running, charges, syncs, runs>>

\* Step 1: usageLogRepo.save(log).
InsertRow ==
    /\ At("insert")
    /\ rows' = Inc(rows, running)
    /\ phase' = IF BudgetIncrement(running) > 0 THEN "update" ELSE "finish"
    /\ NoFault
    /\ UNCHANGED <<queueVars, running, charges, syncs, runs>>

\* Mutant: the Redis counter is left alone.
UpdateBudgetUsedOnly ==
    /\ At("update")
    /\ charges' = Inc(charges, running)
    /\ phase' = "finish"
    /\ NoFault
    /\ UNCHANGED <<queueVars, running, rows, syncs, runs>>

\* Step 2: UPDATE virtual_keys SET budget_used = budget_used + increment.
UpdateBudgetUsed ==
    /\ At("update")
    /\ charges' = Inc(charges, running)
    /\ phase' = IF IsMetered(running) THEN "sync" ELSE "finish"
    /\ NoFault
    /\ UNCHANGED <<queueVars, running, rows, syncs, runs>>

\* Step 3: budgetService.incrementBy, for metered keys.
SyncRedis ==
    /\ At("sync")
    /\ syncs' = Inc(syncs, running)
    /\ phase' = "finish"
    /\ NoFault
    /\ UNCHANGED <<queueVars, running, rows, charges, runs>>

GoIdle == running' = Nobody /\ phase' = "idle"

\* process() returned: the job completes, unless the lock is gone.
Finish ==
    /\ At("finish")
    /\ IF lock[running]
       THEN job' = Put(job, running, "completed") /\ lock' = Put(lock, running, FALSE)
       ELSE UNCHANGED <<job, lock>>
    /\ GoIdle
    /\ NoFault
    /\ UNCHANGED <<units, attempts, stalls, bookVars, runs>>

\* process() threw: another attempt after the backoff, or the job fails.
MoveToFailed(j) ==
    IF lock[j]
    THEN /\ attempts' = Inc(attempts, j)
         /\ job' = Put(job, j, IF attempts[j] + 1 < Attempts[j] THEN "delayed" ELSE "failed")
         /\ lock' = Put(lock, j, FALSE)
    ELSE UNCHANGED <<job, lock, attempts>>

\* Mutant: process() catches the error of the insert and goes on.
DatabaseErrorSwallowed ==
    /\ Fault
    /\ At("insert")
    /\ phase' = "update"
    /\ UNCHANGED <<queueVars, running, bookVars, runs, rollBackedJobs>>

\* Postgres fails a statement, before or after it took effect.
DatabaseError ==
    /\ Fault
    /\ \/ At("insert") /\ rows' \in {rows, Inc(rows, running)} /\ UNCHANGED charges
       \/ At("update") /\ charges' \in {charges, Inc(charges, running)} /\ UNCHANGED rows
    /\ MoveToFailed(running)
    /\ GoIdle
    /\ UNCHANGED <<units, stalls, syncs, runs, rollBackedJobs>>

\* Redis answers INCRBYFLOAT with an error: the job fails with its row and its
\* charge in the books.
SyncFails ==
    /\ Fault
    /\ At("sync")
    /\ MoveToFailed(running)
    /\ GoIdle
    /\ UNCHANGED <<units, stalls, bookVars, runs, rollBackedJobs>>

\* INCRBYFLOAT took effect, its reply was lost, and ioredis sends it again.
SyncReplyLost ==
    /\ Fault
    /\ At("sync")
    /\ syncs' = Inc(syncs, running)
    /\ UNCHANGED <<queueVars, workerVars, rows, charges, runs, rollBackedJobs>>

\* The backoff of a failed attempt is over.
Promote(j) ==
    /\ job[j] = "delayed"
    /\ job' = Put(job, j, "waiting")
    /\ NoFault
    /\ UNCHANGED <<units, lock, attempts, stalls, workerVars, bookVars, runs>>

\* The process dies, and the worker of the next one starts idle.
WorkerCrash ==
    /\ Fault
    /\ running # Nobody
    /\ GoIdle
    /\ UNCHANGED <<queueVars, bookVars, runs, rollBackedJobs>>

\* Mutant: the lock of a running job is not renewed.
LockExpiresAlways(j) ==
    /\ job[j] = "active"
    /\ lock[j]
    /\ lock' = Put(lock, j, FALSE)
    /\ NoFault
    /\ UNCHANGED <<units, job, attempts, stalls, workerVars, bookVars, runs>>

\* The lock of an abandoned job runs out ...
LockExpires(j) ==
    /\ job[j] = "active"
    /\ lock[j]
    /\ running # j
    /\ lock' = Put(lock, j, FALSE)
    /\ NoFault
    /\ UNCHANGED <<units, job, attempts, stalls, workerVars, bookVars, runs>>

\* ... or that of a running one, which the worker could not renew in time.
LockLost(j) ==
    /\ Fault
    /\ running = j
    /\ lock[j]
    /\ lock' = Put(lock, j, FALSE)
    /\ UNCHANGED <<units, job, attempts, stalls, workerVars, bookVars, runs, rollBackedJobs>>

\* Mutants: the stalled check gives a job back without end, ...
StalledForever(j) ==
    /\ job[j] = "active"
    /\ ~lock[j]
    /\ stalls' = Inc(stalls, j)
    /\ job' = Put(job, j, "waiting")
    /\ NoFault
    /\ UNCHANGED <<units, lock, attempts, workerVars, bookVars, runs>>

\* ... or leaves alone a job it has given back.
StalledOnceOnly(j) ==
    /\ job[j] = "active"
    /\ ~lock[j]
    /\ stalls[j] < MaxStalledCount
    /\ stalls' = Inc(stalls, j)
    /\ job' = Put(job, j, "waiting")
    /\ NoFault
    /\ UNCHANGED <<units, lock, attempts, workerVars, bookVars, runs>>

\* The stalled check: an active job without a lock is given back, once.
Stalled(j) ==
    /\ job[j] = "active"
    /\ ~lock[j]
    /\ stalls' = Inc(stalls, j)
    /\ job' = Put(job, j, IF stalls[j] < MaxStalledCount THEN "waiting" ELSE "failed")
    /\ NoFault
    /\ UNCHANGED <<units, lock, attempts, workerVars, bookVars, runs>>

\* Redis restarts without its last writes: the job was never added, or waits
\* again with its counters at zero.
QueueRollBack(j) ==
    /\ rollBackedJobs < MaxRollBacks
    /\ job[j] \notin {"none", "lost"}
    /\ \/ job' = Put(job, j, "lost")
       \/ job[j] # "waiting" /\ job' = Put(job, j, "waiting")
    /\ lock' = Put(lock, j, FALSE)
    /\ attempts' = Put(attempts, j, 0)
    /\ stalls' = Put(stalls, j, 0)
    /\ rollBackedJobs' = rollBackedJobs + 1
    /\ UNCHANGED <<units, workerVars, bookVars, runs, faults>>
-----------------------------------------------------------------------------
WorkerStep ==
    \/ \E j \in Job : Take(j)
    \/ InsertRow
    \/ UpdateBudgetUsed
    \/ SyncRedis
    \/ Finish

QueueStep(j) ==
    \/ Promote(j)
    \/ LockExpires(j)
    \/ Stalled(j)

Faults ==
    \/ DatabaseError
    \/ SyncFails
    \/ SyncReplyLost
    \/ WorkerCrash
    \/ \E j \in Job : LockLost(j) \/ QueueRollBack(j)

Next ==
    \/ \E j \in Job, u \in Amount \cup {0} : Add(j, u)
    \/ \E j \in Job : QueueStep(j)
    \/ WorkerStep
    \/ Faults

Spec == Init /\ [][Next]_vars

\* The worker keeps working, and BullMQ's timers go off.
Fairness == WF_vars(WorkerStep) /\ \A j \in Job : WF_vars(QueueStep(j))

FairSpec == Spec /\ Fairness
-----------------------------------------------------------------------------
(***************************************************************************)
(* Properties.                                                             *)
(***************************************************************************)

\* The books agree in one direction, whatever fails between the three
\* commits: no charge without a row that explains it, no Redis unit without
\* a charge (but for replies lost, which fault the counter and nothing else).
LoggedBeforeCharged ==
    \A j \in Job : charges[j] <= rows[j] /\ syncs[j] <= charges[j] + faults

\* A completed job has been logged and charged, also one that completed on a
\* later run than the one that wrote its row.
CompletedIsRecorded ==
    \A j \in Job : job[j] = "completed" =>
        /\ rows[j] >= 1
        /\ BudgetIncrement(j) > 0 => charges[j] >= 1
        /\ BudgetIncrement(j) > 0 /\ IsMetered(j) => syncs[j] >= 1

\* A job is run again at most Attempts[j] - 1 times for its errors and once for
\* a stall, unless Redis forgets what was counted; the rows and charges of a
\* call are bounded by its runs.
RunsBounded ==
    \A j \in Job :
        /\ runs[j] <= (Attempts[j] + MaxStalledCount) * (1 + rollBackedJobs)
        /\ rows[j] <= runs[j] /\ charges[j] <= runs[j]

\* A call that is served and accounted for without a fault is logged and
\* charged exactly once.
ExactWithoutFaults ==
    (faults = 0 /\ rollBackedJobs = 0) =>
        \A j \in Job : job[j] = "completed" =>
            /\ rows[j] = 1
            /\ charges[j] = (IF BudgetIncrement(j) > 0 THEN 1 ELSE 0)
            /\ syncs[j] = (IF IsMetered(j) THEN charges[j] ELSE 0)

\* No job is left behind: once the faults are over, every job that was added
\* ends completed, failed, or lost with Redis.
AllSettle == <>[](\A j \in Job : job[j] \in Settled)

\* The two books of Postgres keep the promise of module Books, however often
\* a job fails between its commits, loses its lock and is run again.
Promise == INSTANCE Books WITH
    Increment <- Amount \cup {0, 1},
    due <- [j \in Job |-> BudgetIncrement(j)],
    closed <- {j \in Job : job[j] = "completed"}

ImplementsBooks == Promise!BooksSpec

\* usage.processor.ts: "On failure: BullMQ retries with exponential backoff
\* (3 attempts)".  A job fails for its errors only after three of them.
ThreeAttempts ==
    \A j \in Job : (job[j] = "failed" /\ stalls[j] = 0) => attempts[j] >= 3
=============================================================================
