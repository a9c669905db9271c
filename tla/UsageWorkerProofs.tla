------------------------- MODULE UsageWorkerProofs -------------------------
(***************************************************************************)
(* Theorems about UsageWorker, for every set of jobs, every number of      *)
(* attempts and all bounds on the faults.                                  *)
(*                                                                         *)
(* The argument.  process() commits a row, then a charge, then a Redis     *)
(* increment, and starts over at the row on every run.  So whatever a run  *)
(* leaves undone, a count further down the order is never ahead of one     *)
(* above it, and strictly behind while the run is between the two commits. *)
(***************************************************************************)
EXTENDS UsageWorker, TLAPS

\* What the run in progress has committed: strictly more rows than charges
\* before the charge, more charges than increments before the increment.
RunInOrder ==
    /\ running = Nobody => phase = "idle"
    /\ phase = "update" => charges[running] < rows[running]
    /\ phase = "sync" => syncs[running] < charges[running] + faults

\* The part of the run that lies behind the phase is in the books.
RunRecorded ==
    /\ phase = "update" => rows[running] >= 1 /\ BudgetIncrement(running) > 0
    /\ phase = "sync" => /\ rows[running] >= 1 /\ charges[running] >= 1
                         /\ BudgetIncrement(running) > 0 /\ IsMetered(running)
    /\ phase = "finish" =>
          /\ rows[running] >= 1
          /\ BudgetIncrement(running) > 0 => charges[running] >= 1
          /\ BudgetIncrement(running) > 0 /\ IsMetered(running) => syncs[running] >= 1

\* A call has rows only once its job was added.
AddedBeforeLogged == \A j \in Job : job[j] = "none" => rows[j] = 0

\* The inductive invariant: the books in order, the run in progress ahead of
\* them by what it has committed, on a job that is neither new nor completed.
BooksInv ==
    /\ TypeOK /\ RunInOrder /\ RunRecorded
    /\ LoggedBeforeCharged /\ CompletedIsRecorded
    /\ AddedBeforeLogged
    /\ running # Nobody => job[running] \notin {"none", "completed"}
-----------------------------------------------------------------------------
LEMMA TypeInit == Init => TypeOK
BY DEF Init, TypeOK, JobStates, Phases

\* Every step preserves the types.
LEMMA TypeStep == TypeOK /\ [Next]_vars => TypeOK'
<1> SUFFICES ASSUME TypeOK, [Next]_vars PROVE TypeOK'
  OBVIOUS
<1> USE DEF TypeOK, JobStates, Phases, Put, Inc, NoFault, Fault, queueVars, workerVars, bookVars
<1>1. ASSUME NEW j \in Job, NEW u \in Amount \cup {0}, Add(j, u) PROVE TypeOK'
  BY <1>1 DEF Add
<1>2. ASSUME NEW j \in Job, QueueStep(j) PROVE TypeOK'
  <2>1. CASE Promote(j)
    BY <2>1 DEF Promote
  <2>2. CASE LockExpires(j)
    BY <2>2 DEF LockExpires
  <2>3. CASE Stalled(j)
    BY <2>3 DEF Stalled
  <2> QED
    BY <1>2, <2>1, <2>2, <2>3 DEF QueueStep
<1>3. ASSUME NEW j \in Job, Take(j) PROVE TypeOK'
  BY <1>3 DEF Take
<1>4. CASE InsertRow \/ UpdateBudgetUsed \/ SyncRedis
  BY <1>4 DEF InsertRow, UpdateBudgetUsed, SyncRedis, At
<1>5. CASE Finish
  BY <1>5 DEF Finish, GoIdle, At
<1>6. CASE DatabaseError \/ SyncFails
  <2>1. rows' \in [Job -> Nat] /\ charges' \in [Job -> Nat]
    BY <1>6 DEF DatabaseError, SyncFails, At
  <2>2. running \in Job /\ MoveToFailed(running)
    BY <1>6 DEF DatabaseError, SyncFails, At
  <2>3. /\ job' \in [Job -> JobStates]
        /\ attempts' \in [Job -> Nat]
        /\ lock' \in [Job -> BOOLEAN]
    <3>1. CASE lock[running]
      <4>1. /\ attempts' = Inc(attempts, running)
            /\ job' = [job EXCEPT ![running] =
                         IF attempts[running] + 1 < Attempts[running] THEN "delayed" ELSE "failed"]
            /\ lock' = [lock EXCEPT ![running] = FALSE]
        BY <2>2, <3>1 DEF MoveToFailed
      <4> QED
        BY <2>2, <4>1
    <3>2. CASE ~lock[running]
      BY <2>2, <3>2 DEF MoveToFailed
    <3> QED
      BY <3>1, <3>2
  <2> QED
    BY <1>6, <2>1, <2>3 DEF DatabaseError, SyncFails, GoIdle
<1>7. CASE SyncReplyLost \/ WorkerCrash
  BY <1>7 DEF SyncReplyLost, WorkerCrash, GoIdle, At
<1>8. ASSUME NEW j \in Job, LockLost(j) \/ QueueRollBack(j) PROVE TypeOK'
  <2>1. CASE LockLost(j)
    BY <2>1 DEF LockLost
  <2>2. CASE QueueRollBack(j)
    BY <2>2 DEF QueueRollBack
  <2> QED
    BY <1>8, <2>1, <2>2
<1>9. CASE UNCHANGED vars
  BY <1>9 DEF vars
<1> QED
  BY <1>1, <1>2, <1>3, <1>4, <1>5, <1>6, <1>7, <1>8, <1>9 DEF Next, WorkerStep, Faults

\* Type correctness of the queue, the worker and the books.
THEOREM TypeCorrect == Spec => []TypeOK
<1>1. QED
  BY TypeInit, TypeStep, PTL DEF Spec
-----------------------------------------------------------------------------
LEMMA BooksInit == Init => BooksInv
<1> SUFFICES ASSUME Init PROVE BooksInv
  OBVIOUS
<1>1. TypeOK
  BY TypeInit
<1> QED
  BY <1>1 DEF Init, BooksInv, RunInOrder, RunRecorded, LoggedBeforeCharged, CompletedIsRecorded,
          AddedBeforeLogged

\* Every step keeps the books in order.
LEMMA BooksStep == BooksInv /\ [Next]_vars => BooksInv'
<1> SUFFICES ASSUME BooksInv, [Next]_vars PROVE BooksInv'
  OBVIOUS
<1>0. TypeOK'
  BY TypeStep DEF BooksInv
<1> USE <1>0, JobAssumption DEF BooksInv, TypeOK, RunInOrder, RunRecorded, LoggedBeforeCharged,
                                CompletedIsRecorded, AddedBeforeLogged, BudgetIncrement,
                                IsMetered, Put, Inc, NoFault, Fault, queueVars, workerVars,
                                bookVars
\* Steps of the queue: the books, the worker and the faults stand still, and
\* no job becomes completed.
<1>1. ASSUME NEW j \in Job, NEW u \in Amount \cup {0}, Add(j, u) PROVE BooksInv'
  BY <1>1 DEF Add
<1>2. ASSUME NEW j \in Job, QueueStep(j) PROVE BooksInv'
  BY <1>2 DEF QueueStep, Promote, LockExpires, Stalled
<1>3. ASSUME NEW j \in Job, LockLost(j) \/ QueueRollBack(j) PROVE BooksInv'
  BY <1>3 DEF LockLost, QueueRollBack
<1>4. ASSUME NEW j \in Job, Take(j) PROVE BooksInv'
  BY <1>4 DEF Take
\* Steps of process(): one commit each, on the running job.
<1>5. CASE InsertRow
  BY <1>5 DEF InsertRow, At
<1>6. CASE UpdateBudgetUsed
  BY <1>6 DEF UpdateBudgetUsed, At
<1>7. CASE SyncRedis
  BY <1>7 DEF SyncRedis, At
<1>8. CASE Finish
  BY <1>8 DEF Finish, GoIdle, At
\* Faults.
<1>9. CASE DatabaseError
  <2>1. \A j \in Job : job'[j] = "completed" => job[j] = "completed"
    BY <1>9 DEF DatabaseError, MoveToFailed, At
  <2>2. /\ UNCHANGED <<units, syncs>> /\ faults' = faults + 1
        /\ running' = Nobody /\ phase' = "idle"
    BY <1>9 DEF DatabaseError, GoIdle
  <2>3. \A j \in Job : rows'[j] >= rows[j] /\ charges'[j] >= charges[j] /\ charges'[j] <= rows'[j]
    <3>1. CASE At("insert") /\ rows' \in {rows, Inc(rows, running)} /\ UNCHANGED charges
      BY <3>1 DEF At
    <3>2. CASE At("update") /\ charges' \in {charges, Inc(charges, running)} /\ UNCHANGED rows
      BY <3>2 DEF At
    <3> QED
      BY <1>9, <3>1, <3>2 DEF DatabaseError
  <2>4. \A j \in Job : j # running => rows'[j] = rows[j]
    BY <1>9 DEF DatabaseError, At
  <2>5. \A j \in Job : job'[j] = "none" => job[j] = "none" /\ j # running
    BY <1>9 DEF DatabaseError, MoveToFailed, At
  <2>6. AddedBeforeLogged'
    BY <2>4, <2>5
  <2> QED
    BY <2>1, <2>2, <2>3, <2>6
<1>10. CASE SyncReplyLost \/ SyncFails
  <2>1. CASE SyncReplyLost
    BY <2>1 DEF SyncReplyLost, At
  <2>2. CASE SyncFails
    BY <2>2 DEF SyncFails, MoveToFailed, GoIdle, At
  <2> QED
    BY <1>10, <2>1, <2>2
<1>11. CASE WorkerCrash
  BY <1>11 DEF WorkerCrash, GoIdle
<1>12. CASE UNCHANGED vars
  BY <1>12 DEF vars
<1> QED
  BY <1>1, <1>2, <1>3, <1>4, <1>5, <1>6, <1>7, <1>8, <1>9, <1>10, <1>11, <1>12
  DEF Next, WorkerStep, Faults

LEMMA BooksAlways == Spec => []BooksInv
<1>1. QED
  BY BooksInit, BooksStep, PTL DEF Spec

\* No charge without a row, no Redis unit without a charge, after any fault.
THEOREM ChargesAreLogged == Spec => []LoggedBeforeCharged
<1>1. BooksInv => LoggedBeforeCharged
  BY DEF BooksInv
<1>2. QED
  BY <1>1, BooksAlways, PTL

\* Completed means logged and charged, on whichever run it completed.
THEOREM CompletedRecorded == Spec => []CompletedIsRecorded
<1>1. BooksInv => CompletedIsRecorded
  BY DEF BooksInv
<1>2. QED
  BY <1>1, BooksAlways, PTL
-----------------------------------------------------------------------------
LEMMA BooksInitMaps == Init => Promise!BooksInit
BY JobTypeAssumption DEF Init, Promise!BooksInit, BudgetIncrement, IsMetered

\* Every step of the queue and of the worker is one of the books, or leaves
\* them alone.
LEMMA BooksStepMaps == BooksInv /\ [Next]_vars => [Promise!BooksNext]_(Promise!booksVars)
<1> SUFFICES ASSUME BooksInv, [Next]_vars PROVE [Promise!BooksNext]_(Promise!booksVars)
  OBVIOUS
<1> DEFINE due == [j \in Job |-> BudgetIncrement(j)]
           closed == {j \in Job : job[j] = "completed"}
<1> USE DEF Put, Inc
<1>t. TypeOK /\ TypeOK'
  BY TypeStep DEF BooksInv
<1>1. ASSUME NEW j \in Job, NEW u \in Amount \cup {0}, Add(j, u) PROVE Promise!Serve(j)
  <2>1. rows[j] = 0 /\ closed' = closed
    BY <1>1, <1>t DEF Add, BooksInv, AddedBeforeLogged, TypeOK
  <2>2. due' = [due EXCEPT ![j] = IF IsMetered(j) THEN u ELSE 1]
    BY <1>1, <1>t DEF Add, BudgetIncrement, IsMetered, TypeOK
  <2>3. (IF IsMetered(j) THEN u ELSE 1) \in Amount \cup {0, 1}
    OBVIOUS
  <2> QED
    BY <1>1, <2>1, <2>2, <2>3 DEF Add, bookVars, Promise!Serve
<1>2. UNCHANGED units => due' = due
  BY DEF BudgetIncrement, IsMetered
<1>3. ASSUME NEW j \in Job, QueueStep(j) \/ Take(j) \/ LockLost(j)
      PROVE UNCHANGED Promise!booksVars
  <2>1. closed' = closed
    BY <1>3, <1>t DEF QueueStep, Promote, LockExpires, Stalled, Take, LockLost, TypeOK
  <2>2. UNCHANGED <<units, bookVars>>
    BY <1>3 DEF QueueStep, Promote, LockExpires, Stalled, Take, LockLost
  <2> QED
    BY <1>2, <2>1, <2>2 DEF bookVars, Promise!booksVars
<1>4. CASE InsertRow
  <2>1. running \in Job /\ UNCHANGED <<units, job, charges>> /\ rows' = Inc(rows, running)
    BY <1>4, <1>t DEF InsertRow, At, queueVars, TypeOK
  <2> QED
    BY <1>2, <2>1 DEF Promise!BooksNext, Promise!Log
<1>5. CASE UpdateBudgetUsed
  <2>1. /\ running \in Job /\ UNCHANGED <<units, job, rows>>
        /\ charges' = Inc(charges, running)
        /\ due[running] > 0 /\ charges[running] < rows[running]
    BY <1>5, <1>t DEF UpdateBudgetUsed, At, queueVars, TypeOK, BooksInv, RunInOrder, RunRecorded
  <2> QED
    BY <1>2, <2>1 DEF Promise!BooksNext, Promise!Charge
<1>6. CASE SyncRedis \/ SyncReplyLost \/ SyncFails \/ WorkerCrash
  <2>1. UNCHANGED <<units, rows, charges>>
    BY <1>6 DEF SyncRedis, SyncReplyLost, SyncFails, WorkerCrash, queueVars, bookVars
  <2>2. closed' = closed
    BY <1>6, <1>t DEF SyncRedis, SyncReplyLost, SyncFails, WorkerCrash, MoveToFailed, At, BooksInv,
                      TypeOK, queueVars
  <2> QED
    BY <1>2, <2>1, <2>2 DEF Promise!booksVars
<1>7. CASE Finish
  <2>1. running \in Job /\ UNCHANGED <<units, rows, charges>>
    BY <1>7, <1>t DEF Finish, At, bookVars, TypeOK
  <2>2. CASE ~lock[running]
    BY <1>2, <1>7, <2>1, <2>2 DEF Finish, Promise!booksVars
  <2>3. CASE lock[running]
    <3>1. closed' = closed \cup {running}
      BY <1>7, <1>t, <2>1, <2>3 DEF Finish, TypeOK
    <3>2. rows[running] >= 1 /\ (due[running] > 0 => charges[running] >= 1)
      BY <1>7, <2>1 DEF Finish, At, BooksInv, RunRecorded
    <3> QED
      BY <1>2, <2>1, <3>1, <3>2 DEF Promise!BooksNext, Promise!Close
  <2> QED
    BY <2>2, <2>3
<1>8. CASE DatabaseError
  <2>1. running \in Job /\ UNCHANGED units
    BY <1>8, <1>t DEF DatabaseError, At, TypeOK
  <2>2. closed' = closed
    BY <1>8, <1>t, <2>1 DEF DatabaseError, At, MoveToFailed, BooksInv, TypeOK
  <2>3. [Promise!BooksNext]_(Promise!booksVars)
    <3>1. CASE At("insert") /\ rows' \in {rows, Inc(rows, running)} /\ UNCHANGED charges
      BY <1>2, <2>1, <2>2, <3>1 DEF Promise!BooksNext, Promise!Log, Promise!booksVars
    <3>2. CASE At("update") /\ charges' \in {charges, Inc(charges, running)} /\ UNCHANGED rows
      <4>1. due[running] > 0 /\ charges[running] < rows[running]
        BY <2>1, <3>2 DEF At, BooksInv, RunInOrder, RunRecorded
      <4> QED
        BY <1>2, <2>1, <2>2, <3>2, <4>1 DEF Promise!BooksNext, Promise!Charge, Promise!booksVars
    <3> QED
      BY <1>8, <3>1, <3>2 DEF DatabaseError
  <2> QED
    BY <2>3
<1>9. ASSUME NEW j \in Job, QueueRollBack(j) PROVE Promise!BooksNext
  <2>1. closed' = closed \ {j}
    BY <1>9, <1>t DEF QueueRollBack, TypeOK
  <2>2. UNCHANGED <<units, bookVars>>
    BY <1>9 DEF QueueRollBack
  <2> QED
    BY <1>2, <2>1, <2>2 DEF bookVars, Promise!BooksNext, Promise!Reopen
<1>10. CASE UNCHANGED vars
  BY <1>2, <1>10 DEF vars, queueVars, bookVars, Promise!booksVars
<1> QED
  BY <1>1, <1>3, <1>4, <1>5, <1>6, <1>7, <1>8, <1>9, <1>10
  DEF Next, WorkerStep, Faults, Promise!BooksNext

\* The queue and its worker keep the promise of module Books, for every set of
\* jobs, every number of attempts and any number of faults.
THEOREM Refinement == Spec => ImplementsBooks
<1>1. QED
  BY BooksInitMaps, BooksStepMaps, BooksAlways, PTL DEF Spec, ImplementsBooks, Promise!BooksSpec
-----------------------------------------------------------------------------
(***************************************************************************)
(* How often a job is run, and that a call without faults is recorded      *)
(* exactly once.  Both rest on what the queue knows of a job: only an      *)
(* active job is locked, and its counters tell how often it was run since  *)
(* Redis last forgot it.                                                   *)
(***************************************************************************)
\* What the worker has in its hands is what the queue says, as far as a lock
\* says so; a job's lock is gone when the job is not active.
LockedIsActive == \A j \in Job : lock[j] => job[j] = "active"

\* Runs since Redis last forgot the job that its two counters do not count: the
\* one it is in, or completed with.
Uncounted(j) == IF job[j] \in {"active", "completed"} THEN 1 ELSE 0

\* Runs of the job that its counters account for.
Counted(j) == attempts[j] + stalls[j] + Uncounted(j)

\* A job that may run again has an attempt left, and was given back at most
\* once; in any state its counters account for Attempts[j] + 1 runs at most.
CountersInBounds ==
    \A j \in Job :
        /\ job[j] \in {"none", "waiting", "active", "delayed"} =>
               attempts[j] < Attempts[j] /\ stalls[j] <= MaxStalledCount
        /\ Counted(j) <= Attempts[j] + MaxStalledCount

\* The most runs that Redis can have forgotten.
Forgotten(j) == (Attempts[j] + MaxStalledCount) * rollBackedJobs

\* Every run is counted or forgotten.
RunsCounted == \A j \in Job : runs[j] <= Counted(j) + Forgotten(j)

\* A run writes one row at most, and has not when it begins.
RowsOfRuns ==
    /\ \A j \in Job : rows[j] <= runs[j]
    /\ phase = "insert" /\ running # Nobody => rows[running] < runs[running]

QueueInv == TypeOK /\ LockedIsActive /\ CountersInBounds
-----------------------------------------------------------------------------
LEMMA QueueInit == Init => QueueInv
<1> SUFFICES ASSUME Init PROVE QueueInv
  OBVIOUS
<1>1. TypeOK
  BY TypeInit
<1> QED
  BY <1>1, AttemptsAssumption
  DEF Init, QueueInv, LockedIsActive, CountersInBounds, Counted, Uncounted, MaxStalledCount

\* Every step keeps locks on active jobs and counters in their bounds.
LEMMA QueueInvStep == QueueInv /\ [Next]_vars => QueueInv'
<1> SUFFICES ASSUME QueueInv, [Next]_vars PROVE QueueInv'
  OBVIOUS
<1>0. TypeOK /\ TypeOK'
  BY TypeStep DEF QueueInv
<1> USE <1>0, AttemptsAssumption DEF QueueInv, TypeOK, LockedIsActive, CountersInBounds, Counted,
        Uncounted, MaxStalledCount, Put, Inc, queueVars
<1>1. ASSUME NEW j \in Job, NEW u \in Amount \cup {0}, Add(j, u) PROVE QueueInv'
  BY <1>1 DEF Add
<1>2. ASSUME NEW j \in Job, Take(j) \/ Promote(j) PROVE QueueInv'
  BY <1>2 DEF Take, Promote
<1>3. ASSUME NEW j \in Job, LockExpires(j) \/ LockLost(j) PROVE QueueInv'
  BY <1>3 DEF LockExpires, LockLost
<1>4. ASSUME NEW j \in Job, Stalled(j) PROVE QueueInv'
  BY <1>4 DEF Stalled
<1>5. ASSUME NEW j \in Job, QueueRollBack(j) PROVE QueueInv'
  BY <1>5 DEF QueueRollBack
<1>6. CASE Finish
  BY <1>6 DEF Finish, At
<1>7. CASE DatabaseError \/ SyncFails
  <2>1. running \in Job /\ MoveToFailed(running) /\ UNCHANGED stalls
    BY <1>7 DEF DatabaseError, SyncFails, At
  <2> QED
    BY <2>1 DEF MoveToFailed
<1>8. CASE UNCHANGED queueVars
  BY <1>8
<1> QED
  BY <1>1, <1>2, <1>3, <1>4, <1>5, <1>6, <1>7, <1>8
  DEF Next, QueueStep, WorkerStep, Faults, InsertRow, UpdateBudgetUsed, SyncRedis, SyncReplyLost,
      WorkerCrash, vars

LEMMA QueueAlways == Spec => []QueueInv
<1>1. QED
  BY QueueInit, QueueInvStep, PTL DEF Spec
-----------------------------------------------------------------------------
\* The runs of every job are counted or forgotten, and its rows are theirs.
RunsInv == QueueInv /\ BooksInv /\ RunsCounted /\ RowsOfRuns

\* Redis forgets at most the runs that the counters could hold.
LEMMA Forgetting ==
    ASSUME TypeOK, NEW j \in Job
    PROVE  /\ Forgotten(j) \in Nat
           /\ rollBackedJobs' = rollBackedJobs => Forgotten(j)' = Forgotten(j)
           /\ rollBackedJobs' = rollBackedJobs + 1 =>
                  Forgotten(j)' = Forgotten(j) + Attempts[j] + MaxStalledCount
<1>1. Attempts[j] + MaxStalledCount \in Nat /\ rollBackedJobs \in Nat
  BY AttemptsAssumption DEF TypeOK, MaxStalledCount
<1>2. \A a, n \in Nat : a * n \in Nat /\ a * (n + 1) = a * n + a
  OBVIOUS
<1> QED
  BY <1>1, <1>2, AttemptsAssumption DEF Forgotten, MaxStalledCount

LEMMA RunsInit == Init => RunsInv
<1> SUFFICES ASSUME Init PROVE RunsInv
  OBVIOUS
<1>1. QueueInv /\ BooksInv
  BY QueueInit, BooksInit
<1>2. \A j \in Job : Forgotten(j) \in Nat
  BY <1>1, Forgetting DEF QueueInv
<1> QED
  BY <1>1, <1>2
  DEF Init, RunsInv, RunsCounted, RowsOfRuns, Counted, Uncounted

\* Every step keeps the runs counted: only Take starts one, and only what
\* takes the job out of its active state counts it.
LEMMA RunsCountedStep == RunsInv /\ [Next]_vars => RunsCounted'
<1> SUFFICES ASSUME RunsInv, [Next]_vars, NEW k \in Job
             PROVE  runs'[k] <= Counted(k)' + Forgotten(k)'
  BY DEF RunsCounted
<1>1. TypeOK /\ TypeOK' /\ QueueInv
  BY TypeStep DEF RunsInv, QueueInv
<1>2. /\ Forgotten(k) \in Nat
      /\ rollBackedJobs' = rollBackedJobs => Forgotten(k)' = Forgotten(k)
      /\ rollBackedJobs' = rollBackedJobs + 1 =>
             Forgotten(k)' = Forgotten(k) + Attempts[k] + MaxStalledCount
  BY <1>1, Forgetting
<1>3. runs[k] <= Counted(k) + Forgotten(k) /\ Counted(k) <= Attempts[k] + MaxStalledCount
  BY DEF RunsInv, RunsCounted, QueueInv, CountersInBounds
<1>4. runs[k] \in Nat /\ attempts[k] \in Nat /\ stalls[k] \in Nat /\ Attempts[k] \in Nat \ {0}
  BY <1>1, AttemptsAssumption DEF TypeOK
<1> USE <1>1, <1>2, <1>3, <1>4
    DEF TypeOK, Counted, Uncounted, MaxStalledCount, Put, Inc, NoFault, queueVars
<1>5. ASSUME NEW j \in Job, NEW u \in Amount \cup {0}, Add(j, u) PROVE runs'[k] <= Counted(k)' + Forgotten(k)'
  BY <1>5 DEF Add
<1>6. ASSUME NEW j \in Job, Take(j) \/ Promote(j) PROVE runs'[k] <= Counted(k)' + Forgotten(k)'
  BY <1>6 DEF Take, Promote
<1>7. ASSUME NEW j \in Job, LockExpires(j) \/ LockLost(j) PROVE runs'[k] <= Counted(k)' + Forgotten(k)'
  BY <1>7 DEF LockExpires, LockLost
<1>8. ASSUME NEW j \in Job, Stalled(j) PROVE runs'[k] <= Counted(k)' + Forgotten(k)'
  BY <1>8 DEF Stalled
<1>9. ASSUME NEW j \in Job, QueueRollBack(j) PROVE runs'[k] <= Counted(k)' + Forgotten(k)'
  BY <1>9 DEF QueueRollBack
<1>10. CASE Finish
  BY <1>10 DEF Finish, At, QueueInv, LockedIsActive
<1>11. CASE DatabaseError \/ SyncFails
  <2>1. running \in Job /\ MoveToFailed(running) /\ UNCHANGED <<stalls, runs, rollBackedJobs>>
    BY <1>11 DEF DatabaseError, SyncFails, At
  <2>2. CASE lock[running] /\ running = k
    <3>1. job[k] = "active" /\ attempts'[k] = attempts[k] + 1 /\ job'[k] \in {"delayed", "failed"}
      BY <2>1, <2>2 DEF MoveToFailed, QueueInv, LockedIsActive
    <3> QED
      BY <2>1, <3>1
  <2>3. CASE ~(lock[running] /\ running = k)
    <3>1. attempts'[k] = attempts[k] /\ job'[k] = job[k]
      BY <2>1, <2>3 DEF MoveToFailed
    <3> QED
      BY <2>1, <3>1
  <2> QED
    BY <2>2, <2>3
<1>12. CASE UNCHANGED <<queueVars, runs, rollBackedJobs>>
  BY <1>12
<1> QED
  BY <1>5, <1>6, <1>7, <1>8, <1>9, <1>10, <1>11, <1>12
  DEF Next, QueueStep, WorkerStep, Faults, InsertRow, UpdateBudgetUsed, SyncRedis, SyncReplyLost,
      WorkerCrash, vars

\* Every step keeps the rows of a call below its runs: a row is written where
\* its run begins.
LEMMA RowsOfRunsStep == RunsInv /\ [Next]_vars => RowsOfRuns'
<1> SUFFICES ASSUME RunsInv, [Next]_vars PROVE RowsOfRuns'
  OBVIOUS
<1>0. TypeOK /\ TypeOK'
  BY TypeStep DEF RunsInv, QueueInv
<1> USE <1>0, JobAssumption DEF RunsInv, RowsOfRuns, TypeOK, Put, Inc, GoIdle, workerVars, bookVars
<1>1. ASSUME NEW j \in Job, Take(j) PROVE RowsOfRuns'
  BY <1>1 DEF Take
<1>2. CASE InsertRow
  BY <1>2 DEF InsertRow, At
<1>3. CASE DatabaseError
  <2>1. CASE At("insert") /\ rows' \in {rows, Inc(rows, running)}
    BY <1>3, <2>1 DEF DatabaseError, At
  <2>2. CASE UNCHANGED rows
    BY <1>3, <2>2 DEF DatabaseError
  <2> QED
    BY <1>3, <2>1, <2>2 DEF DatabaseError
<1>4. CASE UNCHANGED <<rows, runs>> /\ (phase' = "insert" => UNCHANGED workerVars)
  BY <1>4
<1> QED
  BY <1>1, <1>2, <1>3, <1>4 DEF Next, Add, QueueStep, Promote, LockExpires, Stalled, WorkerStep,
                                UpdateBudgetUsed, SyncRedis, Finish, Faults, SyncFails,
                                SyncReplyLost, WorkerCrash, LockLost, QueueRollBack, At, vars

LEMMA RunsAlways == Spec => []RunsInv
<1>1. RunsInv /\ [Next]_vars => RunsInv'
  BY QueueInvStep, BooksStep, RunsCountedStep, RowsOfRunsStep DEF RunsInv
<1>2. QED
  BY <1>1, RunsInit, PTL DEF Spec

\* Re-runs are bounded, also by what Redis forgot, and so is what they leave in
\* the books of Postgres.
THEOREM BoundedRuns == Spec => []RunsBounded
<1>1. RunsInv => RunsBounded
  <2> SUFFICES ASSUME RunsInv, NEW j \in Job
               PROVE  /\ runs[j] <= (Attempts[j] + MaxStalledCount) * (1 + rollBackedJobs)
                      /\ rows[j] <= runs[j] /\ charges[j] <= runs[j]
    BY DEF RunsBounded
  <2>1. TypeOK
    BY DEF RunsInv, QueueInv
  <2>2. runs[j] <= Attempts[j] + MaxStalledCount + Forgotten(j)
    <3>1. runs[j] <= Counted(j) + Forgotten(j) /\ Counted(j) <= Attempts[j] + MaxStalledCount
      BY DEF RunsInv, RunsCounted, QueueInv, CountersInBounds
    <3>2. runs[j] \in Nat /\ Forgotten(j) \in Nat /\ Counted(j) \in Nat /\ Attempts[j] \in Nat
      BY <2>1, Forgetting, AttemptsAssumption DEF TypeOK, Counted, Uncounted
    <3> QED
      BY <3>1, <3>2 DEF MaxStalledCount
  <2>3. (Attempts[j] + MaxStalledCount) * (1 + rollBackedJobs)
          = Attempts[j] + MaxStalledCount + Forgotten(j)
    <3>1. Attempts[j] + MaxStalledCount \in Nat /\ rollBackedJobs \in Nat
      BY <2>1, AttemptsAssumption DEF TypeOK, MaxStalledCount
    <3>2. \A a, n \in Nat : a * (1 + n) = a + a * n
      OBVIOUS
    <3> QED
      BY <3>1, <3>2 DEF Forgotten
  <2>4. rows[j] <= runs[j] /\ charges[j] <= rows[j]
    BY DEF RunsInv, RowsOfRuns, BooksInv, LoggedBeforeCharged
  <2> QED
    BY <2>1, <2>2, <2>3, <2>4 DEF TypeOK
<1>2. QED
  BY <1>1, RunsAlways, PTL
-----------------------------------------------------------------------------
\* What the three books hold of job j.
Recorded(j, r, c, s) == rows[j] = r /\ charges[j] = c /\ syncs[j] = s

\* A call is recorded once.
RecordedOnce(j) ==
    /\ rows[j] = 1
    /\ charges[j] = (IF BudgetIncrement(j) > 0 THEN 1 ELSE 0)
    /\ syncs[j] = (IF IsMetered(j) THEN charges[j] ELSE 0)

\* The job the worker runs is the one that is active and locked.
OneRunning ==
    /\ running # Nobody => job[running] = "active" /\ lock[running]
    /\ \A j \in Job : job[j] = "active" => running = j

\* The phase of the run tells what is written of its call.
WrittenSoFar ==
    /\ phase = "insert" => Recorded(running, 0, 0, 0)
    /\ phase = "update" => Recorded(running, 1, 0, 0) /\ BudgetIncrement(running) > 0
    /\ phase = "sync" => /\ Recorded(running, 1, 1, 0)
                         /\ BudgetIncrement(running) > 0 /\ IsMetered(running)
    /\ phase = "finish" => RecordedOnce(running)

\* Without faults a job is run once, and recorded as far as its run has come.
FaultFree ==
    /\ OneRunning
    /\ running = Nobody => phase = "idle"
    /\ running # Nobody => WrittenSoFar
    /\ \A j \in Job : job[j] \in {"none", "waiting"} => Recorded(j, 0, 0, 0)
    /\ \A j \in Job : job[j] = "completed" => RecordedOnce(j)
    /\ \A j \in Job : job[j] \in {"none", "waiting", "active", "completed"}

NoFaultYet == faults = 0 /\ rollBackedJobs = 0

ExactInv == TypeOK /\ (NoFaultYet => FaultFree)

LEMMA ExactInit == Init => ExactInv
<1> SUFFICES ASSUME Init PROVE ExactInv
  OBVIOUS
<1>1. TypeOK
  BY TypeInit
<1> QED
  BY <1>1 DEF Init, ExactInv, FaultFree, OneRunning, Recorded

\* A step that is no fault keeps every run at one record of its call.
LEMMA ExactStep == ExactInv /\ [Next]_vars => ExactInv'
<1> SUFFICES ASSUME ExactInv, [Next]_vars, NoFaultYet' PROVE FaultFree'
  BY TypeStep DEF ExactInv
<1>1. TypeOK /\ TypeOK'
  BY TypeStep DEF ExactInv
<1>2. ~Faults
  <2> SUFFICES ASSUME Faults PROVE FALSE
    OBVIOUS
  <2>1. faults \in Nat /\ rollBackedJobs \in Nat
    BY <1>1 DEF TypeOK
  <2>2. faults' = faults + 1 \/ rollBackedJobs' = rollBackedJobs + 1
    BY DEF Faults, Fault, DatabaseError, SyncFails, SyncReplyLost, WorkerCrash, LockLost,
           QueueRollBack
  <2> QED
    BY <2>1, <2>2 DEF NoFaultYet
<1>3. FaultFree
  BY <1>2 DEF ExactInv, NoFaultYet, Next, QueueStep, WorkerStep, Add, Promote, LockExpires, Stalled,
              Take, InsertRow, UpdateBudgetUsed, SyncRedis, Finish, NoFault, vars
<1> USE <1>1, <1>3, JobAssumption DEF TypeOK, FaultFree, OneRunning, WrittenSoFar, Recorded,
        RecordedOnce, BudgetIncrement, IsMetered, Put, Inc, queueVars, workerVars, bookVars
<1>4. ASSUME NEW j \in Job, NEW u \in Amount \cup {0}, Add(j, u) PROVE FaultFree'
  BY <1>4 DEF Add
<1>5. ASSUME NEW j \in Job, Take(j) PROVE FaultFree'
  BY <1>5 DEF Take
\* Nothing waits for a backoff, and no lock of an active job runs out.
<1>6. ASSUME NEW j \in Job, QueueStep(j) PROVE FALSE
  BY <1>6 DEF QueueStep, Promote, LockExpires, Stalled
<1>7. CASE InsertRow
  BY <1>7 DEF InsertRow, At
<1>8. CASE UpdateBudgetUsed
  BY <1>8 DEF UpdateBudgetUsed, At
<1>9. CASE SyncRedis
  BY <1>9 DEF SyncRedis, At
<1>10. CASE Finish
  BY <1>10 DEF Finish, At, GoIdle
<1>11. CASE UNCHANGED vars
  BY <1>11 DEF vars
<1> QED
  BY <1>2, <1>4, <1>5, <1>6, <1>7, <1>8, <1>9, <1>10, <1>11 DEF Next, WorkerStep

\* A call whose accounting meets no fault is logged once and charged once.
THEOREM Exactness == Spec => []ExactWithoutFaults
<1>1. ExactInv => ExactWithoutFaults
  BY DEF ExactInv, NoFaultYet, FaultFree, RecordedOnce, ExactWithoutFaults
<1>2. QED
  BY <1>1, ExactInit, ExactStep, PTL DEF Spec
=============================================================================
