------------------------------- MODULE Budget -------------------------------
(***************************************************************************)
(* The budget check every call passes before the handler runs:             *)
(* budget.interceptor.ts and budget.service.ts, over one Redis counter per *)
(* virtual key.                                                            *)
(*                                                                         *)
(* A check is not one step.  A "requests" key takes EXISTS, perhaps SET 0, *)
(* then EVAL of the Lua script, each a round trip at which other requests  *)
(* run; a "tokens" or "cost_inr" (metered) key takes a single GET, and the *)
(* usage worker adds to its counter later with INCRBYFLOAT.  Redis may     *)
(* come back from a restart with an older count or none, it may answer a   *)
(* command with an error, the connection may drop between the execution of *)
(* a command and its reply, and the gateway process may die with checks in *)
(* flight.                                                                 *)
(*                                                                         *)
(* All checks of the process share the one client of budget.module.ts, so  *)
(* their commands are executed and answered in the order they were sent.   *)
(* After a drop ioredis sends what is unanswered again, in the same order  *)
(* (maxRetriesPerRequest is null).                                         *)
(***************************************************************************)
EXTENDS Integers, FiniteSets, Sequences

CONSTANTS
    Request,        \* calls of POST /v1/chat/completions that passed AuthGuard
    Key,            \* virtual keys
    KeyOf,          \* the key AuthGuard attached to each request
    BudgetType,     \* virtual_keys.budget_type
    Limit,          \* virtual_keys.budget_limit, in whole units
    Amount,         \* what the worker may charge one metered call
    MaxRollBacks,   \* bound: how often Redis comes back with an older count
    MaxLostReplies, \* bound: commands executed whose reply is lost
    MaxCharged      \* bound: what the worker charges one key in all

Types == {"requests", "tokens", "cost_inr"}

\* A missing counter, told apart from every count.
Absent == -1

ASSUME RequestAssumption == IsFiniteSet(Request)
ASSUME KeyOfAssumption   == KeyOf \in [Request -> Key]
ASSUME TypeAssumption    == BudgetType \in [Key -> Types]
ASSUME LimitAssumption   == Limit \in [Key -> Nat \ {0}]
ASSUME AmountAssumption  == Amount \subseteq Nat
ASSUME BoundAssumption   == MaxRollBacks \in Nat /\ MaxLostReplies \in Nat /\ MaxCharged \in Nat

VARIABLES
    counter,      \* Redis "budget:<key_id>": a count, or Absent
    step,         \* where each request's check stands
    queue,        \* the connection: requests with a command sent and not answered
    unanswered,   \* how many commands of the queue were executed by a connection that is gone
    rollBacks,    \* counts Redis gave up so far
    lostReplies,  \* replies lost so far
    lost,         \* history: units of the key's count that were thrown away
    wiped,        \* history: those of them that a SET of the check threw away
    wasted,       \* history: units counted by executions whose reply was lost
    charged       \* history: units the worker charged the key

vars == <<counter, step, queue, unanswered, rollBacks, lostReplies, lost, wiped, wasted, charged>>

Checking == {"exists", "seed", "eval", "get"}
Decided  == {"passed", "refused"}
Steps    == {"idle", "failed", "aborted"} \cup Checking \cup Decided

IsRequests(k) == BudgetType[k] = "requests"

\* tonumber(GET or "0") in the script, parseFloat(current ?? '0') in checkOnly.
Current(k) == IF counter[k] = Absent THEN 0 ELSE counter[k]

Admitted(k) == {r \in Request : KeyOf[r] = k /\ step[r] = "passed"}

QueueOK == queue \in Seq(Request) /\ unanswered \in Nat

TypeOK ==
    /\ counter \in [Key -> Nat \cup {Absent}]
    /\ step \in [Request -> Steps]
    /\ QueueOK
    /\ rollBacks \in Nat
    /\ lostReplies \in Nat
    /\ lost \in [Key -> Nat]
    /\ wiped \in [Key -> Nat]
    /\ wasted \in [Key -> Nat]
    /\ charged \in [Key -> Nat]

InitWith(c) ==
    /\ counter = [k \in Key |-> c]
    /\ step = [r \in Request |-> "idle"]
    /\ queue = <<>>
    /\ unanswered = 0
    /\ rollBacks = 0
    /\ lostReplies = 0
    /\ lost = [k \in Key |-> 0]
    /\ wiped = [k \in Key |-> 0]
    /\ wasted = [k \in Key |-> 0]
    /\ charged = [k \in Key |-> 0]

\* admin.controller.ts sets the counter to 0 before it discloses the key.
Init == InitWith(0)

\* Redis came back empty: "Seed counter from 0 if it doesn't exist yet".
InitAfterRestart == InitWith(Absent)
-----------------------------------------------------------------------------
Goto(r, s) == step' = [step EXCEPT ![r] = s]

\* Redis executes the command of r and its reply arrives.
Answered(r) ==
    /\ unanswered = 0
    /\ queue # <<>>
    /\ Head(queue) = r

\* The reply to r's command makes it send the one of s, or ends its check.
SendNext(r, s) == Answered(r) /\ Goto(r, s) /\ queue' = Append(Tail(queue), r)
EndWith(r, s)  == Answered(r) /\ Goto(r, s) /\ queue' = Tail(queue)

SetCounter(k, c) == counter' = [counter EXCEPT ![k] = c]

\* The count of k is replaced by c, whatever it was.
ThrowAway(k, c) ==
    /\ SetCounter(k, c)
    /\ lost' = [lost EXCEPT ![k] = @ + Current(k) - (IF c = Absent THEN 0 ELSE c)]

\* SET 0, whatever the counter now holds.
SetZero(k) ==
    /\ ThrowAway(k, 0)
    /\ wiped' = [wiped EXCEPT ![k] = @ + Current(k)]

\* Mutants: the test is off by one, either way.
LuaAcceptsOneMore(k) == Current(k) <= Limit[k]
LuaAcceptsOneLess(k) == Current(k) + 1 < Limit[k]

\* The script's test, run by Redis without interleaving.
LuaAccepts(k) == Current(k) + 1 <= Limit[k]

\* BudgetInterceptor.intercept: the budget type decides which check runs.
Intercept(r) ==
    /\ step[r] = "idle"
    /\ Goto(r, IF IsRequests(KeyOf[r]) THEN "exists" ELSE "get")
    /\ queue' = Append(queue, r)
    /\ UNCHANGED <<counter, unanswered, rollBacks, lostReplies, lost, wiped, wasted, charged>>

\* checkAndIncrement, first round trip.
Exists(r) ==
    /\ step[r] = "exists"
    /\ SendNext(r, IF counter[KeyOf[r]] = Absent THEN "seed" ELSE "eval")
    /\ UNCHANGED <<counter, unanswered, rollBacks, lostReplies, lost, wiped, wasted, charged>>

\* checkAndIncrement, second round trip.
Seed(r) ==
    /\ step[r] = "seed"
    /\ SetZero(KeyOf[r])
    /\ SendNext(r, "eval")
    /\ UNCHANGED <<unanswered, rollBacks, lostReplies, wasted, charged>>

\* Mutant: a script without its INCR.
EvalAcceptUncounted(r) ==
    /\ step[r] = "eval"
    /\ LuaAccepts(KeyOf[r])
    /\ EndWith(r, "passed")
    /\ UNCHANGED <<counter, unanswered, rollBacks, lostReplies, lost, wiped, wasted, charged>>

\* checkAndIncrement, last round trip: the script accepts and counts, ...
EvalAccept(r) ==
    /\ step[r] = "eval"
    /\ LuaAccepts(KeyOf[r])
    /\ SetCounter(KeyOf[r], Current(KeyOf[r]) + 1)
    /\ EndWith(r, "passed")
    /\ UNCHANGED <<unanswered, rollBacks, lostReplies, lost, wiped, wasted, charged>>

\* Mutant: a script that increments before it compares.
EvalRejectCounted(r) ==
    /\ step[r] = "eval"
    /\ ~LuaAccepts(KeyOf[r])
    /\ SetCounter(KeyOf[r], Current(KeyOf[r]) + 1)
    /\ EndWith(r, "refused")
    /\ UNCHANGED <<unanswered, rollBacks, lostReplies, lost, wiped, wasted, charged>>

\* ... or returns -1 and the interceptor throws 429.
EvalReject(r) ==
    /\ step[r] = "eval"
    /\ ~LuaAccepts(KeyOf[r])
    /\ EndWith(r, "refused")
    /\ UNCHANGED <<counter, unanswered, rollBacks, lostReplies, lost, wiped, wasted, charged>>

\* Mutant: <= where the code has <.
CheckOnlyInclusive(r) ==
    /\ step[r] = "get"
    /\ EndWith(r, IF Current(KeyOf[r]) <= Limit[KeyOf[r]] THEN "passed" ELSE "refused")
    /\ UNCHANGED <<counter, unanswered, rollBacks, lostReplies, lost, wiped, wasted, charged>>

\* checkOnly: a read, with nothing reserved for the call it lets through.
CheckOnly(r) ==
    /\ step[r] = "get"
    /\ EndWith(r, IF Current(KeyOf[r]) < Limit[KeyOf[r]] THEN "passed" ELSE "refused")
    /\ UNCHANGED <<counter, unanswered, rollBacks, lostReplies, lost, wiped, wasted, charged>>

\* Redis answers with an error (OOM, MISCONF, READONLY) and changes nothing:
\* the await rejects and the interceptor throws.
CheckFails(r) ==
    /\ step[r] \in Checking
    /\ EndWith(r, "failed")
    /\ UNCHANGED <<counter, unanswered, rollBacks, lostReplies, lost, wiped, wasted, charged>>

\* incrementBy, called by the usage worker for metered keys only; an amount
\* of 0 returns at once and changes nothing.  The keys of these commands are
\* only read by checks, which may send their GET before or after, so that
\* they need no place in the queue.
IncrementBy(k, a) ==
    /\ ~IsRequests(k)
    /\ a > 0
    /\ SetCounter(k, Current(k) + a)
    /\ charged' = [charged EXCEPT ![k] = @ + a]
    /\ UNCHANGED <<step, queue, unanswered, rollBacks, lostReplies, lost, wiped, wasted>>
-----------------------------------------------------------------------------
\* Redis executes a command whose reply is lost with the connection: the
\* caller still waits at its step.
LoseReply ==
    /\ lostReplies < MaxLostReplies
    /\ lostReplies' = lostReplies + 1

Unheard(r) ==
    /\ LoseReply
    /\ unanswered < Len(queue)
    /\ queue[unanswered + 1] = r
    /\ unanswered' = unanswered + 1

EvalReplyLost(r) ==
    /\ Unheard(r)
    /\ step[r] = "eval"
    /\ LuaAccepts(KeyOf[r])
    /\ SetCounter(KeyOf[r], Current(KeyOf[r]) + 1)
    /\ wasted' = [wasted EXCEPT ![KeyOf[r]] = @ + 1]
    /\ UNCHANGED <<step, queue, rollBacks, lost, wiped, charged>>

SeedReplyLost(r) ==
    /\ Unheard(r)
    /\ step[r] = "seed"
    /\ SetZero(KeyOf[r])
    /\ UNCHANGED <<step, queue, rollBacks, wasted, charged>>

\* EXISTS, GET and a script that returns -1 change nothing.
ReadReplyLost(r) ==
    /\ Unheard(r)
    /\ \/ step[r] \in {"exists", "get"}
       \/ step[r] = "eval" /\ ~LuaAccepts(KeyOf[r])
    /\ UNCHANGED <<counter, step, queue, rollBacks, lost, wiped, wasted, charged>>

IncrementReplyLost(k, a) ==
    /\ LoseReply
    /\ ~IsRequests(k)
    /\ a > 0
    /\ SetCounter(k, Current(k) + a)
    /\ wasted' = [wasted EXCEPT ![k] = @ + a]
    /\ UNCHANGED <<step, queue, unanswered, rollBacks, lost, wiped, charged>>

\* ioredis connects again and sends all that is unanswered again.
Reconnect ==
    /\ unanswered > 0
    /\ unanswered' = 0
    /\ UNCHANGED <<counter, step, queue, rollBacks, lostReplies, lost, wiped, wasted, charged>>

\* Redis restarts and its append-only file lacks the last writes.
RollBack(k, c) ==
    /\ rollBacks < MaxRollBacks
    /\ c < counter[k]
    /\ ThrowAway(k, c)
    /\ rollBacks' = rollBacks + 1
    /\ UNCHANGED <<step, queue, unanswered, lostReplies, wiped, wasted, charged>>

\* The gateway process dies: checks in flight are never answered.  What Redis
\* executes of them all the same, it has executed unheard.
Crash ==
    /\ \E r \in Request : step[r] \in Checking
    /\ step' = [r \in Request |-> IF step[r] \in Checking THEN "aborted" ELSE step[r]]
    /\ queue' = <<>>
    /\ unanswered' = 0
    /\ UNCHANGED <<counter, rollBacks, lostReplies, lost, wiped, wasted, charged>>
-----------------------------------------------------------------------------
\* Mutant: the script's -1 is not answered.
CheckStepNoReject(r) == Exists(r) \/ Seed(r) \/ EvalAccept(r) \/ CheckOnly(r)

CheckStep(r) ==
    \/ Exists(r)
    \/ Seed(r)
    \/ EvalAccept(r)
    \/ EvalReject(r)
    \/ CheckOnly(r)

ReplyLost ==
    \/ \E r \in Request : EvalReplyLost(r) \/ SeedReplyLost(r) \/ ReadReplyLost(r)
    \/ \E k \in Key, a \in Amount : IncrementReplyLost(k, a)

Next ==
    \/ \E r \in Request : Intercept(r) \/ CheckStep(r) \/ CheckFails(r)
    \/ \E k \in Key, a \in Amount : IncrementBy(k, a)
    \/ ReplyLost
    \/ Reconnect
    \/ \E k \in Key : \E c \in Absent..counter[k] : RollBack(k, c)
    \/ Crash

Spec == Init /\ [][Next]_vars

\* Redis answers every command in the end, perhaps with an error (the offline
\* queue holds commands while it is away), so the head of the queue moves.
Fairness == WF_vars(\E r \in Request : CheckStep(r)) /\ WF_vars(Reconnect)

\* For TLC: no key is charged without end.
BoundedNext == Next /\ \A k \in Key : charged'[k] <= MaxCharged

FairSpec == Init /\ [][BoundedNext]_vars /\ Fairness

RestartSpec == InitAfterRestart /\ [][Next]_vars
-----------------------------------------------------------------------------
(***************************************************************************)
(* Properties.                                                             *)
(***************************************************************************)

\* What the key's admitted calls are known to have used.
Consumed(k) == IF IsRequests(k) THEN Cardinality(Admitted(k)) ELSE charged[k]

\* Zero overshoot: as long as Redis has kept its counts, a "requests" key
\* never admits more calls than its limit, however many checks interleave,
\* crash or are sent twice.
NoOverspend ==
    rollBacks = 0 =>
        \A k \in Key : IsRequests(k) => Cardinality(Admitted(k)) <= Limit[k]

\* The ledger balances: the counter is exactly what was consumed, plus the
\* units counted twice, less the units thrown away.  Every interleaving of
\* seeding, counting, charging, restarts and re-sent commands is accounted
\* for; nothing is counted by a check that did not admit its call.
LedgerBalances ==
    \A k \in Key : Current(k) + lost[k] = Consumed(k) + wasted[k]

\* Restarts included, a "requests" key admits at most as many calls beyond
\* its limit as units of its count were thrown away, by Redis or by a late
\* SET of the seeding race.
OverspendBound ==
    \A k \in Key : IsRequests(k) => Cardinality(Admitted(k)) <= Limit[k] + lost[k]

\* What budget.service.ts:31-33 says of two concurrent requests ("Exactly one
\* passes, exactly one is rejected"), granted that Redis may forget: a key is
\* overspent by no more units than Redis itself has forgotten of its count.
OvershootIsForgotten ==
    \A k \in Key : IsRequests(k) =>
        Cardinality(Admitted(k)) <= Limit[k] + lost[k] - wiped[k]

\* A caller is refused only when its budget is really used up: by calls that
\* were admitted, by charges of the worker, or by units wasted on commands
\* executed twice.  Lost counts can only err in the caller's favour.
NoFalseRefusal ==
    \A r \in Request : step[r] = "refused" =>
        Consumed(KeyOf[r]) + wasted[KeyOf[r]] >= Limit[KeyOf[r]]

\* Exhaustion is final: while no count of the key was thrown away, a key
\* whose consumption has reached its limit admits no further call, also not
\* one whose check was already in flight when it was exhausted.
ExhaustionIsFinal ==
    [][\A r \in Request :
          (lost[KeyOf[r]] = 0 /\ Consumed(KeyOf[r]) >= Limit[KeyOf[r]])
              => (step'[r] = "passed" => step[r] = "passed")]_vars

\* The refinement mapping: the gate's ledger and decisions, seen in a state.
Used == [k \in Key |-> Consumed(k)]

Decision ==
    [r \in Request |-> CASE step[r] = "passed"  -> "admitted"
                         [] step[r] = "refused" -> "refused"
                         [] step[r] \in {"failed", "aborted"} -> "dropped"
                         [] OTHER               -> "open"]

Gate == INSTANCE BudgetGate WITH used <- Used, decision <- Decision

\* The check of three round trips implements the atomic gate of BudgetGate:
\* each of its decisions is the one a single step against the exact ledger
\* would take.
ImplementsGate == Gate!Spec

\* Every check that starts is decided, ends with the error Redis answers to
\* one of its commands, or dies with the process; it waits for no other check
\* for ever, although all share one connection.
ChecksEnd ==
    \A r \in Request : step[r] \in Checking ~> step[r] \in Decided \cup {"failed", "aborted"}
=============================================================================
