# RentOk LLM gateway: a TLA+ development

This directory holds TLA+ modules that model the gateway of this repository
(NestJS, Redis, PostgreSQL with pgvector, BullMQ) and the stateful pages of its
frontend (Next.js), the TLC configurations that model-check them, and theorems
about them that TLAPS checks. Paths below are relative to `src/backend/src/`
unless they begin with `README.md`, `DECISIONS.md` or `frontend/`.

Contents: 1 the system, 2 the modules, 3 the runs, 4 fairness, 5 the proofs,
6 findings, 7 other observations, 8 what is not modelled, 9 the plan.

    tlc -config MCBudget.cfg MCBudget      # one run
    tlapm BudgetProofs.tla                 # one module of proofs

`PROJECT.json` lists the runs, the source lines of every definition, the
hazards with the properties that cover them, and for each property of each run
a *mutant*: a plausible bug, put in place of a definition, that makes TLC find
the property violated. A mutant stands in its module right above the original,
behind a comment that begins "Mutant"; no specification uses it.

## 1 The system

### Components

| component | state it keeps | operations |
|---|---|---|
| **Budget enforcement** (`budget/`) | one Redis counter `budget:<key_id>` per virtual key | `checkAndIncrement` (EXISTS, perhaps SET 0, EVAL of a Lua script), `checkOnly` (GET), `incrementBy` (INCRBYFLOAT) |
| **Usage accounting** (`usage/usage.processor.ts`, BullMQ) | jobs in Redis; `usage_logs` rows; `virtual_keys.budget_used` | `process`: insert the row, add to `budget_used`, add to the counter of a metered key |
| **Provider chain** (`provider/`) | none between calls; per call the attempt, its timer and the errors so far | `complete`: Groq, Groq, Gemini, then 503 |
| **Gateway request path** (`auth/auth.guard.ts`, `gateway/`) | per request: key, cache outcome, result, usage job not yet added | guard, interceptor, validation, cache, providers, response, job |
| **Semantic cache** (`cache/`) | `prompt_cache` rows, two process counters | `findSimilar`, `store`, update of `hit_count` |
| **Keys and admin API** (`auth/admin.*`) | `virtual_keys` rows, the counter it seeds | `createKey`, `listKeys`, `AdminGuard` |
| **Usage query** (`usage/usage.service.ts`) | none | `getUsage`: a key's row, then a page of its log rows |
| **Frontend pages** (`frontend/app/`) | the state of the usage, keys and health pages | lookups, creation and listing of keys, polling |
| **Health endpoint** (`health/`) | none between requests; per request two pings, of which Redis's waits behind ioredis | `check`: both pings at once, and their statuses |
| **Schema, configuration, bootstrap** | environment | wiring |

### How they interact

    frontend page --- route handler --- AdminController --+--> Postgres virtual_keys
         |                                                +--> Redis budget:<id> = 0
         |
    caller --> AuthGuard --> BudgetInterceptor --> validation --> GatewayController
                  |                |                                |  |  |
              virtual_keys   Redis budget:<id>        SemanticCache <  |  > usageQueue.add
                                   ^                                   v        |
                                   |                       Groq, Groq, Gemini   | not awaited
                                   |                                            v
                                   +--- incrementBy (metered keys) --- UsageProcessor --> usage_logs
                                                                              +--> virtual_keys.budget_used

The budget of a key therefore lives in two places: the Redis counter, which the
interceptor and (for metered keys) the worker write, and `budget_used`, which
only the worker writes. Pages and reports read the second, checks read the
first, and nothing reconciles them.

### What is hard, and what makes each component correct

* **Budget.** A check takes up to three round trips and other checks run at each
  of them. Redis may come back with an older count or none. ioredis is
  configured with `maxRetriesPerRequest: null`, so a command whose reply was lost
  is sent again, and all checks of a process share one connection. Correct means: no
  key of type `requests` admits more calls than its limit while Redis keeps its
  counts; every unit of the counter is accounted for; a refusal is due; a check ends.
* **Usage accounting.** Three commits with failures between any two and jobs
  that are run again from the top. Correct means: no charge without a row, no
  completed job without both, a bounded number of re-runs, nothing left behind.
* **Provider chain.** Five ways for an attempt to fail, some before and some
  after the timer is cleared, and the last one in another form, for another
  provider. Correct means: the promised order of providers, a status that names the
  one that answered, the same conversation for each of them, a cost that is zero
  only for nothing, and an end unless a body keeps trickling.
* **Gateway.** The unit is counted first and logged last, with validation,
  cache, providers and a process that may die in between. Correct means: answers
  within the limit, to a prompt like the caller's, no charge without an answer, books
  that differ only by what is explainable, and a status for every caller who does not
  wait for the embedding service or a provider for ever.
* **Semantic cache.** Similarity is not transitive, and stores and hit counts
  run in the background. Correct means: an answer stays within the threshold of
  its caller's prompt, hits are not counted twice, a failing cache only delays.
* **Keys.** Two stores without a transaction, and a raw key that is visible
  once, in a browser whose replies come late or not at all, on a page that may be
  left. Correct means: what is disclosed is usable and shown until its modal or the
  page is closed, a key nobody knows needs a fault or a page that was left, and what
  the page's list has wrong does not outlast the visit.
* **Usage lookups.** Two queries while the worker writes, and replies of
  overlapping lookups in any order. Correct means: a report is covered by its rows,
  and with no lookup under way the page shows a report or an error of a key looked up
  since there last was none. Which lookup of an overlapping burst wins is left to the
  network, so the page need not show the last one.
* **Health.** The ping of Redis goes through the connection of the budget check and
  its offline queue, so a check may outlast several polls, and each poll writes
  the page when it ends. Correct means: a report was true since it was asked for,
  the page comes to show what the stores do, and claims nothing while it cannot know.

## 2 The modules

### Budget, BudgetGate, MCBudget, BudgetProofs

`Budget` has one action per round trip: `Intercept`, `Exists`, `Seed`,
`EvalAccept`/`EvalReject` (the script, atomic in Redis), `CheckOnly`, and the
worker's `IncrementBy`; `CheckFails` is an error reply (OOM, MISCONF, READONLY) to any
of them, on which the interceptor throws. `counter[k]` is the Redis value, or
`Absent`; `step[r]` is the await at which request `r` stands. `queue` is the one
ioredis connection of the process (`budget/budget.module.ts`): the requests with a
command sent and not answered. Redis executes them in that order, so only the head is
answered. When the connection drops, commands already executed have lost their
replies (`unanswered`; `EvalReplyLost`, `SeedReplyLost`, `ReadReplyLost`), and after
`Reconnect` all of the queue is executed again. The worker's INCRBYFLOAT runs on the
same connection but on keys that checks only read, so it has no place in the queue;
its lost reply is `IncrementReplyLost`. Other faults are `RollBack` (Redis restarts
from an append-only file that lacks the last writes) and `Crash`. Costs are whole
units; the models never compare fractions.

`lost`, `wiped`, `wasted` and `charged` are history variables: units of a count that
were thrown away, those of them a SET of the check threw away, units counted by an execution whose reply was lost, units the
worker charged. `Init` sets the counters to 0, as `createKey` does before it
discloses a key (module KeyAdmin checks that); `InitAfterRestart` starts with a
Redis that is empty.

`BudgetGate` is what the check promises: one atomic decision against an exact
ledger `used + wasted - lost`. `Budget!ImplementsGate` is the refinement, with
`used` mapped to what admitted calls consumed and `decision` to the outcome.

### UsageWorker, Books, MCUsageWorker, UsageWorkerProofs

`UsageWorker` models the queue and `UsageProcessor.process`: `InsertRow`,
`UpdateBudgetUsed`, `SyncRedis` are its three commits, `Add` is the controller's
`usageQueue.add`. `Take`, `Finish`, `MoveToFailed`, `Promote`, `LockExpires`,
`LockLost` and `Stalled` are BullMQ, which is not in this repository and is
modelled (and marked external) from how it is used here: default worker options,
one job at a time. A failing statement may have taken effect (`DatabaseError`), INCRBYFLOAT may be
answered with an error (`SyncFails`),
a process may die in any phase (`WorkerCrash`), a job may be run a second time
while or after it ran (`LockLost`, then `Stalled`), and Redis may forget
(`QueueRollBack`). `rows`, `charges` and `syncs` count what one call has left in
each of the three books.

`Books` is the promise: log before charge, never more charges than rows, close
only what is recorded. `UsageWorker!ImplementsBooks` is the refinement, and
`UsageLookup` uses `Books` as its worker.

### Provider, Conversion, ProviderPromise, MCProvider, ProviderProofs

`Provider` models `complete` with both adapters: `Unconfigured`, `Fetch`,
`HeadersArrive` (`fetch` resolves and the timer is cleared), `TimerFires`,
`BodyArrives`, `BodyMalformed`, `ErrorBody`, `NetworkError`, `Tick`, `Crash`.
Time is counted in ticks: `waited` since the current fetch began, and `silent` since
the last part of its body came. `Chunk` is one more part. What ends a body that stalls
is undici's `bodyTimeout`, which bounds the time between two parts and not the body
(`IdleTimeout`, `BodyEnds`). `req` is what the call asks and
`result` the model and the tokens of its answer. `Conversion` holds what is computed
from them without state: `ConvertMessages` and `MapModel` of the Gemini adapter,
and `EstimateCostInr` of the controller, whose `toFixed(6)` is the nearest millionth
and at exactly half of one either neighbour, since the product is a float. `Filter` is
`Array.filter`, written out as a recursive function so that it can be proved about.
`ProviderPromise` is the policy (Ask, FailOne,
Answer, Die) that the gateway composition uses; `ImplementsPromise` is the
refinement. Calls share only the environment, so one call is a full instance.

### Gateway, MCGateway, GatewayProofs, Sums

`Gateway` composes `Budget`, `CachePromise`, `ProviderPromise` and `UsageWorker` by
INSTANCE: every action is a step of one of them, or of two where the code couples
them (`WorkerSyncs` is the worker's third commit *and* `Budget!IncrementBy`;
`ProviderAnswers` is the answer of the chain *and* the start of a store in the cache;
`Crash` hits all). Its own variables are `place` (where the handling of a request
stands), `reply`, `hit`, and `adding` (requests whose `usageQueue.add` was started
and not awaited). `place` follows the code's order: guard, interceptor,
validation pipe (after interceptors, so a 400 has been counted), cache, providers,
response. `AuthError` and `CheckError` are the 500 of a Postgres or Redis that answers
the guard's query or the check with an error, which nothing catches. `CacheWrites` is what becomes of a store, before or after its call was
answered. `ImplementsBudget` says that the composition uses the check as
`Budget` specifies it; that it uses the worker, the chain and the cache as their
modules specify them is proved too, and so the theorems about the check and the
worker hold of the gateway (section 5). `Sums` has the lemmas about sums and
counts that several modules of proofs need.

### SemanticCache, CachePromise, MCSemanticCache, SemanticCacheProofs

A call goes through `Probe`, `Embedded`, `QueryHit`/`NoHit`, `ProviderAnswers`
or `AllProvidersFail`; its background work is `StoreEmbeds`, `Insert`,
`StoreFails`, `CountHit`, `CountHitFails`. Prompts are model values, `Similar` is
any reflexive set of pairs, and an answer is named by the prompt the providers
were given for it. The HNSW index is approximate: a query may return any row
within the threshold, or none.

`CachePromise` is what the gateway relies on: served is what is `kept` for a prompt
within the threshold, kept are answers of the providers under their own prompts, and
keeping one is an attempt (`keeping`) that may come to nothing and ends with the
process. `SemanticCache!ImplementsPromise` is the refinement; lookups that find
nothing, embeddings and hit counts are stutters of it.

### KeyAdmin, PageProofs

The gateway's part of a creation (`Refuse`, `Save`, `Seed`, `CreationFails`),
`ReadList`, and the page's part (`OpenModal`, `CloseModal`, `Create`, `Created`,
`CreateError`, `RouteError`, `CreateDemo`, `ListArrives`, `ListFails`). `Remount` is
leaving the page and coming back, or loading it again: it forgets everything, asks for
the list anew, and hears no more of what it had asked for. The route
handler between them loses replies, while the gateway goes on. Keys are named
by the creation that makes them, and creations are numbered in the order the page
sends them. A list is sorted by `createdAt`, which rows get when they are saved and
which may agree, so `Listings` leaves the order of its keys open.

### UsageLookup, MCUsageLookup, UsageLookupProofs

`Type` and `Press` are the page's inputs, `Send` its requests, `FindKey` and
`FindLogs` the two queries of `getUsage`, `Arrive` the reply, `LookupFails` any
failure. With a key in the URL the page's effect runs twice, because it sets the
key on which its callback depends (`Effect`). `WorkerWrites` is `Books`.

### Health, PageProofs

The page's part is `Open` (the effect with its first check), `Poll` (the interval,
which does not ask whether the last check has ended), `Refresh`, `Leave`, and the
ends of a check: `Arrive`, `FetchFails`, `CrashIsSeen`, which all write the page by
`Show`. The gateway's part is `Handle` (both pings begin), `CheckPostgres` and
`CheckRedis`; `queue` holds the PINGs ioredis has not seen answered, in their order.
`StoreChanges` and `GatewayCrash` are the surroundings: a store is connected, answers
with errors, or (Redis) does not answer. `seen` and `shown` are history: what the
stores have been since a check was sent. `Card` and `Banner` are what the page says.
`Health` names its parts `HealthInit`, `HealthNext`, `HealthSpec` and so on, because
`PageProofs` extends it together with `KeyAdmin`.

## 3 The runs

| run | states | shows |
|---|---:|---|
| `budget_check` | 160 k | `NoOverspend`, `OverspendBound`, `NoFalseRefusal`, `LedgerBalances`, `ExhaustionIsFinal`, the refinement of `BudgetGate`, and that every check ends |
| `budget_seed_race` | violation | `OvershootIsForgotten` fails: a late SET of one check wipes the unit of another (finding 1) |
| `usage_worker` | 53 k | `LoggedBeforeCharged`, `CompletedIsRecorded`, `RunsBounded`, `ExactWithoutFaults`, `AllSettle`, the refinement of `Books` |
| `usage_attempts` | violation | a job added by the gateway has one attempt, not three (finding 2) |
| `provider_chain` | 288 k | `AsksTheSame`, `CostFollowsUse`, the refinement of `ProviderPromise`, and that every call ends whose bodies do (`CallsEnd`) |
| `provider_deadline` | violation | an attempt may outlast its timeout (finding 3) |
| `gateway_requests` | 1 522 k | `ServedWithinLimit`, `DriftExplained`, `ChargesNeedAnswer`, `AnswerFits`, and the composition's use of `Budget`, on a `requests` key |
| `gateway_metered` | 258 k | the drift on a metered key; every caller is answered who does not wait for another service for ever, every answer is logged |
| `usage_lookup` | 292 k | `ReportCovered`, `ShownIsSearched`, `PageSettles` |
| `semantic_cache` | 60 k | `NoDrift`, `HitsBalance`, the refinement of `CachePromise`, `CallsAnswered` |
| `key_admin` | 587 k | `KeysAccounted`, `ListRepaired`, `RawKeySeen` |
| `health_page` | 229 k | `ReportIsReal`, `PageConverges`, `AwayIsUnknown` |

Every module has a type invariant `TypeOK`. `usage_lookup` checks the one of
`UsageLookup` (which has the cap of a page in it); the others are proved (section 5)
and not part of a run.

### Bounds, and why they are enough

* `budget_check`: three checks on a key with two units (so one must lose, and any
  two may interleave at every await), a fourth on a metered key whose counter the
  worker moves below, to and (2 of 2) past the point of refusal; one roll back
  and one lost reply, so that either fault meets every step and each other.
  An error reply may meet every step. `MaxCharged` keeps the worker's charges finite; it bounds `BoundedNext`, which
  only this run uses, and not `Next`, which the theorems are about. Counters start at
  0, and one that is lost is seeded in the states where Redis rolled back; what
  `NoOverspend` leaves out there is what `OverspendBound` and the next run are about.
* `budget_seed_race`: two checks, one unit, one counter lost, nothing else.
* `usage_worker`: two jobs, one with the attempts the gateway gives it and one
  with three, so that the worker's choice and both ends of the attempt count
  occur; two faults let a failure follow a failure (an error, then a stall, or a
  lost lock, then a crash); one roll back forgets what was counted. `Amount`
  contains 0: a call that is not charged.
* `provider_chain`: all four configurations of API keys, a timeout of two ticks
  (before, at), a body whose parts may be two ticks apart; `waited` stops at
  `LongestWait`, one beyond the timeout, which is all that finding 3 needs to see. The conversation is any of up to
  three messages, of each role the code distinguishes: enough for a system message
  before, between and after turns and for a first turn of either speaker. Tokens are
  0, 1 (where rounding to six decimals could make a call free) and 1000.
* `gateway_requests`: two calls and one unit is the smallest race for the last unit;
  one fault of each kind. With three calls nothing new can compete: one unit has
  one winner, and both other calls see what the one loser sees. Both calls have one
  prompt, so that one may be served what the other has left; the cache begins
  with a row of another prompt, which must not be served, and perhaps one of theirs
  (`StaleSpec`). The calls differ by name only and all its properties are safety
  properties, so they are a symmetry set.
* `gateway_metered`: the same, without symmetry, since it has liveness properties; the
  cache begins with one row of the calls' prompt, so that a call may be a hit
  or a miss, and at most one step fails, of the worker, the process, Redis, Postgres
  or the connection (the action constraint `OneFailure`, which cuts only failures, and
  no fairness asks for those), which ends what `ServedIsLogged` has to say anyway.
* `usage_lookup`: three lookups (the two of one effect and a third that overlaps
  them, or three by hand); a call with up to three rows against a page of two, so
  that a page is partly filled, full, and overfull.
* `semantic_cache`: four calls on a chain `p1 ~ p2 ~ p3` with `p1` not similar to
  `p3`: long enough for an answer to be passed on twice if it could be; one restart.
* `key_admin`: three creations, two faults and two remounts: a creation after one that
  failed, a fault on top of a fault, a key of each of three visits.
* `health_page`: two checks under way at a time (the one that waits for Redis, and
  the next of the interval), two changes of the stores (an outage and its end, or
  one of each store), one fault, one visit; the page may be left in it.

Deadlock is not checked: in every instance all calls may have ended. That no
call *waits* for ever is what the liveness properties say (`ChecksEnd`,
`AllSettle`, `CallsEnd`, `CallersAnswered`, `ServedIsLogged`, `PageSettles`,
`CallsAnswered`, `PageConverges`).

## 4 Fairness

Only weak fairness is used, and only on what proceeds without anybody's help.

* `Budget`: the head of the connection's queue is answered in the end, and a dropped
  connection is opened again. ioredis holds commands in an unbounded offline queue and
  sends them when Redis is back; faults and error replies are not fair.
* `UsageWorker`: the worker's loop and BullMQ's timers (backoff, lock expiry,
  stalled check).
* `Provider`: the adapter's timer, the tick, and the HTTP client, which breaks a body
  of which no part came for `IdleTimeout`. The provider itself owes nothing: headers
  and bodies need never come, and a body may trickle for ever, which no timer of the
  code ends. `CallsEnd` therefore says: a call ends, or parts of a body keep coming.
* `Gateway`: what it does of its own with Postgres and Redis proceeds (`Progress`),
  each of which answers in the end, perhaps with an error; the connection is opened
  again; an add reaches Redis; the worker works. Nothing is assumed of `Upstream`, the
  embedding request (no timer at all, `cache/cache.service.ts:191`) and the providers
  (a body may trickle); `CallersAnswered` excepts a call that waits there for ever.
  `ServedIsLogged` excepts faults and crashes, because the code does: the add is not
  awaited and a failed job is not retried.
* `SemanticCache`: an embedding request, which has no timer, a query and the
  providers end, one way or the other. Nothing is assumed of background work, here
  or in `Gateway`'s `CacheWrites`.
* `UsageLookup`: each lookup ends with a reply or an error.
* `Health`: the interval fires, the gateway works on what it has, and a store that
  answers does so: a Postgres that is gone is an error in the end. A Redis that is
  away owes nothing, and neither faults nor changes of the stores are fair; both are
  bounded, so `PageConverges` and `AwayIsUnknown` speak of what comes after the last.
* `KeyAdmin` states no liveness: its page waits for a creation without a timer of its
  own, and a gateway that never replies leaves it waiting.

## 5 What is proved

TLC checks the instances above; TLAPS proves these for every value of the
constants, under the named ASSUMEs of the modules only (which TLC evaluates on
every run): finite sets of requests or calls, positive limits, amounts and
bounds in `Nat`, conversations that are sequences of messages, names that differ.

**BudgetProofs.** The inductive invariant is

    LedgerInv == TypeOK /\ StageFits /\ LedgerBalances /\ CountWithinLimit /\ NoFalseRefusal

`StageFits` ties the steps to the budget types (a metered call is never at EVAL).
Without it `LedgerBalances` is not inductive: a metered call that is accepted by
the script would move the counter and not the ledger. `CountWithinLimit` (the
counter of a `requests` key never exceeds its limit) is where the script's
atomicity enters, and gives `OverspendBound` by arithmetic on the ledger.
`NoOverspend` needs one more invariant, `Intact`: while Redis has kept its
counts, no counter is absent and nothing is lost, so no check is at `Seed`. The
ledger, due refusals, the bound, the finality of exhaustion and the refinement
follow from `LedgerInv`, which does not use the order of the connection: they would hold
of checks that are answered in any order, over any number of connections; `Ledger` is also proved from `InitAfterRestart`, where
`NoOverspend` is false: the seeding race loses units, but it loses none unaccounted.

Theorems: `TypeCorrect`, `Ledger`, `RefusalsAreDue`, `Overspend`,
`ZeroOverspend`, `Exhaustion`, `Refinement` (`Budget` implements `BudgetGate`:
initial states, then one step per action).

**UsageWorkerProofs.** `BooksInv` says, for the running job and phase, which of
the three books are already written (`rows > charges` at "update", and so on), and
that a job is added before it is logged. It holds under every fault, because a
fault sends the job back to the first commit, never between two. It gives
`ChargesAreLogged`, `CompletedRecorded` and `Refinement` (`UsageWorker`
implements `Books`). `TypeCorrect` is proved separately.

Re-runs are counted by BullMQ's two counters and forgotten
with them, so `RunsBounded` needs to know where each run went: `RunsCounted` says
that the runs of a job are at most its failed attempts, its stalls, the run it
is in or completed with, and what Redis forgot. A run ends in exactly one of the
former; that a late run cannot end the job a second time is `LockedIsActive`,
since moving a job takes its lock. `RowsOfRuns` (one row a run) gives the bound
on rows, and `BooksInv` the one on charges. `Exactness` is about the states before the first fault only:
there at most one job is active, its worker holds its lock, and its three books
are written exactly as far as the phase says (`FaultFree`).

**SemanticCacheProofs.** `NoDrift` is not inductive by itself: an answer comes
from a row. `CacheInv` adds `RowsOwn` (a row's response was given for the row's own
prompt), `StoresOwn` and `StoresAnswered` (so is what a background store is about
to insert). Then a hit is one application of `Similar`, however many came before.
`Refinement` (`SemanticCache` implements `CachePromise`) needs `Unanswered` besides: a
call that is still looking up or asking has no answer yet, so each is answered once.
`HitsAreBalanced` counts calls: `CountInv` adds to the balance that a call whose update
is still under way was answered from a row, and each step moves at most one call between
updates under way, hits counted and hits lost.

**PageProofs, the keys page.** `KeyInv` adds to typing that the page waits for at
most one creation, the last one it sent, and shows no key while it waits (`WaitsForOne`),
and that a key saved or counted passed its stages in order (`StoresInOrder`).
From it, `NoKeyUnseen` (a raw key leaves the page only by closing its modal or leaving
the page) and `DisclosedUsable` (a disclosed key has its row and its counter), the first
conjunct of `KeysAccounted`. `RemountRepairs` (`ListRepaired`): a key disclosed on an
earlier visit is in Postgres when this visit reads the list, which has each row once
(`Listed`); it stays there once because what the page puts in front is a key of this
visit (`NotYet`: the creation it waits for is not disclosed; `Pushed`: an entry in
front leaves the others where they are). `KnownFits` says so at each stage of the list.
`Accounted` counts: `GivenUp` are the keys that a fault has kept from the page, and
`LostInv` bounds them, step by step, by the faults; `Unsaved` keeps a refused creation
out of the stores, and a creation the page was left for is set apart.

**PageProofs, the health page.** `QueueFits`: a command in the queue of Redis is the
one of a check being served, and there is one for each, so a crash or a failed request leaves none
behind that would answer a later check. `SeenFits`: what a store is has been seen by
every check under way. `ReportsAreReal` follows, and `HealthTypeCorrect`.

**UsageLookupProofs.** `BurstFits`: all lookups before the current burst are done, so
an error is one of the burst (a new lookup takes the old error away), and the
reply that ends the burst leaves its own report or its own error.
`ShowsWhatWasSearched` follows, whatever the sums in a report are. `CoverInv` is about
the sums: no call has more charges than rows (Books), so what a key has used is
covered by its rows (`UsedIsListed`, by `SumMonotone` of `Sums`); a lookup between its
two queries has read a sum of charges that the rows cover now, and rows never
shrink, so they cover it still when they are read. A page that is not full has read
all rows. `ReportsCovered` and `TypeCorrect` follow.

**ProviderProofs.** `ProviderInv` adds to typing that a busy call has fewer
errors than the chain has entries (`ChainLeft`), so that a failure is either the
promise's next one or its last; that a body is read only with a status known and
the timer's bound kept (`HeadersKnown`); and that an outcome is there exactly when
the call has ended (`OutcomeFits`). `TypeCorrect` and `Refinement` follow, the
second with one step per action: what a network event, a timer or a crash does
is `FailOne`, `Answer`, `Die` or a stutter of `ProviderPromise`. `Charges`
(`CostFollowsUse`) adds the arithmetic: at the lowest rate and with more than ten
rupees to the dollar (`UsdAssumption`; the environment sets it), one token costs more
than half a millionth of a rupee, so no use rounds to nothing.
`AsksAreTheSame` is about `Filter`, by induction on how far it has read: what it has
chosen by position n are the messages up to n that pass the test (`Selects`), the one
at position i at the place after as many as pass before i. So a conversation
is two interleaved selections of which each keeps its order (`TurnsAndSystems`), for
any length; `AsksAssumption` says that what is asked is a sequence of messages.

**Sums.** The models add up with the library's `SumFunctionOnSet`, which is defined
by recursion, and the library's induction theorems are out of reach. `SetInduction`
proves induction for a *set* of numbers from the pigeonhole theorem: a number
missing from the set would give an injection of the missing ones into fewer. From
it follow that a sum of naturals is a natural (`SumNat`), how it changes when one value
does (`SumUpdate`), that equal or larger values give equal or larger sums (`SumSame`,
`SumMonotone`), and that a sum of zeros and ones counts the ones (`SumBits`).

**GatewayProofs.** `UsesBudget` is the refinement of `Budget` by the composition:
each of its steps is a step of the check or leaves the counters alone, and the
only amounts that reach `IncrementBy` are units of a call (`WorkerTypes`). `UsesWorker`,
`UsesChain` and `UsesCache` say the same of `UsageWorker`, `ProviderPromise` and
`CachePromise`. So what is proved of the check and the worker alone
applies to the gateway: `GatewayProofs` instantiates BudgetProofs and
UsageWorkerProofs with its own constants and variables, shows their assumptions
from its own (`BudgetAssumptions`, `WorkerAssumptions`), and cites their theorems
(`BudgetsHold`, `AccountingHolds`). `LimitHolds` carries
the limit from the check to the caller: `CountCovers` (while Redis keeps its
counts, a counter lies between the calls admitted and the limit) and
`AnsweredAdmitted` (only an admitted call gets to the handler, and to a 200).
`AnswersFirst` rests on `RespondsWithAnswer` (the
handler responds only when cache or providers answered, and an answer is not taken
back) and `BooksFollow` (jobs, hence rows and charges, belong to such calls,
whatever the queue and the worker repeat, lose or forget). `AnswersFit` has
`AnswerFollows`: before the cache nothing is answered or asked, at the providers it is
they who were asked, and from there on the answer fits; what others keep meanwhile
does not matter, because a lookup tests each row against the caller's own prompt.
`TypeCorrect` collects the types of the composition from these invariants.

`DriftIsExplained` compares two sums. While there is no fault each call is charged once,
Postgres first (`ExactOf`), a `requests` counter has the admitted calls and a metered
one the units the worker has added (`CountersExact`); a charge changes one
term of either sum, so they differ by the calls admitted and not charged, or by
the one update between its two commits. The units are any naturals.

**Only model-checked:** liveness (`ChecksEnd`, `AllSettle`, `CallsEnd`,
`CallersAnswered`, `ServedIsLogged`, `PageSettles`, `CallsAnswered`, `PageConverges`,
`AwayIsUnknown`), because fairness and `ENABLED` are beyond the prover used. Every
invariant, action property and refinement of the passing runs has a theorem.

## 6 Findings

1. **A late SET wipes a counted unit** (`budget/budget.service.ts:71`, run
   `budget_seed_race`). The run has one process, whose checks share one connection:
   A's EXISTS finds the counter (at 0), Redis loses it, B's EXISTS does not find it,
   A's EVAL counts A's unit, B's SET wipes it, B's EVAL passes as well. Two calls on a
   limit of one, although Redis has forgotten no unit (`OvershootIsForgotten`). Lines
   31-33 say "Exactly one passes, exactly one is rejected", `README.md:62` "Zero budget
   overshoot under any concurrency level". Two checks of one process that both find the
   counter missing are harmless: the connection sends the second SET before the first
   SET's reply can start an EVAL. Two *processes* have two connections, and then a Redis
   that starts empty is enough: EXISTS, EXISTS, SET, EVAL, SET, EVAL. `OverspendBound`
   says how far it can go. SET with NX, or a seed inside the script, would close it.
2. **One attempt, not three** (`gateway/gateway.module.ts:16`, run
   `usage_attempts`). The gateway registers the queue again without
   `defaultJobOptions`, and options belong to the queue object that adds. The
   first database error fails the job; `usage/usage.processor.ts:35` says three attempts.
3. **The timer does not cover the body** (`provider/groq.adapter.ts:53`,
   `provider/gemini.adapter.ts:71`, run `provider_deadline`), against the "8s
   timeout" of `provider/provider.service.ts:15`.

## 7 Other observations

Met while modelling; each is what the modules do, none has a run of its own.

* Metered keys reserve nothing (`budget/budget.interceptor.ts:67`): any number of
  calls may pass on the last token and all be charged. The code says so
  (`budget/budget.service.ts:89-91`). No property excludes it; what holds is that a key
  whose charges have reached the limit admits nobody more (`ExhaustionIsFinal`).
* Every failure is retried on Groq, a 401 or 400 as well
  (`provider/provider.service.ts:16` speaks of transient errors). An adapter without a key
  throws an Error that has no `provider` field (`provider/groq.adapter.ts:28-30`).
* The job is added before the response is flushed (`gateway/gateway.controller.ts:201`),
  while `README.md:101` puts it after.
* `usage/usage-log.entity.ts:12-19` calls `usage_logs` the log of "every request that
  passed authentication", with rows of status `rejected_budget` (429) and `error`
  (503), and `DECISIONS.md:220` says of provider failures that they "surface in
  `usage_logs`". No code writes such a row: 429 and 503 throw before the one
  `usageQueue.add`. `ChargesNeedAnswer` is about charges and says nothing of rows, so
  that a gateway which logs its refusals, as that comment demands, satisfies it too.
* INCRBYFLOAT answered with an error fails its job after the row and the charge
  (`SyncFails`): Postgres is then ahead of Redis for good.
* A job run again after its commits charges its call again: nothing identifies
  the row of an earlier run. `RunsBounded` bounds it.
* Jobs in Redis survive a crash of the process, unlike what `DECISIONS.md:129`
  says; what is lost is an add that was still on its way.
* A cached answer may come from another model or conversation, while the reply
  names the requested model; two simultaneous misses store two rows;
  `CACHE_CHARGE_ON_HIT` (`config/app.config.ts:33`) is read by nothing.
* `total_requests` of a report is at most 50 (`usage/usage.service.ts:45`).
* The usage page with a key in its URL undoes what is typed, and sends two
  lookups for each keystroke and at the start; a report and an error banner can
  stand side by side when lookups overlap; its panel "No key found" never comes
  up (`ShownIsSearched` checks that).
* The keys page: a list that arrives after a creation overwrites the new key, and one
  that arrives during it shows the key twice (`frontend/app/keys/page.tsx:79`), until
  the page is mounted again (`ListRepaired`); leaving the page while it waits for a key
  loses that key (`KeysAccounted` sets such keys apart); the key it makes up for a missing gateway
  appears when the browser loses the *route*, not the gateway
  (`frontend/app/keys/page.tsx:116`); trying again after a 502 leaves keys that
  nobody knows (`KeysAccounted` counts them).
* The "instant revocation" of the README has no code.
* A `requests` call that ends in 400 or 503 keeps its Redis unit and is never charged
  in Postgres (`gateway/gateway.controller.ts:99`); the periodic reconciliation of
  `README.md:103` has no code. `DriftExplained` says what the two differ by.
* A health check waits as long as Redis is away (`health/health.controller.ts:59`)
  and answers 'disconnected' only for a Redis that answers with errors. The page is
  "checking" meanwhile (`AwayIsUnknown`), also of Postgres. The two pings of one
  report are answered at different moments: their pair need never have been true.
* The health page shows its mock, all connected, when the gateway cannot be reached
  (`frontend/app/health/page.tsx:134-141`), against the "Live ping status" of
  `README.md:110`; it is replaced by the next report (`PageConverges`).
* `mapModel` maps Gemini's own names to the default model, where its comment
  (`provider/gemini.adapter.ts:156`) passes them through; `gemini-2.5-pro`, to which it
  maps two models, has no entry in `COST_RATES` and is charged at the default rate.
* A conversation of system messages only is sent to Gemini without contents.
* `config/app.config.ts` calls itself the only reader of the environment; the health
  controller reads it as well.

## 8 What is not modelled, and why

* **What a cost does to a budget**: in the composition a cost is a number of units,
  possibly 0; `estimateCostInr` itself is in `Conversion`, checked with `Provider`.
* **The other fields of the health report** (providers, cache): read from the
  environment, constant while the process lives.
* **`getCurrentUsage`, `seedCounter`, `pingGroq`, `pingGemini`, `hitRate`**: called by nothing.
* **Dashboard and sidebar (they show constants and have no state), layout, styles; entities, migrations,
  environment, bootstrap**: no behaviour beyond what the modules take from them.
* **Hashing of keys**: a key is its name; two keys never collide.
* **Embedding vectors and distances**: a relation on prompts.
* **More than one gateway process**: the deployment runs one. Checks of several
  processes interleave more freely than those of one in `Budget`, because each process
  has a connection of its own; finding 1 says what that adds. The invariants of
  `BudgetProofs` do not use the order of the connection.

## 9 The plan

Modelled so far, in this order: Budget with its gate and proofs; the worker; the
provider chain; the gateway that composes them; the pages, cache and keys; health;
the conversions; the abstract cache, in its refinement and in the gateway; the proofs
about sums and filters, and those that carry a part's theorems to the composition. Left:

1. **Proofs**: what a cost changes, should `Gateway` compute it with
   `EstimateCostInr` rather than take it as units; the composition's `Books`, through
   `UsesWorker` and the refinement of UsageWorkerProofs.
2. **Keys page**: liveness, should its requests get a timer.
3. **Larger instances**: two keys in `gateway_requests`, if symmetry over them
   keeps it within reach.
