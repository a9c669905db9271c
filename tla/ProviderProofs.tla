--------------------------- MODULE ProviderProofs ---------------------------
(***************************************************************************)
(* Theorems about Provider, for every set of calls, every timeout and any  *)
(* idle timeout of the HTTP client: its type invariant, that the chain of      *)
(* attempts implements the policy of ProviderPromise, what an answer       *)
(* costs, and that each provider is asked the same.                        *)
(*                                                                         *)
(* The argument for the chain. An attempt is under way only while an entry *)
(* of Chain is left (Busy calls have fewer errors than Chain has entries), *)
(* so that each failure is the promise's next one and the last of them     *)
(* ends it.                                                                *)
(*                                                                         *)
(* The argument for AsksAreTheSame. A filter selects the messages that     *)
(* pass its test and keeps their order: the one at position i comes to the *)
(* place after as many as pass before i. So the turns and the system       *)
(* messages sent to Gemini are those of the call, each kind in its own     *)
(* order.                                                                  *)
(***************************************************************************)
EXTENDS Provider, FiniteSetTheorems, SequenceTheorems, Sums, TLAPS

\* A call that is busy has an entry of the chain to be busy with; one that has
\* not begun has no errors.
ChainLeft ==
    \A r \in Request :
        /\ stage[r] \in Busy => Len(errors[r]) < Len(Chain)
        /\ stage[r] = "idle" => errors[r] = <<>>

\* A body is read when the headers, and with them the status, have arrived; the
\* timer bounds the wait for them.
HeadersKnown ==
    \A r \in Request :
        /\ stage[r] = "body" => http[r] \in HttpClasses
        /\ stage[r] = "headers" => waited[r] <= TimeoutMs

\* A call has an outcome just when it has ended by itself.
OutcomeFits ==
    \A r \in Request : outcome[r] # "none" <=> stage[r] = "done"

ProviderInv == TypeOK /\ ChainLeft /\ HeadersKnown /\ OutcomeFits
-----------------------------------------------------------------------------
LEMMA ChainLength == Len(Chain) = 3 /\ \A n \in 1..3 : Chain[n] \in Provs
BY DEF Chain, Provs

LEMMA ProviderInit == Init => ProviderInv
<1> SUFFICES ASSUME Init PROVE ProviderInv
  OBVIOUS
<1>1. Len(<<>>) = 0 /\ <<>> \in Seq(Error)
  OBVIOUS
<1> QED
  BY <1>1, ChainLength, TimeoutAssumption, IdleAssumption, WaitAssumption
  DEF Init, ProviderInv, TypeOK, Stages, ChainLeft, HeadersKnown, OutcomeFits, Busy

\* A failed attempt: the next entry of the chain, or the end of the call.
LEMMA FailStep ==
    ASSUME ProviderInv, NEW r \in Request, stage[r] \in Busy, NEW e \in Error, Fail(r, e), UNCHANGED given
    PROVE  ProviderInv'
<1> DEFINE more == Append(errors[r], e)
<1>1. errors[r] \in Seq(Error) /\ Len(errors[r]) < 3
  BY ChainLength DEF ProviderInv, TypeOK, ChainLeft
<1>2. more \in Seq(Error) /\ Len(more) = Len(errors[r]) + 1 /\ Len(errors[r]) \in Nat
  BY <1>1, AppendProperties, LenProperties
<1>3. /\ errors' = [errors EXCEPT ![r] = more]
      /\ http' = [http EXCEPT ![r] = "none"] /\ waited' = [waited EXCEPT ![r] = 0]
      /\ silent' = [silent EXCEPT ![r] = 0]
  BY DEF Fail, Begin
<1>4. \/ /\ stage' = [stage EXCEPT ![r] = "start"] /\ UNCHANGED outcome
         /\ Len(errors[r]) + 1 < 3
      \/ /\ stage' = [stage EXCEPT ![r] = "done"]
         /\ outcome' = [outcome EXCEPT ![r] = "unavailable"]
  BY ChainLength DEF Fail, Begin, Goto
<1> HIDE DEF more
<1>5. TypeOK'
  <2>1. errors' \in [Request -> Seq(Error)] /\ \A q \in Request : Len(errors'[q]) <= Len(Chain)
    BY <1>1, <1>2, <1>3, ChainLength DEF ProviderInv, TypeOK
  <2>2. http' \in [Request -> HttpClasses \cup {"none"}]
    BY <1>3 DEF ProviderInv, TypeOK
  <2>3. waited' \in [Request -> 0..LongestWait] /\ silent' \in [Request -> 0..IdleTimeout]
    <3>1. 0 \in 0..LongestWait /\ 0 \in 0..IdleTimeout
      BY WaitAssumption, IdleAssumption
    <3> QED
      BY <1>3, <3>1 DEF ProviderInv, TypeOK
  <2>6. result' = result /\ given' = given
    BY DEF Fail
  <2>4. /\ stage' \in [Request -> Stages]
        /\ outcome' \in [Request -> {"none", "success", "fallback_used", "unavailable"}]
    BY <1>4 DEF ProviderInv, TypeOK, Stages
  <2> QED
    BY <2>1, <2>2, <2>3, <2>4, <2>6 DEF ProviderInv, TypeOK, given
<1>6. ChainLeft'
  BY <1>1, <1>2, <1>3, <1>4, ChainLength DEF ProviderInv, TypeOK, ChainLeft, Busy
<1>7. (HeadersKnown /\ OutcomeFits)'
  BY <1>3, <1>4 DEF ProviderInv, TypeOK, HeadersKnown, OutcomeFits, Busy
<1> QED
  BY <1>5, <1>6, <1>7 DEF ProviderInv

\* Every error that the adapters throw is one.
LEMMA ErrorsAreErrors ==
    ASSUME ProviderInv, NEW r \in Request, stage[r] \in Busy
    PROVE  /\ \A kind \in ErrorKinds : [provider |-> Current(r), kind |-> kind] \in Error
           /\ [provider |-> Undefined, kind |-> "unconfigured"] \in Error
           /\ Current(r) \in Provs
<1>1. Len(errors[r]) + 1 \in 1..3
  BY ChainLength DEF ProviderInv, TypeOK, ChainLeft
<1>2. Current(r) \in Provs
  BY <1>1, ChainLength DEF Current
<1> QED
  BY <1>2 DEF Error, ErrorKinds

\* The failures of an attempt, wherever they strike.
Failing(r) ==
    \/ Unconfigured(r) \/ TimerFires(r) \/ BodyMalformed(r) \/ ErrorBody(r) \/ NetworkError(r)

LEMMA FailingFails ==
    ASSUME ProviderInv, NEW r \in Request, Failing(r)
    PROVE  stage[r] \in Busy /\ \E e \in Error : Fail(r, e)
<1>1. stage[r] \in Busy
  BY DEF Failing, Unconfigured, TimerFires, BodyMalformed, ErrorBody, NetworkError, Busy
<1>2. CASE Unconfigured(r)
  BY <1>1, <1>2, ErrorsAreErrors DEF Unconfigured
<1>3. \A kind \in ErrorKinds : FailWith(r, kind) => \E e \in Error : Fail(r, e)
  BY <1>1, ErrorsAreErrors DEF FailWith
<1>4. http[r] # "ok" /\ stage[r] = "body" => http[r] \in ErrorKinds
  BY DEF ProviderInv, HeadersKnown, HttpClasses, ErrorKinds
<1>5. CASE TimerFires(r) \/ BodyMalformed(r) \/ NetworkError(r)
  BY <1>1, <1>3, <1>5 DEF TimerFires, BodyMalformed, NetworkError, ErrorKinds
<1>6. CASE ErrorBody(r)
  BY <1>1, <1>3, <1>4, <1>6 DEF ErrorBody
<1> QED
  BY <1>1, <1>2, <1>5, <1>6 DEF Failing

\* A body that is an answer.
Answers(r) ==
    \E m \in Model \cup {MapModel(req[r].model)} :
        \E i, o \in TokenCount : BodyArrives(r, m, i, o)

LEMMA AnswersReturn ==
    ASSUME TypeOK, NEW r \in Request, Answers(r)
    PROVE  \E a \in Answer : Return(r, a) /\ stage[r] = "body"
<1>1. PICK m \in Model \cup {MapModel(req[r].model)} : \E i, o \in TokenCount : BodyArrives(r, m, i, o)
  BY DEF Answers
<1>2. PICK i \in TokenCount, o \in TokenCount : BodyArrives(r, m, i, o)
  BY <1>1
<1>3. [model |-> m, tokensIn |-> i, tokensOut |-> o] \in Answer
  BY DEF TypeOK, Answer
<1> QED
  BY <1>2, <1>3 DEF BodyArrives

\* A clock that has not run out may go on.
LEMMA Counted ==
    ASSUME NEW r \in Request, NEW n \in Nat, NEW f \in [Request -> 0..n], f[r] < n
    PROVE  [f EXCEPT ![r] = @ + 1] \in [Request -> 0..n]
OBVIOUS

\* Every step keeps the invariant: of the steps that are no failure, only an
\* answer touches more than the stage and the clock of the attempt.
LEMMA ProviderStep == ProviderInv /\ [Next]_vars => ProviderInv'
<1> SUFFICES ASSUME ProviderInv, [Next]_vars PROVE ProviderInv'
  OBVIOUS
<1>1. CASE \E r \in Request : Failing(r) /\ UNCHANGED given
  BY <1>1, FailingFails, FailStep
<1> USE WaitAssumption, IdleAssumption, TimeoutAssumption
       DEF ProviderInv, TypeOK, Stages, HttpClasses, ChainLeft, HeadersKnown, OutcomeFits, Busy,
           Goto, Begin, given
<1>2. ASSUME NEW r \in Request, Complete(r), UNCHANGED given PROVE ProviderInv'
  <2>1. errors[r] = <<>> /\ Len(errors[r]) < Len(Chain)
    BY <1>2, ChainLength DEF Complete
  <2> QED
    BY <1>2, <2>1 DEF Complete
<1>3. ASSUME NEW r \in Request, Fetch(r), UNCHANGED given PROVE ProviderInv'
  BY <1>3 DEF Fetch
<1>4. ASSUME NEW r \in Request, NEW h \in HttpClasses, HeadersArrive(r, h), UNCHANGED given
      PROVE  ProviderInv'
  BY <1>4 DEF HeadersArrive
<1>5. ASSUME NEW r \in Request, Answers(r), UNCHANGED given PROVE ProviderInv'
  <2>1. \E a \in Answer : Return(r, a) /\ stage[r] = "body"
    BY <1>5, AnswersReturn
  <2> QED
    BY <1>5, <2>1 DEF Return
<1>6. ASSUME NEW r \in Request, Tick(r), UNCHANGED given PROVE ProviderInv'
  <2>1. waited' \in [Request -> 0..LongestWait] /\ (stage[r] = "headers" => waited'[r] <= TimeoutMs)
    BY <1>6 DEF Tick
  <2>2. silent' \in [Request -> 0..IdleTimeout]
    <3>1. IdleTimeout \in Nat /\ silent \in [Request -> 0..IdleTimeout]
      OBVIOUS
    <3>2. CASE stage[r] = "headers"
      BY <1>6, <3>1, <3>2 DEF Tick
    <3>3. CASE stage[r] = "body"
      <4>1. silent[r] < IdleTimeout /\ silent' = [silent EXCEPT ![r] = @ + 1]
        BY <1>6, <3>3 DEF Tick
      <4> QED
        BY ONLY <3>1, <4>1, Counted, r \in Request
    <3> QED
      BY <1>6, <3>2, <3>3 DEF Tick
  <2> QED
    BY <1>6, <2>1, <2>2 DEF Tick
<1>9. ASSUME NEW r \in Request, Chunk(r), UNCHANGED given PROVE ProviderInv'
  BY <1>9 DEF Chunk
<1>7. CASE Crash /\ UNCHANGED given
  BY <1>7 DEF Crash
<1>8. CASE UNCHANGED vars
  BY <1>8 DEF vars
<1> QED
  BY <1>1, <1>2, <1>3, <1>4, <1>5, <1>6, <1>9, <1>7, <1>8
     DEF Next, Unaided, Network, Failing, Answers

LEMMA ProviderAlways == Spec => []ProviderInv
<1>1. QED
  BY ProviderInit, ProviderStep, PTL DEF Spec

\* Type correctness: stages, clocks, errors and outcomes stay in their types,
\* and no call ever collects more errors than the chain has entries.
THEOREM TypeCorrect == Spec => []TypeOK
<1>1. ProviderInv => TypeOK
  BY DEF ProviderInv
<1>2. QED
  BY <1>1, ProviderAlways, PTL
-----------------------------------------------------------------------------
\* The refinement mapping, of the two variables of the promise.
Failures == [r \in Request |-> Len(errors[r])]

LEMMA InitMaps == Init => Promise!Init
BY DEF Init, Promise!Init, PromisedOutcome, Busy

\* A failed attempt is the promise's next failure.
LEMMA FailMaps ==
    ASSUME ProviderInv, NEW r \in Request, stage[r] \in Busy, NEW e \in Error, Fail(r, e)
    PROVE  Promise!FailOne(r)
<1>1. errors[r] \in Seq(Error) /\ Len(errors[r]) \in Nat /\ errors \in [Request -> Seq(Error)]
  BY LenProperties DEF ProviderInv, TypeOK
<1>2. Len(Append(errors[r], e)) = Len(errors[r]) + 1
  BY <1>1, AppendProperties
<1>3. errors' = [errors EXCEPT ![r] = Append(errors[r], e)]
  BY DEF Fail
<1>4. Failures' = [Failures EXCEPT ![r] = Failures[r] + 1]
  BY <1>1, <1>2, <1>3 DEF Failures
<1>5. Failures'[r] = Len(errors[r]) + 1
  BY <1>1, <1>2, <1>3 DEF Failures
<1>6. PromisedOutcome[r] = "calling"
  BY DEF PromisedOutcome, Busy
<1>7. PromisedOutcome' =
        [PromisedOutcome EXCEPT ![r] = IF Len(errors[r]) + 1 = 3 THEN "unavailable" ELSE "calling"]
  <2>1. Len(errors[r]) < 3
    BY ChainLength DEF ProviderInv, ChainLeft
  <2>2. CASE Len(errors[r]) + 1 < 3
    <3>1. stage' = [stage EXCEPT ![r] = "start"] /\ UNCHANGED outcome
      BY <2>2, ChainLength DEF Fail, Begin, Goto
    <3>2. [PromisedOutcome EXCEPT ![r] = "calling"] = PromisedOutcome
      BY <1>6 DEF PromisedOutcome
    <3>3. PromisedOutcome' = PromisedOutcome
      BY <3>1 DEF PromisedOutcome, Busy, ProviderInv, TypeOK
    <3> QED
      BY <1>1, <2>2, <3>2, <3>3
  <2>3. CASE Len(errors[r]) + 1 = 3
    <3>1. stage' = [stage EXCEPT ![r] = "done"] /\ outcome' = [outcome EXCEPT ![r] = "unavailable"]
      BY <2>3, ChainLength DEF Fail, Begin, Goto
    <3> QED
      BY <2>3, <3>1 DEF PromisedOutcome, Busy, ProviderInv, TypeOK
  <2> QED
    BY <1>1, <2>1, <2>2, <2>3
<1>8. Len(Promise!Chain) = 3
  BY DEF Promise!Chain
<1> QED
  BY <1>4, <1>5, <1>6, <1>7, <1>8 DEF Promise!FailOne, Failures

\* An answer carries the status of the provider whose turn it was.
LEMMA AnswerMaps ==
    ASSUME ProviderInv, NEW r \in Request, NEW a \in Answer, Return(r, a), stage[r] = "body"
    PROVE  Promise!Answer(r)
<1>1. stage[r] \in Busy /\ UNCHANGED errors
  BY DEF Return, Busy
<1>2. stage' = [stage EXCEPT ![r] = "done"]
  BY DEF Return, Begin, Goto
<1>3. outcome' = [outcome EXCEPT ![r] = Promise!StatusOf(Promise!Chain[Failures[r] + 1])]
  BY DEF Return, Current, Chain, Promise!StatusOf, Promise!Fallback, Promise!Chain, Failures
<1>4. PromisedOutcome[r] = "calling"
  BY <1>1 DEF PromisedOutcome, Busy
<1>5. PromisedOutcome' =
        [PromisedOutcome EXCEPT ![r] = Promise!StatusOf(Promise!Chain[Failures[r] + 1])]
  BY <1>2, <1>3 DEF PromisedOutcome, Busy, ProviderInv, TypeOK
<1> QED
  BY <1>1, <1>4, <1>5 DEF Promise!Answer, Promise!Move, Failures

\* What happens inside an attempt is no step of the promise.
LEMMA WithinAttempt ==
    ASSUME ProviderInv, NEW r \in Request, NEW s \in Busy, stage[r] \in Busy,
           stage' = [stage EXCEPT ![r] = s], UNCHANGED <<errors, outcome>>
    PROVE  UNCHANGED Promise!promiseVars
BY DEF Promise!promiseVars, PromisedOutcome, Busy, ProviderInv, TypeOK

LEMMA StepMaps == ProviderInv /\ [Next]_vars => [Promise!Next]_(Promise!promiseVars)
<1> SUFFICES ASSUME ProviderInv, [Next]_vars PROVE [Promise!Next]_(Promise!promiseVars)
  OBVIOUS
<1>1. ASSUME NEW r \in Request, Failing(r) PROVE Promise!Next
  BY <1>1, FailingFails, FailMaps DEF Promise!Next
<1>2. ASSUME NEW r \in Request, Answers(r) PROVE Promise!Next
  BY <1>2, AnswersReturn, AnswerMaps DEF Promise!Next, ProviderInv
<1>3. ASSUME NEW r \in Request, Complete(r) PROVE Promise!Next
  <2>1. stage[r] = "idle" /\ stage' = [stage EXCEPT ![r] = "start"] /\ UNCHANGED <<errors, outcome>>
    BY <1>3 DEF Complete, Begin, Goto
  <2>2. PromisedOutcome[r] = "idle" /\ PromisedOutcome' = [PromisedOutcome EXCEPT ![r] = "calling"]
    BY <2>1 DEF PromisedOutcome, Busy, ProviderInv, TypeOK
  <2>3. Promise!Ask(r)
    BY <2>1, <2>2 DEF Promise!Ask, Promise!Move
  <2> QED
    BY <2>3 DEF Promise!Next
<1>4. ASSUME NEW r \in Request, Fetch(r) PROVE UNCHANGED Promise!promiseVars
  <2>1. stage[r] \in Busy /\ stage' = [stage EXCEPT ![r] = "headers"] /\ UNCHANGED <<errors, outcome>>
    BY <1>4 DEF Fetch, Begin, Goto, Busy
  <2> QED
    BY <2>1, WithinAttempt DEF Busy
<1>5. ASSUME NEW r \in Request, NEW h \in HttpClasses, HeadersArrive(r, h)
      PROVE  UNCHANGED Promise!promiseVars
  <2>1. stage[r] \in Busy /\ stage' = [stage EXCEPT ![r] = "body"] /\ UNCHANGED <<errors, outcome>>
    BY <1>5 DEF HeadersArrive, Goto, Busy
  <2> QED
    BY <2>1, WithinAttempt DEF Busy
<1>6. CASE UNCHANGED <<stage, errors, outcome>>
  BY <1>6 DEF Promise!promiseVars, PromisedOutcome
<1>7. CASE Crash
  <2>1. PromisedOutcome' =
          [r \in Request |-> IF PromisedOutcome[r] = "calling" THEN "dead" ELSE PromisedOutcome[r]]
    <3> SUFFICES ASSUME NEW r \in Request
                 PROVE  PromisedOutcome'[r] =
                            IF PromisedOutcome[r] = "calling" THEN "dead" ELSE PromisedOutcome[r]
      BY DEF PromisedOutcome
    <3>1. stage'[r] = (IF stage[r] \in Busy THEN "dead" ELSE stage[r]) /\ outcome'[r] = outcome[r]
      BY <1>7 DEF Crash
    <3>2. CASE stage[r] \in Busy
      BY <3>1, <3>2 DEF PromisedOutcome, Busy
    <3>3. CASE stage[r] \in {"idle", "dead"}
      BY <3>1, <3>3 DEF PromisedOutcome, Busy
    <3>4. CASE stage[r] = "done"
      BY <3>1, <3>4 DEF PromisedOutcome, Busy, ProviderInv, TypeOK
    <3> QED
      BY <3>2, <3>3, <3>4 DEF ProviderInv, TypeOK, Stages, Busy
  <2>2. Promise!Die
    BY <1>7, <2>1 DEF Crash, Promise!Die
  <2> QED
    BY <2>2 DEF Promise!Next
<1> QED
  BY <1>1, <1>2, <1>3, <1>4, <1>5, <1>6, <1>7 DEF Next, Unaided, Network, Failing, Answers, Tick,
                                                  Chunk, vars

\* The chain of attempts implements the promise: one provider after the other,
\* a status that names the one that answered, and 503 only after all failed.
THEOREM Refinement == Spec => ImplementsPromise
<1>1. QED
  BY InitMaps, StepMaps, ProviderAlways, PTL DEF Spec, ImplementsPromise, Promise!Spec
-----------------------------------------------------------------------------
\* No rate is so low that a token is rounded away.
LEMMA CostPositive ==
    ASSUME NEW model, NEW i \in Nat, NEW o \in Nat, NEW c \in EstimateCostInr(model, i, o)
    PROVE  c > 0 <=> i + o > 0
<1> DEFINE a == Rates(model)[1]
           b == Rates(model)[2]
           tokens == i * a + o * b
<1>1. a \in Nat /\ b \in Nat /\ a >= 50 /\ b >= 50
  BY DEF Rates
<1> HIDE DEF a, b
<1>2. i * a \in Nat /\ o * b \in Nat /\ tokens \in Nat
  BY <1>1
<1>3. i > 0 => i * a >= 50
  BY <1>1
<1>4. o > 0 => o * b >= 50
  BY <1>1
<1>5. i + o > 0 => tokens >= 50
  BY <1>2, <1>3, <1>4
<1>6. i + o = 0 => tokens = 0
  BY <1>1
<1> HIDE DEF tokens
<1>7. tokens >= 50 => tokens * UsdToInr >= 550
  BY <1>2, UsdAssumption
<1>8. tokens = 0 => tokens * UsdToInr = 0
  BY <1>2, UsdAssumption
<1>9. PICK half \in {499, 500} : c = (tokens * UsdToInr + half) \div 1000
  BY DEF EstimateCostInr, ExactCost, tokens, a, b
<1>10. tokens * UsdToInr \in Nat
  BY <1>2, UsdAssumption
<1> DEFINE exact == tokens * UsdToInr
<1>11. exact \in Nat /\ c = (exact + half) \div 1000 /\ (exact >= 550 => i + o > 0 \/ tokens # 0)
  BY <1>6, <1>8, <1>9, <1>10
<1>12. (i + o > 0 => exact >= 550) /\ (i + o = 0 => exact = 0)
  BY <1>5, <1>6, <1>7, <1>8
<1> HIDE DEF exact
<1>13. exact >= 550 => c > 0
  BY <1>11
<1>14. exact = 0 => c = 0
  BY <1>11
<1> QED
  BY <1>12, <1>13, <1>14

\* Only an answer has a result, ...
ResultIsAnswers ==
    \A r \in Request : result[r] # NoResult =>
        stage[r] = "done" /\ outcome[r] \in {"success", "fallback_used"}

LEMMA ResultStep == ProviderInv /\ ResultIsAnswers /\ [Next]_vars => ResultIsAnswers'
<1> SUFFICES ASSUME ProviderInv, ResultIsAnswers, [Next]_vars PROVE ResultIsAnswers'
  OBVIOUS
<1> USE DEF ResultIsAnswers, Goto, Begin
<1>1. ASSUME NEW r \in Request, Failing(r) PROVE ResultIsAnswers'
  <2>1. stage[r] \in Busy /\ \E e \in Error : Fail(r, e)
    BY <1>1, FailingFails
  <2> QED
    BY <2>1 DEF Fail, Busy, ProviderInv, TypeOK
<1>2. ASSUME NEW r \in Request, Answers(r) PROVE ResultIsAnswers'
  <2>1. \E a \in Answer : Return(r, a)
    BY <1>2, AnswersReturn DEF ProviderInv
  <2> QED
    BY <2>1 DEF Return, ProviderInv, TypeOK
<1>3. ASSUME NEW r \in Request, Complete(r) \/ Fetch(r) \/ Tick(r) \/ Chunk(r) \/ \E h \in HttpClasses : HeadersArrive(r, h)
      PROVE  ResultIsAnswers'
  BY <1>3 DEF Complete, Fetch, Tick, Chunk, HeadersArrive, ProviderInv, TypeOK
<1>4. CASE Crash
  BY <1>4 DEF Crash, Busy, ProviderInv, TypeOK
<1>5. CASE UNCHANGED vars
  BY <1>5 DEF vars
<1> QED
  BY <1>1, <1>2, <1>3, <1>4, <1>5 DEF Next, Unaided, Network, Failing, Answers

\* ... and what it costs is more than nothing if it used anything at all: for
\* all counts of tokens, every model and any exchange rate above ten.
THEOREM Charges == Spec => []CostFollowsUse
<1>1. ProviderInv /\ ResultIsAnswers => CostFollowsUse
  <2> SUFFICES ASSUME ProviderInv, ResultIsAnswers, NEW r \in Request,
                      NEW c \in EstimateCostInr(result[r].model, result[r].tokensIn, result[r].tokensOut)
               PROVE  /\ c > 0 <=> result[r].tokensIn + result[r].tokensOut > 0
                      /\ c > 0 => stage[r] = "done" /\ outcome[r] \in {"success", "fallback_used"}
    BY DEF CostFollowsUse
  <2>1. result[r].tokensIn \in Nat /\ result[r].tokensOut \in Nat
    <3>1. result[r] \in Answer \cup {NoResult}
      BY DEF ProviderInv, TypeOK
    <3>2. CASE result[r] = NoResult
      BY <3>2 DEF NoResult
    <3>3. CASE result[r] \in Answer
      <4>1. result[r].tokensIn \in TokenCount /\ result[r].tokensOut \in TokenCount
        BY <3>3 DEF Answer
      <4> QED
        BY <4>1, CountAssumption
    <3> QED
      BY <3>1, <3>2, <3>3
  <2>2. c > 0 <=> result[r].tokensIn + result[r].tokensOut > 0
    BY <2>1, CostPositive
  <2>3. result[r] = NoResult => ~(result[r].tokensIn + result[r].tokensOut > 0)
    BY DEF NoResult
  <2> QED
    BY <2>2, <2>3 DEF ResultIsAnswers
<1>2. Init => ResultIsAnswers
  BY DEF Init, ResultIsAnswers
<1>3. QED
  BY <1>1, <1>2, ResultStep, ProviderAlways, PTL DEF Spec
-----------------------------------------------------------------------------
(***************************************************************************)
(* What Array.filter returns: the messages at the positions P it selects,  *)
(* each at the place that counting P up to its position gives.             *)
(***************************************************************************)
\* The equation of Filter, for the positions P.
Selects(f, s, P, n) ==
    f = [i \in 0..n |-> IF i = 0 THEN <<>>
                        ELSE IF i \in P THEN Append(f[i - 1], s[i]) ELSE f[i - 1]]

Before(P, n) == P \cap (1..n)

\* It has a solution, one message longer at a time.
LEMMA SelectsExists ==
    ASSUME NEW s, NEW P, NEW m \in Nat
    PROVE  \E f : Selects(f, s, P, m)
<1> DEFINE N == {n \in Nat : \E f : Selects(f, s, P, n)}
<1>1. 0 \in N
  <2> DEFINE f == [i \in 0..0 |-> <<>>]
  <2>1. Selects(f, s, P, 0)
    BY DEF Selects
  <2> HIDE DEF f
  <2> QED
    BY <2>1
<1>2. ASSUME NEW n \in Nat, n \in N PROVE n + 1 \in N
  <2>1. PICK f : Selects(f, s, P, n)
    BY <1>2
  <2> DEFINE g == [i \in 0..n + 1 |-> IF i <= n THEN f[i]
                                      ELSE IF n + 1 \in P THEN Append(f[n], s[n + 1]) ELSE f[n]]
  <2>2. ASSUME NEW i \in 0..n + 1
        PROVE  g[i] = IF i = 0 THEN <<>> ELSE IF i \in P THEN Append(g[i - 1], s[i]) ELSE g[i - 1]
    <3>1. CASE i = 0
      <4>1. g[0] = f[0] /\ f[0] = <<>>
        BY <2>1 DEF Selects
      <4> QED
        BY <3>1, <4>1
    <3>2. CASE i \in 1..n
      <4>1. i \in 0..n /\ i - 1 \in 0..n /\ i # 0
        BY <3>2
      <4>2. g[i] = f[i] /\ g[i - 1] = f[i - 1]
        BY <4>1
      <4>3. f[i] = IF i \in P THEN Append(f[i - 1], s[i]) ELSE f[i - 1]
        BY <2>1, <4>1 DEF Selects
      <4> QED
        BY <4>1, <4>2, <4>3
    <3>3. CASE i = n + 1
      BY <3>3
    <3> QED
      BY <3>1, <3>2, <3>3
  <2>3. g = [i \in 0..n + 1 |-> g[i]]
    OBVIOUS
  <2> HIDE DEF g
  <2>4. Selects(g, s, P, n + 1)
    BY <2>2, <2>3 DEF Selects
  <2> QED
    BY <2>4
<1>3. \A n \in Nat : n \in N
  <2> HIDE DEF N
  <2> QED
    BY <1>1, <1>2, SetInduction
<1> QED
  BY <1>3

LEMMA BeforeStep ==
    ASSUME NEW n \in Nat, NEW P, P \subseteq Nat \ {0}
    PROVE  /\ IsFiniteSet(Before(P, n)) /\ Cardinality(Before(P, n)) \in Nat
           /\ Cardinality(Before(P, n + 1)) = Cardinality(Before(P, n)) + (IF n + 1 \in P THEN 1 ELSE 0)
           /\ Cardinality(Before(P, 0)) = 0
<1>1. ASSUME NEW i \in Nat PROVE IsFiniteSet(Before(P, i))
  <2>1. Before(P, i) \subseteq 1..i
    BY DEF Before
  <2> QED
    BY <2>1, FS_Interval, FS_Subset
<1>2. Cardinality(Before(P, n)) \in Nat
  BY <1>1, FS_CardinalityType
<1>3. Before(P, n + 1) = IF n + 1 \in P THEN Before(P, n) \cup {n + 1} ELSE Before(P, n)
  <2>1. 1..n + 1 = (1..n) \cup {n + 1}
    OBVIOUS
  <2> QED
    BY <2>1 DEF Before
<1>4. n + 1 \notin Before(P, n) /\ Before(P, 0) = {}
  <2>1. n + 1 \notin 1..n /\ 1..0 = {}
    OBVIOUS
  <2> QED
    BY <2>1 DEF Before
<1>5. Cardinality(Before(P, n) \cup {n + 1}) = Cardinality(Before(P, n)) + 1
  BY <1>1, <1>4, FS_AddElement
<1> QED
  BY <1>1, <1>2, <1>3, <1>4, <1>5, FS_EmptySet

\* out has the messages of s at P, in their order.
Placed(out, s, P, T) ==
    /\ out \in Seq(T)
    /\ Len(out) = Cardinality(P)
    /\ \A i \in P : Cardinality(Before(P, i)) \in 1..Len(out) /\ out[Cardinality(Before(P, i))] = s[i]

\* What a solution returns, message by message.
LEMMA SelectsPlaces ==
    ASSUME NEW T, NEW s \in Seq(T), NEW P, P \subseteq 1..Len(s), NEW f, Selects(f, s, P, Len(s))
    PROVE  Placed(f[Len(s)], s, P, T)
<1> DEFINE C(i) == Cardinality(Before(P, i))
           Good(n) == /\ f[n] \in Seq(T) /\ Len(f[n]) = C(n)
                      /\ \A i \in Before(P, n) : C(i) \in 1..C(n) /\ f[n][C(i)] = s[i]
           N == {n \in Nat : n <= Len(s) => Good(n)}
<1>0. Len(s) \in Nat /\ P \subseteq Nat \ {0}
  BY LenProperties
<1>1. 0 \in N
  <2>1. f[0] = <<>>
    BY <1>0 DEF Selects
  <2>2. Before(P, 0) = {} /\ C(0) = 0
    <3>1. 1..0 = {}
      OBVIOUS
    <3> QED
      BY <3>1, FS_EmptySet DEF Before
  <2> QED
    BY <2>1, <2>2, EmptySeq
<1>2. ASSUME NEW n \in Nat, n \in N PROVE n + 1 \in N
  <2> SUFFICES ASSUME n + 1 <= Len(s) PROVE Good(n + 1)
    OBVIOUS
  <2>1. Good(n)
    BY <1>0, <1>2
  <2>2. f[n + 1] = IF n + 1 \in P THEN Append(f[n], s[n + 1]) ELSE f[n]
    <3>1. n + 1 \in 0..Len(s) /\ n + 1 # 0 /\ (n + 1) - 1 = n
      BY <1>0
    <3> QED
      BY <3>1 DEF Selects
  <2>3. C(n) \in Nat /\ C(n + 1) = C(n) + (IF n + 1 \in P THEN 1 ELSE 0)
    BY <1>0, BeforeStep
  <2>0. 1..n + 1 = (1..n) \cup {n + 1}
    OBVIOUS
  <2>4. CASE n + 1 \notin P
    <3>1. Before(P, n + 1) = Before(P, n)
      BY <2>0, <2>4 DEF Before
    <3> QED
      BY <2>1, <2>2, <2>3, <2>4, <3>1
  <2>5. CASE n + 1 \in P
    <3>1. Before(P, n + 1) = Before(P, n) \cup {n + 1}
      BY <2>0, <2>5 DEF Before
    <3>2. s[n + 1] \in T
      BY <1>0, ElementOfSeq
    <3> HIDE DEF C
    <3>3. /\ f[n + 1] \in Seq(T) /\ Len(f[n + 1]) = C(n) + 1
          /\ (\A k \in 1..C(n) : f[n + 1][k] = f[n][k]) /\ f[n + 1][C(n) + 1] = s[n + 1]
      BY <2>1, <2>2, <2>3, <2>5, <3>2, AppendProperties
    <3>4. ASSUME NEW i \in Before(P, n + 1) PROVE C(i) \in 1..C(n + 1) /\ f[n + 1][C(i)] = s[i]
      <4>1. CASE i = n + 1
        BY <2>3, <2>5, <3>3, <4>1
      <4>2. CASE i \in Before(P, n)
        <5>1. C(i) \in 1..C(n) /\ f[n][C(i)] = s[i]
          BY <2>1, <4>2
        <5> QED
          BY <2>3, <2>5, <3>3, <5>1
      <4> QED
        BY <3>1, <3>4, <4>1, <4>2
    <3> QED
      BY <2>3, <2>5, <3>3, <3>4
  <2> QED
    BY <2>4, <2>5
<1>3. \A n \in Nat : n \in N
  <2> HIDE DEF N
  <2> QED
    BY <1>1, <1>2, SetInduction
<1>4. Good(Len(s))
  BY <1>0, <1>3
<1>5. Before(P, Len(s)) = P
  BY DEF Before
<1> QED
  BY <1>4, <1>5 DEF Placed

Message    == [role : STRING, content : Text]
TurnsOf(s)   == {i \in 1..Len(s) : IsInTurn(s[i])}
SystemsOf(s) == {i \in 1..Len(s) : IsSystem(s[i])}

\* Filter with each of the two tests: what SelectsPlaces says of the positions.
LEMMA TurnsPlaces ==
    ASSUME NEW s \in Seq(Message)
    PROVE  Placed(Filter(s, IsInTurn), s, TurnsOf(s), Message)
<1> DEFINE P == TurnsOf(s)
           A(f) == f = [n \in 0..Len(s) |-> IF n = 0 THEN <<>>
                           ELSE IF IsInTurn(s[n]) THEN Append(f[n - 1], s[n]) ELSE f[n - 1]]
           g == CHOOSE f : A(f)
<1>0. Len(s) \in Nat /\ P \subseteq 1..Len(s)
  BY LenProperties DEF TurnsOf
<1>1. ASSUME NEW f PROVE A(f) <=> Selects(f, s, P, Len(s))
  <2>1. \A n \in 0..Len(s) : n # 0 => (n \in P <=> IsInTurn(s[n]))
    BY <1>0 DEF TurnsOf
  <2> QED
    BY <2>1 DEF Selects
<1>2. Filter(s, IsInTurn) = g[Len(s)]
  BY DEF Filter
<1> HIDE DEF A, P
<1>3. A(g)
  BY <1>0, <1>1, SelectsExists
<1>4. Selects(g, s, P, Len(s))
  BY <1>1, <1>3
<1> QED
  BY <1>0, <1>2, <1>4, SelectsPlaces DEF P

LEMMA SystemsPlaces ==
    ASSUME NEW s \in Seq(Message)
    PROVE  Placed(Filter(s, IsSystem), s, SystemsOf(s), Message)
<1> DEFINE P == SystemsOf(s)
           A(f) == f = [n \in 0..Len(s) |-> IF n = 0 THEN <<>>
                           ELSE IF IsSystem(s[n]) THEN Append(f[n - 1], s[n]) ELSE f[n - 1]]
           g == CHOOSE f : A(f)
<1>0. Len(s) \in Nat /\ P \subseteq 1..Len(s)
  BY LenProperties DEF SystemsOf
<1>1. ASSUME NEW f PROVE A(f) <=> Selects(f, s, P, Len(s))
  <2>1. \A n \in 0..Len(s) : n # 0 => (n \in P <=> IsSystem(s[n]))
    BY <1>0 DEF SystemsOf
  <2> QED
    BY <2>1 DEF Selects
<1>2. Filter(s, IsSystem) = g[Len(s)]
  BY DEF Filter
<1> HIDE DEF A, P
<1>3. A(g)
  BY <1>0, <1>1, SelectsExists
<1>4. Selects(g, s, P, Len(s))
  BY <1>1, <1>3
<1> QED
  BY <1>0, <1>2, <1>4, SelectsPlaces DEF P

\* Every message is one or the other.
LEMMA TurnsAndSystems ==
    ASSUME NEW s \in Seq(Message)
    PROVE  /\ Cardinality(TurnsOf(s)) \in Nat /\ Cardinality(SystemsOf(s)) \in Nat
           /\ Cardinality(SystemsOf(s)) = Len(s) - Cardinality(TurnsOf(s))
<1>1. Len(s) \in Nat /\ IsFiniteSet(1..Len(s)) /\ Cardinality(1..Len(s)) = Len(s)
  <2>1. Len(s) \in Nat
    BY LenProperties
  <2>2. IsFiniteSet(1..Len(s)) /\ Cardinality(1..Len(s)) = IF 1 > Len(s) THEN 0 ELSE Len(s) - 1 + 1
    BY <2>1, FS_Interval
  <2> QED
    BY <2>1, <2>2
<1>2. TurnsOf(s) \subseteq 1..Len(s) /\ SystemsOf(s) \subseteq 1..Len(s)
  BY DEF TurnsOf, SystemsOf
<1>3. IsFiniteSet(TurnsOf(s)) /\ IsFiniteSet(SystemsOf(s))
  BY <1>1, <1>2, FS_Subset
<1>4. TurnsOf(s) \cup SystemsOf(s) = 1..Len(s) /\ TurnsOf(s) \cap SystemsOf(s) = {}
  BY DEF TurnsOf, SystemsOf, IsInTurn, IsSystem
<1>5. Cardinality(TurnsOf(s)) \in Nat /\ Cardinality(SystemsOf(s)) \in Nat /\ Cardinality({}) = 0
  BY <1>3, FS_CardinalityType, FS_EmptySet
<1>6. Cardinality(TurnsOf(s) \cup SystemsOf(s)) =
          Cardinality(TurnsOf(s)) + Cardinality(SystemsOf(s)) - Cardinality(TurnsOf(s) \cap SystemsOf(s))
  BY <1>3, FS_Union
<1>7. Len(s) = Cardinality(TurnsOf(s)) + Cardinality(SystemsOf(s))
  <2>1. Cardinality(TurnsOf(s) \cup SystemsOf(s)) = Len(s) /\ Cardinality(TurnsOf(s) \cap SystemsOf(s)) = 0
    BY <1>1, <1>4, <1>5
  <2> QED
    BY <1>5, <1>6, <2>1
<1> QED
  BY <1>1, <1>5, <1>7

\* What Carries counts, in the terms of the two lemmas.
LEMMA PositionsUpTo ==
    ASSUME NEW s \in Seq(Message)
    PROVE  /\ UpTo(s, IsInTurn, Len(s)) = TurnsOf(s)
           /\ UpTo(s, IsSystem, Len(s)) = SystemsOf(s)
           /\ \A i \in 1..Len(s) : /\ UpTo(s, IsInTurn, i) = Before(TurnsOf(s), i)
                                   /\ UpTo(s, IsSystem, i) = Before(SystemsOf(s), i)
<1>1. Len(s) \in Nat /\ DOMAIN s = 1..Len(s)
  BY LenProperties
<1> QED
  BY <1>1 DEF UpTo, TurnsOf, SystemsOf, Before

\* The form the adapter gives a conversation, whatever its length, roles and texts.
LEMMA ConversionCarries ==
    ASSUME NEW s \in Seq(Message)
    PROVE  Carries(ConvertMessages(s), s)
<1> DEFINE system   == Filter(s, IsSystem)
           turns    == Filter(s, IsInTurn)
           contents == [n \in DOMAIN turns |-> Content(turns[n])]
           begun    == contents # <<>> /\ contents[1].role = "model"
           sent     == IF begun THEN <<Continue>> \o contents ELSE contents
           texts    == [n \in DOMAIN system |-> system[n].content]
           said     == Cardinality(TurnsOf(s))
           more     == IF begun THEN 1 ELSE 0
           Turn     == [role : {"user", "model"}, text : Text \cup {"(continue)"}]
<1>1. ConvertMessages(s) = [systemInstruction |-> texts, contents |-> sent]
  BY DEF ConvertMessages
<1>2. turns \in Seq(Message) /\ Len(turns) = said /\ said \in Nat /\ DOMAIN turns = 1..said
  BY TurnsPlaces, TurnsAndSystems, LenProperties DEF Placed
<1>3. /\ system \in Seq(Message) /\ Len(system) = Len(s) - said /\ Len(system) \in Nat
      /\ DOMAIN system = 1..Len(system)
  BY SystemsPlaces, TurnsAndSystems, LenProperties DEF Placed
<1>4. contents \in Seq(Turn) /\ Len(contents) = said
  <2>1. \A n \in 1..said : turns[n] \in Message
    BY <1>2, ElementOfSeq
  <2>2. \A n \in 1..said : Content(turns[n]) \in Turn
    BY <2>1 DEF Content, Message
  <2> HIDE DEF turns, said, Turn
  <2> QED
    BY <1>2, <2>2
<1>5. <<Continue>> \in Seq(Turn) /\ Len(<<Continue>>) = 1 /\ <<Continue>>[1] = Continue
  BY DEF Continue
<1> HIDE DEF Turn
<1>6. /\ sent \in Seq(Turn) /\ Len(sent) = said + more
      /\ \A n \in 1..said : sent[more + n] = contents[n]
      /\ begun => sent[1] = Continue
  <2> HIDE DEF contents, said
  <2>1. CASE begun
    <3>1. /\ sent \in Seq(Turn) /\ Len(sent) = 1 + said
          /\ \A n \in 1..1 + said : sent[n] = IF n <= 1 THEN <<Continue>>[n] ELSE contents[n - 1]
      BY <1>2, <1>4, <1>5, <2>1, ConcatProperties
    <3> HIDE DEF sent
    <3>2. \A n \in 1..said : 1 + n \in 1..1 + said /\ ~(1 + n <= 1) /\ (1 + n) - 1 = n
      BY <1>2
    <3>3. 1 \in 1..1 + said
      BY <1>2
    <3> QED
      BY <1>2, <1>5, <2>1, <3>1, <3>2, <3>3
  <2>2. CASE ~begun
    BY <1>2, <1>4, <2>2
  <2> QED
    BY <2>1, <2>2
<1>7. sent # <<>> => sent[1].role = "user"
  <2>1. CASE begun
    BY <1>6, <2>1 DEF Continue
  <2>2. CASE ~begun /\ contents # <<>>
    <3>1. 1 \in 1..said
      <4> HIDE DEF contents, said
      <4> QED
        BY <1>2, <1>4, <2>2, EmptySeq
    <3>2. contents[1].role \in {"user", "model"}
      BY <1>2, <3>1 DEF Content
    <3> QED
      BY <2>2, <3>2
  <2> QED
    BY <2>1, <2>2
<1>8. ASSUME NEW i \in TurnsOf(s)
      PROVE  LET turn == sent[more + Cardinality(Before(TurnsOf(s), i))] IN
             /\ turn.text = s[i].content
             /\ (turn.role = "model") <=> (s[i].role = "assistant")
  <2> DEFINE n == Cardinality(Before(TurnsOf(s), i))
  <2>1. n \in 1..said /\ turns[n] = s[i]
    BY <1>2, TurnsPlaces DEF Placed
  <2> HIDE DEF n
  <2>2. sent[more + n] = contents[n]
    BY <1>6, <2>1
  <2>3. contents[n] = Content(s[i])
    BY <1>2, <2>1
  <2> HIDE DEF sent, contents, more
  <2>4. /\ sent[more + n].text = s[i].content
        /\ (sent[more + n].role = "model") <=> (s[i].role = "assistant")
    BY <2>2, <2>3 DEF Content
  <2> QED
    BY <2>4 DEF n
<1>9. Len(texts) = Len(s) - said /\ \A i \in SystemsOf(s) : texts[Cardinality(Before(SystemsOf(s), i))] = s[i].content
  <2>1. Len(texts) = Len(system)
    <3> HIDE DEF system
    <3> QED
      BY <1>3
  <2>2. ASSUME NEW i \in SystemsOf(s) PROVE texts[Cardinality(Before(SystemsOf(s), i))] = s[i].content
    <3>1. /\ Cardinality(Before(SystemsOf(s), i)) \in DOMAIN system
          /\ system[Cardinality(Before(SystemsOf(s), i))] = s[i]
      BY <1>3, SystemsPlaces DEF Placed
    <3> QED
      BY <3>1
  <2> QED
    BY <1>3, <2>1, <2>2
<1>10. Len(sent) - said = more /\ more \in {0, 1} /\ (more = 1 => sent[1] = Continue)
  BY <1>2, <1>6
<1>11. \A i \in TurnsOf(s) : UpTo(s, IsInTurn, i) = Before(TurnsOf(s), i)
  BY PositionsUpTo DEF TurnsOf
<1>12. \A i \in SystemsOf(s) : UpTo(s, IsSystem, i) = Before(SystemsOf(s), i)
  BY PositionsUpTo DEF SystemsOf
<1> HIDE DEF sent, texts, more, said
<1>13. ConvertMessages(s).contents = sent /\ ConvertMessages(s).systemInstruction = texts
  BY <1>1
<1> QED
  BY <1>7, <1>8, <1>9, <1>10, <1>11, <1>12, <1>13, PositionsUpTo DEF Carries, said

\* Gemini is asked what Groq was asked, for conversations of any length.
THEOREM AsksAreTheSame == Spec => []AsksTheSame
<1>1. TypeOK => AsksTheSame
  <2> SUFFICES ASSUME TypeOK, NEW r \in Request PROVE Carries(SentToGemini(r), req[r].messages)
    BY DEF AsksTheSame
  <2>1. req[r].messages \in Seq(Message)
    BY AsksAssumption DEF TypeOK, Message
  <2> QED
    BY <2>1, ConversionCarries DEF SentToGemini
<1>2. QED
  BY <1>1, TypeCorrect, PTL
=============================================================================
