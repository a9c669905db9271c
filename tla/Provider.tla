------------------------------ MODULE Provider ------------------------------
(***************************************************************************)
(* ProviderService.complete and the two adapters it calls: Groq, Groq      *)
(* again, then Gemini, each call with a timer that aborts its fetch.       *)
(*                                                                         *)
(* fetch resolves when the response headers arrive; the adapters clear the *)
(* timer there and read the body without one.  What is left is the HTTP    *)
(* client's own idle timeout, which every chunk of a body starts again.    *)
(* An adapter whose API key is not configured throws a plain Error, which  *)
(* has no provider field.  Time is counted in ticks per attempt.           *)
(*                                                                         *)
(* What the adapters send, and what the gateway charges for an answer, is  *)
(* computed by the operators of module Conversion.                         *)
(***************************************************************************)
EXTENDS Conversion, FiniteSets

CONSTANTS
    Request,     \* calls of complete
    Asks,        \* bound: what they ask, [model, messages]
    Text,        \* what a message may say
    Model,       \* bound: what Groq may call the model that answered
    TokenCount,  \* bound: what a provider may say it used, 0 if it says nothing
    TimeoutMs,   \* app.providers.timeoutMs, in ticks
    IdleTimeout, \* ticks of silence after which the HTTP client gives a body up
    LongestWait  \* bound: the clock of an attempt stops counting here

Provs == {"groq", "gemini"}

ASSUME TimeoutAssumption == TimeoutMs \in Nat \ {0}
ASSUME IdleAssumption    == IdleTimeout \in Nat \ {0}
ASSUME WaitAssumption    == LongestWait \in Nat /\ LongestWait >= TimeoutMs
ASSUME AsksAssumption == \A ask \in Asks : ask.messages \in Seq([role : STRING, content : Text])
ASSUME CountAssumption    == TokenCount \subseteq Nat

VARIABLES
    stage,    \* "idle", or where the current attempt stands, or "done"/"dead"
    http,     \* the status class of the headers that have arrived
    waited,   \* ticks since the current fetch began, up to LongestWait
    silent,   \* ticks since the last chunk of the body being read
    errors,   \* the errors collected, one per failed attempt
    hasKey,   \* which providers have an API key in the environment
    req,      \* what each call asks
    outcome,  \* "none", the status returned, or "unavailable" (503 thrown)
    result    \* the model and the tokens returned with it, or NoResult

given == <<hasKey, req>>
vars == <<stage, http, waited, silent, errors, given, outcome, result>>

HttpClasses == {"ok", "4xx", "5xx"}
ErrorKinds  == {"unconfigured", "timeout", "network", "malformed", "4xx", "5xx"}

\* A ProviderError, or the plain Error of an adapter without a key.
Undefined == "undefined"
Error == [provider : Provs \cup {Undefined}, kind : ErrorKinds]

Answer   == [ model : Model \cup {MapModel(ask.model) : ask \in Asks},
              tokensIn : TokenCount, tokensOut : TokenCount ]
NoResult == [model |-> "none", tokensIn |-> 0, tokensOut |-> 0]

Stages == {"idle", "start", "headers", "body", "done", "dead"}
Busy   == {"start", "headers", "body"}

\* complete() tries Groq, Groq again and Gemini, one error per failure.
Chain == <<"groq", "groq", "gemini">>
Current(r) == Chain[Len(errors[r]) + 1]

TypeOK ==
    /\ stage \in [Request -> Stages]
    /\ http \in [Request -> HttpClasses \cup {"none"}]
    /\ waited \in [Request -> 0..LongestWait]
    /\ silent \in [Request -> 0..IdleTimeout]
    /\ errors \in [Request -> Seq(Error)]
    /\ \A r \in Request : Len(errors[r]) <= Len(Chain)
    /\ hasKey \in [Provs -> BOOLEAN]
    /\ req \in [Request -> Asks]
    /\ outcome \in [Request -> {"none", "success", "fallback_used", "unavailable"}]
    /\ result \in [Request -> Answer \cup {NoResult}]

Init ==
    /\ stage = [r \in Request |-> "idle"]
    /\ http = [r \in Request |-> "none"]
    /\ waited = [r \in Request |-> 0]
    /\ silent = [r \in Request |-> 0]
    /\ errors = [r \in Request |-> <<>>]
    /\ hasKey \in [Provs -> BOOLEAN]
    /\ req \in [Request -> Asks]
    /\ outcome = [r \in Request |-> "none"]
    /\ result = [r \in Request |-> NoResult]
-----------------------------------------------------------------------------
Goto(r, s) == stage' = [stage EXCEPT ![r] = s]

Begin(r, s) ==
    /\ Goto(r, s)
    /\ http' = [http EXCEPT ![r] = "none"]
    /\ waited' = [waited EXCEPT ![r] = 0]
    /\ silent' = [silent EXCEPT ![r] = 0]

\* The catch blocks of complete(): collect the error; then the next attempt,
\* or, after the last, the 503.
Fail(r, e) ==
    /\ errors' = [errors EXCEPT ![r] = Append(@, e)]
    /\ IF Len(errors[r]) + 1 < Len(Chain)
       THEN Begin(r, "start") /\ UNCHANGED outcome
       ELSE Begin(r, "done") /\ outcome' = [outcome EXCEPT ![r] = "unavailable"]
    /\ UNCHANGED result

FailWith(r, kind) == Fail(r, [provider |-> Current(r), kind |-> kind])

\* Mutant: one status for every provider.
ReturnSuccess(r, answer) ==
    /\ Begin(r, "done")
    /\ outcome' = [outcome EXCEPT ![r] = "success"]
    /\ result' = [result EXCEPT ![r] = answer]
    /\ UNCHANGED errors

\* { ...result, status }: the status is set per attempt.
Return(r, answer) ==
    /\ Begin(r, "done")
    /\ outcome' = [outcome EXCEPT ![r] =
                     IF Current(r) = "gemini" THEN "fallback_used" ELSE "success"]
    /\ result' = [result EXCEPT ![r] = answer]
    /\ UNCHANGED errors

\* What the Gemini adapter sends while it is its turn.
SentToGemini(r) == ConvertMessages(req[r].messages)

Complete(r) ==
    /\ stage[r] = "idle"
    /\ Begin(r, "start")
    /\ UNCHANGED <<errors, outcome, result>>

\* The adapter: without a key it throws before its try block.
Unconfigured(r) ==
    /\ stage[r] = "start"
    /\ ~hasKey[Current(r)]
    /\ Fail(r, [provider |-> Undefined, kind |-> "unconfigured"])

\* setTimeout and fetch, of the request as it is (Groq) or of what Conversion
\* makes of it (Gemini, see SentToGemini).
Fetch(r) ==
    /\ stage[r] = "start"
    /\ hasKey[Current(r)]
    /\ Begin(r, "headers")
    /\ UNCHANGED <<errors, outcome, result>>

\* fetch resolves and clears the timer, perhaps at the last moment.
HeadersArrive(r, h) ==
    /\ stage[r] = "headers"
    /\ http' = [http EXCEPT ![r] = h]
    /\ Goto(r, "body")
    /\ UNCHANGED <<waited, silent, errors, outcome, result>>

\* Mutant: no timer on the retry and the fallback.
TimerFiresFirstOnly(r) ==
    /\ stage[r] = "headers"
    /\ waited[r] = TimeoutMs
    /\ Len(errors[r]) = 0
    /\ FailWith(r, "timeout")

\* The timer aborts the fetch: an AbortError, reported as a timeout.
TimerFires(r) ==
    /\ stage[r] = "headers"
    /\ waited[r] = TimeoutMs
    /\ FailWith(r, "timeout")

\* response.json() succeeds: Groq may name the model, and either may leave out
\* how many tokens it used, ...
BodyArrives(r, model, tokensIn, tokensOut) ==
    /\ stage[r] = "body"
    /\ http[r] = "ok"
    /\ Current(r) = "gemini" => model = MapModel(req[r].model)
    /\ Return(r, [model |-> model, tokensIn |-> tokensIn, tokensOut |-> tokensOut])

\* ... is not JSON, or (Gemini) has no candidates, ...
BodyMalformed(r) ==
    /\ stage[r] = "body"
    /\ http[r] = "ok"
    /\ FailWith(r, "malformed")

\* ... or, for an error status, its text is read, whatever it is.
ErrorBody(r) ==
    /\ stage[r] = "body"
    /\ http[r] # "ok"
    /\ FailWith(r, http[r])

\* The connection breaks, or the HTTP client gives up on the body.
NetworkError(r) ==
    /\ stage[r] = "headers" \/ (stage[r] = "body" /\ http[r] = "ok")
    /\ FailWith(r, "network")

\* More of the body, not yet its end.
Chunk(r) ==
    /\ stage[r] = "body"
    /\ silent[r] > 0
    /\ silent' = [silent EXCEPT ![r] = 0]
    /\ UNCHANGED <<stage, http, waited, errors, outcome, result>>

\* Time passes for r: with the timer armed no further than the timeout, and in
\* a body no further than the client waits for the next chunk.
Tick(r) ==
    /\ \/ /\ stage[r] = "headers"
          /\ waited[r] < TimeoutMs
          /\ UNCHANGED silent
       \/ /\ stage[r] = "body"
          /\ silent[r] < IdleTimeout
          /\ silent' = [silent EXCEPT ![r] = @ + 1]
    /\ waited' = [waited EXCEPT ![r] = IF @ < LongestWait THEN @ + 1 ELSE @]
    /\ UNCHANGED <<stage, http, errors, outcome, result>>

Crash ==
    /\ \E r \in Request : stage[r] \in Busy
    /\ stage' = [r \in Request |-> IF stage[r] \in Busy THEN "dead" ELSE stage[r]]
    /\ UNCHANGED <<http, waited, silent, errors, outcome, result>>
-----------------------------------------------------------------------------
\* What must happen without any help of the provider.
Unaided(r) ==
    \/ Unconfigured(r)
    \/ Fetch(r)
    \/ TimerFires(r)
    \/ Tick(r)

\* What the provider and the network may do.
Network(r) ==
    \/ \E h \in HttpClasses : HeadersArrive(r, h)
    \/ \E m \in Model \cup {MapModel(req[r].model)} : \E i, o \in TokenCount : BodyArrives(r, m, i, o)
    \/ Chunk(r)
    \/ BodyMalformed(r)
    \/ ErrorBody(r)
    \/ NetworkError(r)

\* After IdleTimeout without a chunk the HTTP client breaks the connection: the
\* body read ends, as an error status or as a network error.
BodyEnds(r) == silent[r] = IdleTimeout /\ (ErrorBody(r) \/ NetworkError(r))

Next ==
    /\ \/ \E r \in Request : Complete(r) \/ Unaided(r) \/ Network(r)
       \/ Crash
    /\ UNCHANGED given

Spec == Init /\ [][Next]_vars

\* The adapters' timer and the client's idle timeout are the only help assumed:
\* a provider need do nothing, and may send a body chunk by chunk for ever.
Fairness ==
    \A r \in Request : WF_vars((Unaided(r) \/ BodyEnds(r)) /\ UNCHANGED given)

FairSpec == Spec /\ Fairness
-----------------------------------------------------------------------------
(***************************************************************************)
(* Properties.                                                             *)
(***************************************************************************)

\* The refinement mapping: how the promise sees a call.
PromisedOutcome ==
    [r \in Request |-> CASE stage[r] \in Busy -> "calling"
                         [] stage[r] = "done" -> outcome[r]
                         [] OTHER             -> stage[r]]

Promise == INSTANCE ProviderPromise WITH
    outcome  <- PromisedOutcome,
    failures <- [r \in Request |-> Len(errors[r])]

\* The chain of attempts, with every way a timer, a status, a body and the
\* network can fail it, implements the policy: one provider after the other,
\* Gemini only after two failures of Groq, unavailable only after three, and
\* the status names the provider whose answer is returned.
ImplementsPromise == Promise!Spec

\* A call ends, unless the process dies or a body keeps coming, chunk by chunk,
\* for ever: that is the one wait the code leaves open (the timer is cleared when
\* the headers arrive).  A provider that never answers, stops in the middle of a
\* body or fails in any other way, at any attempt, delays the caller and no more.
CallsEnd ==
    \A r \in Request :
        \/ []<><<Chunk(r)>>_vars
        \/ stage[r] = "start" ~> stage[r] \in {"done", "dead"}

\* The positions of the messages that IsOf selects, up to position n.
UpTo(messages, IsOf(_), n) == {i \in DOMAIN messages : i <= n /\ IsOf(messages[i])}

\* The fallback is asked what Groq was asked: the texts of the conversation, all
\* of them, once, in their order and by the same speaker; its system messages in
\* their order in a place of their own; and a user speaks first.
Carries(sent, messages) ==
    LET all  == Len(messages)
        said == Cardinality(UpTo(messages, IsInTurn, all))
        more == Len(sent.contents) - said
    IN  /\ more \in {0, 1}
        /\ more = 1 => sent.contents[1] = Continue
        /\ sent.contents # <<>> => sent.contents[1].role = "user"
        /\ \A i \in UpTo(messages, IsInTurn, all) :
               LET turn == sent.contents[more + Cardinality(UpTo(messages, IsInTurn, i))] IN
               /\ turn.text = messages[i].content
               /\ (turn.role = "model") <=> (messages[i].role = "assistant")
        /\ Len(sent.systemInstruction) = all - said
        /\ \A i \in UpTo(messages, IsSystem, all) :
               sent.systemInstruction[Cardinality(UpTo(messages, IsSystem, i))] = messages[i].content

\* Whatever Groq has done with a call by then, Gemini is asked the same.
AsksTheSame ==
    \A r \in Request :
        (stage[r] \in {"headers", "body"} /\ Current(r) = "gemini") =>
            Carries(SentToGemini(r), req[r].messages)

\* An answer for which the provider reports any token has a cost, and only such
\* an answer has: rounding makes no call free, whichever provider and model
\* answered; a call that was not answered costs nothing.
CostFollowsUse ==
    \A r \in Request :
        LET a == result[r] IN
        \A c \in EstimateCostInr(a.model, a.tokensIn, a.tokensOut) :
            /\ c > 0 <=> a.tokensIn + a.tokensOut > 0
            /\ c > 0 => stage[r] = "done" /\ outcome[r] \in {"success", "fallback_used"}

\* provider.service.ts: "Call Groq (primary), 8s timeout".  No attempt takes
\* longer than the timeout.
AttemptWithinTimeout == \A r \in Request : waited[r] <= TimeoutMs
=============================================================================
