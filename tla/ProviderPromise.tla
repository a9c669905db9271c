--------------------------- MODULE ProviderPromise ---------------------------
(***************************************************************************)
(* What ProviderService promises its caller: providers are asked in the    *)
(* order of Chain, one at a time, each only after the one before failed;   *)
(* the first answer is the outcome, labelled by the provider that gave it, *)
(* and only when the whole chain has failed is the call unavailable.       *)
(***************************************************************************)
EXTENDS Integers, Sequences

CONSTANT Request

VARIABLES
    outcome,   \* per request: "idle", "calling", then how the call ended
    failures   \* per request: how many entries of Chain have failed

promiseVars == <<outcome, failures>>

Chain == <<"groq", "groq", "gemini">>

Fallback == "gemini"

\* status of the normalized response: which provider answered.
StatusOf(p) == IF p = Fallback THEN "fallback_used" ELSE "success"

Init ==
    /\ outcome = [r \in Request |-> "idle"]
    /\ failures = [r \in Request |-> 0]

Move(r, from, to) == outcome[r] = from /\ outcome' = [outcome EXCEPT ![r] = to]

Ask(r) ==
    /\ Move(r, "idle", "calling")
    /\ UNCHANGED failures

FailOne(r) ==
    /\ outcome[r] = "calling"
    /\ failures' = [failures EXCEPT ![r] = @ + 1]
    /\ outcome' = [outcome EXCEPT ![r] =
                      IF failures'[r] = Len(Chain) THEN "unavailable" ELSE @]

Answer(r) ==
    /\ Move(r, "calling", StatusOf(Chain[failures[r] + 1]))
    /\ UNCHANGED failures

\* The process dies with all calls in progress.
Die ==
    /\ outcome' = [r \in Request |-> IF outcome[r] = "calling" THEN "dead" ELSE outcome[r]]
    /\ UNCHANGED failures

Next ==
    \/ \E r \in Request : Ask(r) \/ FailOne(r) \/ Answer(r)
    \/ Die

Spec == Init /\ [][Next]_promiseVars
=============================================================================
