----------------------------- MODULE BudgetGate -----------------------------
(***************************************************************************)
(* What the budget check promises, as one atomic decision per request      *)
(* against an exact ledger: a call is admitted if the units counted for    *)
(* its key are below the limit and refused otherwise, and an admitted call *)
(* of a "requests" key is counted in the same step.  Two things may make   *)
(* the count differ from what was used: units forgotten (Forgive) and      *)
(* units counted twice (Overcount).                                        *)
(***************************************************************************)
EXTENDS Integers

CONSTANTS Request, Key, KeyOf, BudgetType, Limit

VARIABLES
    decision,  \* per request: "open", then "admitted", "refused" or "dropped"
    used,      \* per key: units used by admitted calls
    lost,      \* per key: units used but forgotten
    wasted     \* per key: units counted but not used

gateVars == <<decision, used, lost, wasted>>

Count(k) == used[k] + wasted[k] - lost[k]

IsCounted(k) == BudgetType[k] = "requests"

Decide(r, d) == decision[r] = "open" /\ decision' = [decision EXCEPT ![r] = d]

Init ==
    /\ decision = [r \in Request |-> "open"]
    /\ used = [k \in Key |-> 0]
    /\ lost = [k \in Key |-> 0]
    /\ wasted = [k \in Key |-> 0]

Admit(r) ==
    /\ Decide(r, "admitted")
    /\ Count(KeyOf[r]) < Limit[KeyOf[r]]
    /\ used' = IF IsCounted(KeyOf[r]) THEN [used EXCEPT ![KeyOf[r]] = @ + 1] ELSE used
    /\ UNCHANGED <<lost, wasted>>

Refuse(r) ==
    /\ Decide(r, "refused")
    /\ Count(KeyOf[r]) >= Limit[KeyOf[r]]
    /\ UNCHANGED <<used, lost, wasted>>

\* f grows at k only, by n units.
Grows(f, g, k, n) == n \in Nat /\ g = [f EXCEPT ![k] = @ + n]

\* The units of a metered call are known, and counted, after the call.
Charge(k) ==
    /\ ~IsCounted(k)
    /\ Grows(used, used', k, used'[k] - used[k])
    /\ UNCHANGED <<decision, lost, wasted>>

Forgive(k) ==
    /\ lost'[k] - lost[k] <= Count(k)
    /\ Grows(lost, lost', k, lost'[k] - lost[k])
    /\ UNCHANGED <<decision, used, wasted>>

\* Also a unit counted twice stays within the limit of a "requests" key.
Overcount(k) ==
    /\ IsCounted(k) => Count(k)' <= Limit[k]
    /\ Grows(wasted, wasted', k, wasted'[k] - wasted[k])
    /\ UNCHANGED <<decision, used, lost>>

\* Requests that end without a decision: their process dies, or the check fails.
Drop ==
    /\ \E S \in SUBSET Request :
          decision' = [r \in Request |->
              IF r \in S /\ decision[r] = "open" THEN "dropped" ELSE decision[r]]
    /\ UNCHANGED <<used, lost, wasted>>

Next ==
    \/ \E r \in Request : Admit(r) \/ Refuse(r)
    \/ \E k \in Key : Charge(k) \/ Forgive(k) \/ Overcount(k)
    \/ Drop

Spec == Init /\ [][Next]_gateVars
=============================================================================
