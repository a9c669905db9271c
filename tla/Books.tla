-------------------------------- MODULE Books --------------------------------
(***************************************************************************)
(* What the accounting of served calls promises, whichever way its jobs    *)
(* fail and are run again: the call is logged before it is charged, never  *)
(* charged more often than it is logged, and never closed (its job         *)
(* completed) with a row or a charge missing.                              *)
(***************************************************************************)
EXTENDS Integers

CONSTANTS
    Job,      \* one job per served call
    Increment \* what a call may cost in units of its key's budget

ASSUME IncrementAssumption == Increment \subseteq Nat

VARIABLES
    due,      \* the increment of budget_used that each call is worth
    rows,     \* its usage_logs rows
    charges,  \* its increments of virtual_keys.budget_used
    closed    \* the calls whose job is completed

booksVars == <<due, rows, charges, closed>>

BooksInit ==
    /\ due \in [Job -> Increment]
    /\ rows = [j \in Job |-> 0]
    /\ charges = [j \in Job |-> 0]
    /\ closed = {}

\* A call was served, and its job carries what it used.
Serve(j) ==
    /\ rows[j] = 0
    /\ \E u \in Increment : due' = [due EXCEPT ![j] = u]
    /\ UNCHANGED <<rows, charges, closed>>

\* One more row for the call.
Log(j) ==
    /\ rows' = [rows EXCEPT ![j] = @ + 1]
    /\ UNCHANGED <<due, charges, closed>>

\* Mutant: the charge is written first.
ChargeUnlogged(j) ==
    /\ due[j] > 0
    /\ charges[j] <= rows[j]
    /\ charges' = [charges EXCEPT ![j] = @ + 1]
    /\ UNCHANGED <<due, rows, closed>>

\* One more charge for the call, which one of its rows accounts for.
Charge(j) ==
    /\ due[j] > 0
    /\ charges[j] < rows[j]
    /\ charges' = [charges EXCEPT ![j] = @ + 1]
    /\ UNCHANGED <<due, rows, closed>>

\* The job of the call is completed.
Close(j) ==
    /\ rows[j] >= 1
    /\ due[j] > 0 => charges[j] >= 1
    /\ closed' = closed \cup {j}
    /\ UNCHANGED <<due, rows, charges>>

\* Redis forgets that it was.
Reopen(j) ==
    /\ closed' = closed \ {j}
    /\ UNCHANGED <<due, rows, charges>>

BooksNext == \E j \in Job : Serve(j) \/ Log(j) \/ Charge(j) \/ Close(j) \/ Reopen(j)

BooksSpec == BooksInit /\ [][BooksNext]_booksVars
=============================================================================
