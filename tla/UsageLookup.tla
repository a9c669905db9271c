----------------------------- MODULE UsageLookup -----------------------------
(***************************************************************************)
(* Looking up the usage of a virtual key: the page app/usage, and GET      *)
(* /usage, which reads the key's row (with its budget_used) and then its   *)
(* last usage_logs rows, in two queries, while the worker writes both.     *)
(* The worker is module Books, which UsageWorker implements.               *)
(*                                                                         *)
(* The page does not number its lookups: whatever reply arrives is shown.  *)
(***************************************************************************)
EXTENDS Books, Sequences, FiniteSets, Functions

CONSTANTS
    Key,        \* the virtual keys there are
    Unknown,    \* a text that names none of them
    KeyOf,      \* the key of each served call
    Urls,       \* bound: the keys the page's URL may have, None for no key
    None,
    PageSize,   \* the 50 rows of a report
    MaxRows,    \* bound: rows of a call
    MaxLookups  \* bound: lookups of the page

ASSUME JobAssumption   == IsFiniteSet(Job)
ASSUME KeyAssumption   == Unknown \notin Key /\ None \notin Key \cup {Unknown}
ASSUME KeyOfAssumption == KeyOf \in [Job -> Key]
ASSUME UrlAssumption   == Urls \subseteq Key \cup {Unknown, None}
ASSUME PageAssumption  == PageSize \in Nat \ {0} /\ MaxRows \in Nat /\ MaxLookups \in Nat

VARIABLES
    url,      \* the ?key= or ?id= of the page's URL, or None
    input,    \* the text in the search box
    loading,  \* is the spinner shown and the button disabled?
    error,    \* the text whose lookup the error banner is about, or None
    data,     \* the report shown, or NoReport
    lookups,  \* the page's requests, in the order it sent them
    quiet     \* history: how many there were when none was last under way

pageVars == <<url, input, loading, error, data>>
vars == <<booksVars, pageVars, lookups, quiet>>

Text     == Key \cup {Unknown}
NoReport == [key |-> None, used |-> 0, total |-> 0, listed |-> 0]
Report   == [key : Key \cup {None}, used : Nat, total : 0..PageSize, listed : Nat]
Stages   == {"key", "rows", "found", "missing", "failed", "done"}

\* The panels of the page: error, report, and "No key found".
ShowsError   == error # None
ShowsReport  == data # NoReport
ShowsNothing == lookups # <<>> /\ ~loading /\ ~ShowsError /\ ~ShowsReport

UnderWay == {i \in DOMAIN lookups : lookups[i].stage # "done"}

TypeOK ==
    /\ due \in [Job -> Increment]
    /\ rows \in [Job -> Nat]
    /\ charges \in [Job -> Nat]
    /\ closed \subseteq Job
    /\ url \in Urls
    /\ input \in Text \cup {None}
    /\ loading \in BOOLEAN
    /\ error \in Text \cup {None}
    /\ data \in Report
    /\ lookups \in Seq([text : Text, stage : Stages, report : Report])
    /\ quiet \in 0..Len(lookups)
-----------------------------------------------------------------------------
JobsOf(k) == {j \in Job : KeyOf[j] = k}

\* virtual_keys.budget_used: the sum of the charges written so far.
BudgetUsed(k) == SumFunctionOnSet([j \in Job |-> charges[j] * due[j]], JobsOf(k))

\* What the rows of the key are worth in units of its budget (of all of them:
\* which rows fill a page that is full does not matter below).
Listed(k) == SumFunctionOnSet([j \in Job |-> rows[j] * due[j]], JobsOf(k))

\* Mutant: all rows of the key.
TotalUncapped(k) == SumFunctionOnSet(rows, JobsOf(k))

\* take: 50
Total(k) == LET n == SumFunctionOnSet(rows, JobsOf(k))
            IN  IF n > PageSize THEN PageSize ELSE n

Lookup(t) == [text |-> t, stage |-> "key", report |-> NoReport]

\* lookup(): the requests go out, and the page shows that it waits for them.
Send(ts) ==
    /\ Len(lookups) + Len(ts) <= MaxLookups
    /\ lookups' = lookups \o [n \in DOMAIN ts |-> Lookup(ts[n])]
    /\ quiet' = IF UnderWay = {} THEN Len(lookups) ELSE quiet
    /\ loading' = TRUE
    /\ error' = None
    /\ UNCHANGED <<url, data>>

\* The effect on [lookup] sets the key of the URL and looks it up.  Setting the
\* key makes a new lookup function, so that the effect runs a second time.
Effect == Send(<<url, url>>) /\ input' = url
-----------------------------------------------------------------------------
Init ==
    /\ BooksInit
    /\ url \in Urls
    /\ input = url
    /\ data = NoReport
    /\ error = None
    /\ lookups = IF url = None THEN <<>> ELSE <<Lookup(url), Lookup(url)>>
    /\ loading = (url # None)
    /\ quiet = 0

\* A change of the search box, which a key in the URL undoes at once.
Type(t) ==
    /\ t # input
    /\ IF url = None
       THEN input' = t /\ UNCHANGED <<url, loading, error, data, lookups, quiet>>
       ELSE Effect
    /\ UNCHANGED booksVars

\* The button is disabled while the page is loading, Enter is not.
Press(byButton) ==
    /\ input # None
    /\ byButton => ~loading
    /\ Send(<<input>>)
    /\ UNCHANGED <<booksVars, input>>

Step(i, stage, report) ==
    /\ lookups' = [lookups EXCEPT ![i].stage = stage, ![i].report = report]
    /\ UNCHANGED <<booksVars, pageVars, quiet>>

\* getUsage: the key's row, by its hash or its id.
FindKey(i) ==
    LET k == lookups[i].text IN
    /\ lookups[i].stage = "key"
    /\ IF k \in Key
       THEN Step(i, "rows", [NoReport EXCEPT !.key = k, !.used = BudgetUsed(k)])
       ELSE Step(i, "missing", NoReport)

\* ... and then its most recent rows.
FindLogs(i) ==
    LET k == lookups[i].text IN
    /\ lookups[i].stage = "rows"
    /\ Step(i, "found", [lookups[i].report EXCEPT !.total = Total(k), !.listed = Listed(k)])

\* A query fails, or the gateway does not answer.
LookupFails(i) ==
    /\ lookups[i].stage \in {"key", "rows", "found", "missing"}
    /\ Step(i, "failed", NoReport)

\* Mutant: an error leaves the report of an earlier lookup on the page.
ArriveKeepsData(i) ==
    LET reply == lookups[i] IN
    /\ reply.stage \in {"found", "missing", "failed"}
    /\ IF reply.stage = "found"
       THEN data' = reply.report /\ UNCHANGED error
       ELSE error' = reply.text /\ UNCHANGED data
    /\ loading' = FALSE
    /\ lookups' = [lookups EXCEPT ![i].stage = "done", ![i].report = NoReport]
    /\ UNCHANGED <<booksVars, url, input, quiet>>

\* Mutant: only an answer takes the spinner away, not an error.
ArriveLoading(i) ==
    LET reply == lookups[i] IN
    /\ reply.stage \in {"found", "missing", "failed"}
    /\ IF reply.stage = "found"
       THEN data' = reply.report /\ loading' = FALSE /\ UNCHANGED error
       ELSE data' = NoReport /\ error' = reply.text /\ UNCHANGED loading
    /\ lookups' = [lookups EXCEPT ![i].stage = "done", ![i].report = NoReport]
    /\ UNCHANGED <<booksVars, url, input, quiet>>

\* The reply of any lookup: a report does not take an error away that another
\* lookup has left, and each of them ends the loading.
Arrive(i) ==
    LET reply == lookups[i] IN
    /\ reply.stage \in {"found", "missing", "failed"}
    /\ IF reply.stage = "found"
       THEN data' = reply.report /\ UNCHANGED error
       ELSE data' = NoReport /\ error' = reply.text
    /\ loading' = FALSE
    /\ lookups' = [lookups EXCEPT ![i].stage = "done", ![i].report = NoReport]
    /\ UNCHANGED <<booksVars, url, input, quiet>>

\* The worker at its books (a call that is served or closed changes nothing
\* that a report reads).
WorkerWrites(j) ==
    /\ (rows[j] < MaxRows /\ Log(j)) \/ Charge(j)
    /\ UNCHANGED <<pageVars, lookups, quiet>>
-----------------------------------------------------------------------------
Serving(i) == FindKey(i) \/ FindLogs(i) \/ Arrive(i)

Next ==
    \/ \E t \in Text : Type(t)
    \/ \E byButton \in BOOLEAN : Press(byButton)
    \/ \E i \in DOMAIN lookups : Serving(i) \/ LookupFails(i)
    \/ \E j \in Job : WorkerWrites(j)

Spec == Init /\ [][Next]_vars

\* The gateway answers or its client gives up.
Fairness == \A i \in 1..MaxLookups : WF_vars(i \in DOMAIN lookups /\ Serving(i))

FairSpec == Spec /\ Fairness
-----------------------------------------------------------------------------
(***************************************************************************)
(* Properties.                                                             *)
(***************************************************************************)

\* A report that has all the rows of its key never shows more used than these
\* rows account for, although the worker logs and charges between the two
\* queries: the charges are read first, and written last.
ReportCovered ==
    /\ data.total < PageSize => data.used <= data.listed
    /\ \A i \in DOMAIN lookups : LET r == lookups[i].report IN
           (lookups[i].stage = "found" /\ r.total < PageSize) => r.used <= r.listed

Burst == {lookups[i].text : i \in (quiet + 1)..Len(lookups)}

\* Once no lookup is under way, the page is about a key that was looked up
\* since there last was none, never a report left from before.  If just one was
\* sent, there is either its report or its error, not both.  And the panel "No
\* key found" never comes up: whatever order replies come in, there is a report
\* or an error whenever the spinner is gone.
ShownIsSearched ==
    /\ UnderWay = {} =>
           /\ ShowsReport => data.key \in Burst
           /\ ShowsError => error \in Burst
           /\ Len(lookups) = quiet + 1 => ~(ShowsReport /\ ShowsError)
    /\ ~ShowsNothing

\* The spinner does not stay: every lookup gives the button back.
PageSettles == loading ~> ~loading
=============================================================================
