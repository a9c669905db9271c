------------------------- MODULE UsageLookupProofs -------------------------
(***************************************************************************)
(* Theorems about UsageLookup, for every set of keys and calls and any     *)
(* number of lookups.                                                      *)
(*                                                                         *)
(* ShowsWhatWasSearched. A lookup begins by taking the error away, and     *)
(* only a lookup of the current burst can still reply: those before it are *)
(* done. So an error is always one of the burst, and the reply that is the *)
(* last leaves a report of its own, or none.                               *)
(*                                                                         *)
(* TypeCorrect and ReportsCovered. The sums of a report are taken over the *)
(* rows and the charges of the moment; that the charges of a key are       *)
(* covered by its rows holds because Books logs a call before it charges   *)
(* it, and stays true of a lookup that is between its two queries, because *)
(* rows are only added.                                                    *)
(***************************************************************************)
EXTENDS UsageLookup, FiniteSetTheorems, SequenceTheorems, Sums, TLAPS

Fields == {"key", "used", "total", "listed"}

\* A lookup, of which the sums in its report may be anything.
LookupFits(l) ==
    /\ l = [text |-> l.text, stage |-> l.stage, report |-> l.report]
    /\ l.text \in Text
    /\ l.stage \in Stages
    /\ l.stage \in {"rows", "found"} =>
           l.text \in Key /\ l.report.key = l.text /\ DOMAIN l.report = Fields

Shapes ==
    /\ \E S : lookups \in Seq(S)
    /\ \A i \in DOMAIN lookups : LookupFits(lookups[i])
    /\ url \in Text \cup {None} /\ input \in Text \cup {None}
    /\ quiet \in 0..Len(lookups)

\* Before the burst, all are done; an error is one of the burst.
BurstFits ==
    /\ \A i \in 1..quiet : lookups[i].stage = "done"
    /\ ShowsError => error \in Burst
    /\ Len(lookups) = quiet + 1 =>
           IF lookups[Len(lookups)].stage = "done" THEN ~(ShowsReport /\ ShowsError) ELSE ~ShowsError
    /\ (UnderWay = {} /\ ShowsReport) => data.key \in Burst

LookupInv == Shapes /\ BurstFits /\ ~ShowsNothing
-----------------------------------------------------------------------------
LEMMA LookupInit == Init => LookupInv
<1> SUFFICES ASSUME Init PROVE LookupInv
  OBVIOUS
<1>1. url \in Text \cup {None} /\ input = url
  BY UrlAssumption DEF Init, Text
<1>2. CASE url = None
  <2>1. lookups = <<>> /\ <<>> \in Seq(Text)
    BY <1>2 DEF Init
  <2> QED
    BY <1>1, <2>1 DEF Init, LookupInv, Shapes, BurstFits, ShowsNothing, ShowsError, ShowsReport
<1>3. CASE url # None
  <2>1. lookups = <<Lookup(url), Lookup(url)>> /\ loading /\ quiet = 0
    BY <1>3 DEF Init
  <2>2. lookups \in Seq({Lookup(url)}) /\ Len(lookups) = 2
    BY <2>1
  <2>3. LookupFits(Lookup(url))
    BY <1>1, <1>3 DEF LookupFits, Lookup, Stages
  <2>4. Shapes
    <3>1. \A i \in DOMAIN lookups : lookups[i] = Lookup(url)
      BY <2>1
    <3>2. quiet \in 0..Len(lookups)
      BY <2>1, <2>2
    <3> QED
      BY <1>1, <1>3, <2>2, <2>3, <3>1, <3>2 DEF Shapes
  <2> QED
    BY <2>1, <2>2, <2>4 DEF Init, LookupInv, BurstFits, ShowsNothing, ShowsError, ShowsReport
<1> QED
  BY <1>2, <1>3

\* New lookups, one or two of them.
LEMMA SendStep ==
    ASSUME LookupInv, NEW ts \in Seq(Text), Len(ts) > 0, Send(ts), input' \in Text \cup {None}
    PROVE  LookupInv'
<1> DEFINE new == [n \in DOMAIN ts |-> Lookup(ts[n])]
<1>0. Shapes
  BY DEF LookupInv
<1>1. PICK S : lookups \in Seq(S)
  BY <1>0 DEF Shapes
<1>2. new \in Seq({Lookup(t) : t \in Text}) /\ Len(new) = Len(ts)
  OBVIOUS
<1>3. ASSUME NEW t \in Text PROVE LookupFits(Lookup(t)) /\ Lookup(t).stage = "key"
  BY DEF LookupFits, Lookup, Stages
<1> DEFINE T == S \cup {Lookup(t) : t \in Text}
<1>4. lookups \in Seq(T) /\ new \in Seq(T)
  BY <1>1, <1>2
<1>5. lookups' = lookups \o new
  BY DEF Send
<1> HIDE DEF new, T
<1>6. /\ lookups' \in Seq(T) /\ Len(lookups') = Len(lookups) + Len(ts)
      /\ \A i \in 1..Len(lookups) : lookups'[i] = lookups[i]
      /\ \A i \in (Len(lookups) + 1)..Len(lookups') : lookups'[i] = new[i - Len(lookups)]
  <2>1. /\ lookups \o new \in Seq(T)
        /\ Len(lookups \o new) = Len(lookups) + Len(new)
        /\ \A i \in 1..Len(lookups) + Len(new) :
              (lookups \o new)[i] = IF i <= Len(lookups) THEN lookups[i] ELSE new[i - Len(lookups)]
    BY <1>4, ConcatProperties
  <2>2. Len(lookups) \in Nat /\ Len(new) \in Nat
    BY <1>4
  <2> QED
    BY <1>2, <1>5, <2>1, <2>2
<1>7. \A i \in 1..Len(ts) : LookupFits(new[i]) /\ new[i].stage = "key"
  BY <1>3 DEF new
<1>8. \A i \in (Len(lookups) + 1)..Len(lookups') : LookupFits(lookups'[i]) /\ lookups'[i].stage = "key"
  BY <1>6, <1>7
<1>9. \A i \in 1..Len(lookups) : LookupFits(lookups'[i])
  BY <1>0, <1>1, <1>6 DEF Shapes
<1>10. quiet' \in 0..Len(lookups) /\ url' = url /\ error' = None /\ loading' = TRUE
  BY <1>0, <1>1 DEF Send, Shapes
<1>11. Shapes'
  <2>1. DOMAIN lookups' = 1..Len(lookups') /\ Len(lookups) \in Nat /\ Len(ts) \in Nat
    BY <1>1, <1>6
  <2>2. \A i \in DOMAIN lookups' : LookupFits(lookups'[i])
    BY <1>6, <1>8, <1>9, <2>1
  <2>3. \E R : lookups' \in Seq(R)
    BY <1>6
  <2>4. (url \in Text \cup {None} /\ input \in Text \cup {None})'
    BY <1>0, <1>10 DEF Shapes
  <2>5. quiet' \in 0..Len(lookups')
    BY <1>6, <1>10, <2>1
  <2>6. (\A i \in DOMAIN lookups : LookupFits(lookups[i]))'
    BY <2>2 DEF LookupFits
  <2> QED
    BY <2>3, <2>4, <2>5, <2>6 DEF Shapes
<1>12. Len(lookups') > Len(lookups) /\ Len(lookups) \in Nat /\ Len(lookups') \in Nat
  BY <1>1, <1>6
<1>13. \A i \in 1..quiet' : lookups'[i].stage = "done"
  <2>1. CASE UnderWay = {}
    BY <1>1, <1>6, <1>10, <2>1 DEF UnderWay
  <2>2. CASE UnderWay # {}
    BY <1>0, <1>1, <1>6, <1>10, <2>2 DEF LookupInv, Shapes, BurstFits, Send
  <2> QED
    BY <2>1, <2>2
<1>14. lookups'[Len(lookups')].stage = "key"
  BY <1>8, <1>12
<1>15. UnderWay' # {}
  <2>1. Len(lookups') \in DOMAIN lookups'
    BY <1>6, <1>12
  <2> QED
    BY <1>14, <2>1 DEF UnderWay
<1>16. ~ShowsError' /\ ~ShowsNothing'
  BY <1>10 DEF ShowsError, ShowsNothing
<1>17. BurstFits'
  <2>1. lookups'[Len(lookups')].stage # "done"
    BY <1>14
  <2> QED
    BY <1>13, <1>15, <1>16, <2>1 DEF BurstFits
<1> QED
  BY <1>11, <1>16, <1>17 DEF LookupInv

\* A lookup goes on: nothing of it is on the page before it has replied.
LEMMA ReplaceLookup ==
    ASSUME Shapes, NEW i \in DOMAIN lookups, NEW stage \in Stages, NEW report,
           lookups' = [lookups EXCEPT ![i].stage = stage, ![i].report = report],
           stage \in {"rows", "found"} =>
               lookups[i].text \in Key /\ report.key = lookups[i].text /\ DOMAIN report = Fields,
           UNCHANGED <<url, input, quiet>>
    PROVE  /\ Shapes'
           /\ DOMAIN lookups' = DOMAIN lookups /\ Len(lookups') = Len(lookups)
           /\ \A n \in DOMAIN lookups : n # i => lookups'[n] = lookups[n]
           /\ lookups'[i].stage = stage
           /\ Burst' = Burst
<1> DEFINE l == [text |-> lookups[i].text, stage |-> stage, report |-> report]
<1>1. PICK S : lookups \in Seq(S)
  BY DEF Shapes
<1>2. lookups[i] = [text |-> lookups[i].text, stage |-> lookups[i].stage, report |-> lookups[i].report]
  BY DEF Shapes, LookupFits
<1>3. lookups' = [lookups EXCEPT ![i] = l]
  <2>1. DOMAIN lookups' = DOMAIN lookups /\ \A n \in DOMAIN lookups : n # i => lookups'[n] = lookups[n]
    OBVIOUS
  <2>2. lookups'[i] = [[lookups[i] EXCEPT !.stage = stage] EXCEPT !.report = report]
    BY <1>1
  <2>3. lookups'[i] = l
    BY <1>2, <2>2
  <2>4. lookups' = [n \in DOMAIN lookups |-> lookups'[n]]
    BY <1>1
  <2> HIDE DEF l
  <2> QED
    BY <2>1, <2>3, <2>4
<1>4. LookupFits(l)
  BY DEF LookupFits, Shapes
<1>5. l.text = lookups[i].text /\ l.stage = stage
  OBVIOUS
<1> HIDE DEF l
<1>6. lookups' \in Seq(S \cup {l})
  <2>1. lookups \in Seq(S \cup {l})
    BY <1>1
  <2>2. [lookups EXCEPT ![i] = l] \in Seq(S \cup {l})
    BY <2>1
  <2> QED
    BY <1>3, <2>2
<1>7. /\ DOMAIN lookups' = DOMAIN lookups /\ Len(lookups') = Len(lookups)
      /\ \A n \in DOMAIN lookups : n # i => lookups'[n] = lookups[n]
      /\ lookups'[i] = l
  BY <1>1, <1>3
<1>8. Shapes'
  BY <1>4, <1>6, <1>7 DEF Shapes
<1>9. Burst' = Burst
  <2>1. \A n \in DOMAIN lookups : lookups'[n].text = lookups[n].text
    BY <1>5, <1>7
  <2>2. (quiet + 1)..Len(lookups) \subseteq DOMAIN lookups
    BY <1>1 DEF Shapes
  <2> QED
    BY <1>7, <2>1, <2>2 DEF Burst
<1> QED
  BY <1>5, <1>7, <1>8, <1>9

LEMMA GoOnStep ==
    ASSUME LookupInv, NEW i \in DOMAIN lookups, lookups[i].stage # "done",
           NEW stage \in Stages \ {"done"}, NEW report, Step(i, stage, report),
           stage \in {"rows", "found"} =>
               lookups[i].text \in Key /\ report.key = lookups[i].text /\ DOMAIN report = Fields
    PROVE  LookupInv'
<1> USE DEF LookupInv
<1>1. /\ Shapes'
      /\ DOMAIN lookups' = DOMAIN lookups /\ Len(lookups') = Len(lookups)
      /\ \A n \in DOMAIN lookups : n # i => lookups'[n] = lookups[n]
      /\ lookups'[i].stage = stage
      /\ Burst' = Burst
  BY ReplaceLookup DEF Step, pageVars
<1>2. \A n \in DOMAIN lookups : lookups'[n].stage = "done" <=> lookups[n].stage = "done"
  BY <1>1
<1>3. UnderWay' = UnderWay
  BY <1>1, <1>2 DEF UnderWay
<1>4. quiet' = quiet /\ error' = error /\ data' = data /\ loading' = loading
  BY DEF Step, pageVars
<1>5. 1..quiet \subseteq DOMAIN lookups
  BY DEF Shapes
<1>6. Len(lookups) = quiet + 1 => Len(lookups) \in DOMAIN lookups
  BY DEF Shapes
<1>7. BurstFits'
  BY <1>1, <1>2, <1>3, <1>4, <1>5, <1>6 DEF BurstFits, ShowsError, ShowsReport
<1>8. lookups' = <<>> => lookups = <<>>
  BY <1>1
<1>9. ~ShowsNothing'
  BY <1>4, <1>8 DEF ShowsNothing, ShowsError, ShowsReport
<1> QED
  BY <1>1, <1>7, <1>9

\* A lookup of the burst replies, and the page shows its reply.
LEMMA ArriveStep ==
    ASSUME LookupInv, NEW i \in DOMAIN lookups, Arrive(i)
    PROVE  LookupInv'
<1> USE DEF LookupInv
<1>1. lookups[i].stage \in {"found", "missing", "failed"} /\ lookups[i].text \in Text
  BY DEF Arrive, Shapes, LookupFits
<1>2. /\ Shapes'
      /\ DOMAIN lookups' = DOMAIN lookups /\ Len(lookups') = Len(lookups)
      /\ \A n \in DOMAIN lookups : n # i => lookups'[n] = lookups[n]
      /\ lookups'[i].stage = "done"
      /\ Burst' = Burst
  BY ReplaceLookup DEF Arrive, Stages
<1>3. i \in (quiet + 1)..Len(lookups) /\ quiet \in Nat /\ Len(lookups) \in Nat
  BY <1>1 DEF Shapes, BurstFits
<1>4. lookups[i].text \in Burst /\ lookups[i].text # None
  BY <1>1, <1>3, KeyAssumption DEF Burst, Text
<1>5. \/ /\ data'.key = lookups[i].text /\ data' # NoReport /\ error' = error
      \/ /\ data' = NoReport /\ error' = lookups[i].text
  <2>1. CASE lookups[i].stage = "found"
    <3>1. data' = lookups[i].report /\ error' = error /\ lookups[i].report.key = lookups[i].text
      BY <2>1 DEF Arrive, Shapes, LookupFits
    <3> QED
      BY <1>4, <3>1 DEF NoReport
  <2>2. CASE lookups[i].stage # "found"
    BY <2>2 DEF Arrive
  <2> QED
    BY <2>1, <2>2
<1>6. quiet' = quiet
  BY DEF Arrive
<1>7. \A n \in 1..quiet' : lookups'[n].stage = "done"
  BY <1>2, <1>3, <1>6 DEF BurstFits, Shapes
<1>8. ShowsError' => error' \in Burst'
  BY <1>2, <1>4, <1>5 DEF BurstFits, ShowsError
<1>9. ShowsReport' /\ UnderWay' = {} => data'.key \in Burst'
  BY <1>2, <1>4, <1>5 DEF ShowsReport
<1>10. Len(lookups') = quiet' + 1 =>
           lookups'[Len(lookups')].stage = "done" /\ ~(ShowsReport' /\ ShowsError')
  BY <1>1, <1>2, <1>3, <1>5, <1>6 DEF BurstFits, ShowsReport, ShowsError
<1>11. ShowsReport' \/ ShowsError'
  BY <1>4, <1>5 DEF ShowsReport, ShowsError
<1> QED
  BY <1>2, <1>7, <1>8, <1>9, <1>10, <1>11 DEF BurstFits, ShowsNothing

LEMMA LookupStep == LookupInv /\ [Next]_vars => LookupInv'
<1> SUFFICES ASSUME LookupInv, [Next]_vars PROVE LookupInv'
  OBVIOUS
<1>1. ASSUME UNCHANGED <<pageVars, lookups, quiet>> PROVE LookupInv'
  BY <1>1 DEF LookupInv, Shapes, BurstFits, ShowsNothing, ShowsError, ShowsReport, Burst,
              UnderWay, pageVars
<1>2. ASSUME NEW t \in Text, Type(t) PROVE LookupInv'
  <2>1. CASE url = None
    BY <1>2, <2>1 DEF Type, LookupInv, Shapes, BurstFits, ShowsNothing, ShowsError, ShowsReport,
                      Burst, UnderWay
  <2>2. CASE url # None
    <3>1. <<url, url>> \in Seq(Text) /\ Len(<<url, url>>) > 0
      BY <2>2 DEF LookupInv, Shapes
    <3> QED
      BY <1>2, <2>2, <3>1, SendStep DEF Type, Effect, LookupInv, Shapes
  <2> QED
    BY <2>1, <2>2
<1>3. ASSUME NEW b \in BOOLEAN, Press(b) PROVE LookupInv'
  <2>1. <<input>> \in Seq(Text) /\ Len(<<input>>) > 0
    BY <1>3 DEF Press, LookupInv, Shapes
  <2> QED
    BY <1>3, <2>1, SendStep DEF Press, LookupInv, Shapes
<1>4. ASSUME NEW i \in DOMAIN lookups, FindKey(i) PROVE LookupInv'
  <2> DEFINE k == lookups[i].text
             report == [NoReport EXCEPT !.key = k, !.used = BudgetUsed(k)]
  <2>1. lookups[i].stage # "done"
    BY <1>4 DEF FindKey
  <2>2. report.key = k /\ DOMAIN report = Fields
    BY DEF NoReport, Fields
  <2>3. CASE k \in Key
    <3>1. Step(i, "rows", report)
      BY <1>4, <2>3 DEF FindKey
    <3> HIDE DEF report
    <3> QED
      BY <2>1, <2>2, <2>3, <3>1, GoOnStep DEF Stages
  <2>4. CASE k \notin Key
    <3>1. Step(i, "missing", NoReport)
      BY <1>4, <2>4 DEF FindKey
    <3> QED
      BY <2>1, <3>1, GoOnStep DEF Stages
  <2> QED
    BY <2>3, <2>4
<1>5. ASSUME NEW i \in DOMAIN lookups, FindLogs(i) PROVE LookupInv'
  <2> DEFINE k == lookups[i].text
             report == [lookups[i].report EXCEPT !.total = Total(k), !.listed = Listed(k)]
  <2>1. lookups[i].stage = "rows" /\ Step(i, "found", report)
    BY <1>5 DEF FindLogs
  <2>2. k \in Key /\ lookups[i].report.key = k /\ DOMAIN lookups[i].report = Fields
    BY <2>1 DEF LookupInv, Shapes, LookupFits
  <2>3. report.key = k /\ DOMAIN report = Fields
    BY <2>2 DEF Fields
  <2> HIDE DEF report
  <2> QED
    BY <2>1, <2>2, <2>3, GoOnStep DEF Stages
<1>6. ASSUME NEW i \in DOMAIN lookups, LookupFails(i) PROVE LookupInv'
  <2>1. lookups[i].stage # "done" /\ Step(i, "failed", NoReport)
    BY <1>6 DEF LookupFails
  <2> QED
    BY <2>1, GoOnStep DEF Stages
<1>7. ASSUME NEW i \in DOMAIN lookups, Arrive(i) PROVE LookupInv'
  BY <1>7, ArriveStep
<1>8. ASSUME NEW j \in Job, WorkerWrites(j) PROVE LookupInv'
  BY <1>1, <1>8 DEF WorkerWrites
<1>9. CASE UNCHANGED vars
  BY <1>1, <1>9 DEF vars
<1> QED
  BY <1>2, <1>3, <1>4, <1>5, <1>6, <1>7, <1>8, <1>9 DEF Next, Serving

\* Whatever order replies come in, and however many lookups overlap, the page
\* is about what was last looked up, and never without a report or an error.
THEOREM ShowsWhatWasSearched == Spec => []ShownIsSearched
<1>1. LookupInv => ShownIsSearched
  <2> SUFFICES ASSUME LookupInv, UnderWay = {}
               PROVE  /\ ShowsReport => data.key \in Burst
                      /\ ShowsError => error \in Burst
                      /\ Len(lookups) = quiet + 1 => ~(ShowsReport /\ ShowsError)
    BY DEF LookupInv, ShownIsSearched
  <2>1. Len(lookups) = quiet + 1 => lookups[Len(lookups)].stage = "done"
    BY DEF LookupInv, Shapes, UnderWay
  <2> QED
    BY <2>1 DEF LookupInv, BurstFits
<1>2. QED
  BY <1>1, LookupInit, LookupStep, PTL DEF Spec
-----------------------------------------------------------------------------
\* The rows and the charges, as far as the two queries of a report see them: a
\* report that waits for its rows shows no more used than these account for now,
\* and there are never fewer of them later.
Charged == [j \in Job |-> charges[j] * due[j]]
Logged  == [j \in Job |-> rows[j] * due[j]]

Covered(r) == r.total < PageSize => r.used <= r.listed

CoverInv ==
    /\ TypeOK
    /\ \A j \in Job : charges[j] <= rows[j]
    /\ Covered(data)
    /\ \A i \in DOMAIN lookups :
           /\ lookups[i].stage \in {"rows", "found"} => lookups[i].text \in Key
           /\ lookups[i].stage = "rows" => lookups[i].report.used <= Listed(lookups[i].text)
           /\ lookups[i].stage = "found" => Covered(lookups[i].report)

LEMMA Products ==
    ASSUME NEW a \in Nat, NEW b \in Nat, NEW c \in Nat, a <= b
    PROVE  a * c \in Nat /\ b * c \in Nat /\ a * c <= b * c
<1>1. a * c \in Nat /\ b * c \in Nat
  OBVIOUS
<1>2. (b - a) * c \in Nat /\ b * c = a * c + (b - a) * c
  OBVIOUS
<1> QED
  BY <1>1, <1>2

LEMMA Weights ==
    ASSUME TypeOK, NEW k
    PROVE  /\ IsFiniteSet(JobsOf(k)) /\ JobsOf(k) \subseteq Job
           /\ \A j \in Job : Charged[j] \in Nat /\ Logged[j] \in Nat /\ rows[j] \in Nat
<1>1. IsFiniteSet(JobsOf(k)) /\ JobsOf(k) \subseteq Job
  BY JobAssumption, FS_Subset DEF JobsOf
<1>2. ASSUME NEW j \in Job PROVE Charged[j] \in Nat /\ Logged[j] \in Nat /\ rows[j] \in Nat
  <2>1. charges[j] \in Nat /\ rows[j] \in Nat /\ due[j] \in Nat
    BY IncrementAssumption DEF TypeOK
  <2> QED
    BY <2>1, Products DEF Charged, Logged
<1> QED
  BY <1>1, <1>2

\* What a report is made of.
LEMMA ReportSums ==
    ASSUME TypeOK, NEW k
    PROVE  BudgetUsed(k) \in Nat /\ Listed(k) \in Nat /\ Total(k) \in 0..PageSize
<1>1. SumFunctionOnSet(Charged, JobsOf(k)) \in Nat /\ SumFunctionOnSet(Logged, JobsOf(k)) \in Nat
  BY Weights, SumNat
<1>2. SumFunctionOnSet(rows, JobsOf(k)) \in Nat
  BY Weights, SumNat
<1> QED
  BY <1>1, <1>2, PageAssumption DEF BudgetUsed, Listed, Total, Charged, Logged

\* Each charge of a key has a row.
LEMMA UsedIsListed ==
    ASSUME TypeOK, \A j \in Job : charges[j] <= rows[j], NEW k
    PROVE  BudgetUsed(k) <= Listed(k)
<1>1. \A j \in JobsOf(k) : Charged[j] \in Int /\ Logged[j] \in Int /\ Charged[j] <= Logged[j]
  <2> SUFFICES ASSUME NEW j \in JobsOf(k)
               PROVE  Charged[j] \in Int /\ Logged[j] \in Int /\ Charged[j] <= Logged[j]
    OBVIOUS
  <2>1. j \in Job /\ charges[j] \in Nat /\ rows[j] \in Nat /\ due[j] \in Nat /\ charges[j] <= rows[j]
    BY Weights, IncrementAssumption DEF TypeOK
  <2> QED
    BY <2>1, Products DEF Charged, Logged
<1>2. SumFunctionOnSet(Charged, JobsOf(k)) <= SumFunctionOnSet(Logged, JobsOf(k))
  BY <1>1, Weights, SumMonotone
<1> QED
  BY <1>2 DEF BudgetUsed, Listed, Charged, Logged

LookupType == [text : Text, stage : Stages, report : Report]

\* The stages that say something of a report.
LookupCovered(l) ==
    /\ l.stage \in {"rows", "found"} => l.text \in Key
    /\ l.stage = "rows" => l.report.used <= Listed(l.text)
    /\ l.stage = "found" => Covered(l.report)

LEMMA FreshLookup == NoReport \in Report /\ \A t \in Text : Lookup(t) \in LookupType /\ LookupCovered(Lookup(t))
<1>1. NoReport \in Report
  BY PageAssumption DEF NoReport, Report
<1> QED
  BY <1>1 DEF Lookup, LookupType, Stages, LookupCovered

LEMMA CoverInit == Init => CoverInv
<1> SUFFICES ASSUME Init PROVE CoverInv
  OBVIOUS
<1>1. NoReport \in Report
  BY FreshLookup
<1>2. CASE url = None
  <2>1. lookups = <<>> /\ <<>> \in Seq(LookupType) /\ Len(<<>>) = 0
    BY <1>2 DEF Init
  <2>2. TypeOK
    BY <1>1, <1>2, <2>1 DEF Init, BooksInit, TypeOK, LookupType
  <2> QED
    BY <1>2, <2>1, <2>2 DEF Init, BooksInit, CoverInv, Covered, NoReport
<1>3. CASE url # None
  <2>1. url \in Text
    BY <1>3, UrlAssumption DEF Init, Text
  <2>2. lookups = <<Lookup(url), Lookup(url)>> /\ Lookup(url) \in LookupType /\ LookupCovered(Lookup(url))
    BY <1>3, <2>1, FreshLookup DEF Init
  <2>3. lookups \in Seq(LookupType) /\ Len(lookups) = 2 /\ \A i \in DOMAIN lookups : lookups[i] = Lookup(url)
    BY <2>2
  <2>4. TypeOK
    BY <1>1, <2>1, <2>3 DEF Init, BooksInit, TypeOK, LookupType
  <2>5. \A j \in Job : charges[j] <= rows[j]
    <3> SUFFICES ASSUME NEW j \in Job PROVE charges[j] <= rows[j]
      OBVIOUS
    <3>1. charges[j] = 0 /\ rows[j] = 0
      BY DEF Init, BooksInit
    <3> QED
      BY <3>1
  <2>6. Covered(data)
    BY DEF Init, Covered, NoReport
  <2> QED
    BY <2>2, <2>3, <2>4, <2>5, <2>6 DEF CoverInv, LookupCovered
<1> QED
  BY <1>2, <1>3

\* Nothing moves in the books, and every lookup is still covered.
LEMMA CoverSame ==
    ASSUME CoverInv, UNCHANGED booksVars, TypeOK', Covered(data)',
           \A i \in DOMAIN lookups' : LookupCovered(lookups'[i])
    PROVE  CoverInv'
<1>1. \A k : Listed(k)' = Listed(k)
  BY DEF booksVars, Listed, JobsOf
<1>2. \A j \in Job : charges'[j] <= rows'[j]
  BY DEF CoverInv, booksVars
<1> QED
  BY <1>1, <1>2 DEF CoverInv, LookupCovered, Covered

LEMMA CoverSend ==
    ASSUME CoverInv, NEW ts \in Seq(Text), Send(ts), UNCHANGED booksVars, input' \in Text \cup {None}
    PROVE  CoverInv'
<1> DEFINE new == [n \in DOMAIN ts |-> Lookup(ts[n])]
<1>1. new \in Seq(LookupType) /\ Len(new) = Len(ts) /\ \A n \in 1..Len(ts) : LookupCovered(new[n])
  BY FreshLookup
<1>2. lookups \in Seq(LookupType) /\ TypeOK
  BY DEF CoverInv, TypeOK, LookupType
<1>3. lookups' = lookups \o new
  BY DEF Send
<1> HIDE DEF new
<1>4. /\ lookups' \in Seq(LookupType)
      /\ Len(lookups') = Len(lookups) + Len(new)
      /\ \A i \in 1..Len(lookups) + Len(new) :
            lookups'[i] = IF i <= Len(lookups) THEN lookups[i] ELSE new[i - Len(lookups)]
  BY <1>1, <1>2, <1>3, ConcatProperties
<1>5. Len(lookups) \in Nat /\ Len(new) \in Nat /\ quiet \in 0..Len(lookups)
  BY <1>1, <1>2 DEF TypeOK
<1>6. \A i \in DOMAIN lookups' : LookupCovered(lookups'[i])
  <2> SUFFICES ASSUME NEW i \in DOMAIN lookups' PROVE LookupCovered(lookups'[i])
    OBVIOUS
  <2>1. CASE i <= Len(lookups)
    BY <1>4, <1>5, <2>1 DEF CoverInv, LookupCovered
  <2>2. CASE i > Len(lookups)
    <3>1. i - Len(lookups) \in 1..Len(new) /\ lookups'[i] = new[i - Len(lookups)]
      BY <1>4, <1>5, <2>2
    <3> QED
      BY <1>1, <3>1
  <2> QED
    BY <1>4, <1>5, <2>1, <2>2
<1>7. TypeOK'
  <2>1. quiet' \in 0..Len(lookups')
    BY <1>4, <1>5 DEF Send
  <2> QED
    BY <1>2, <1>4, <2>1 DEF TypeOK, Send, booksVars, LookupType
<1>8. Covered(data)'
  BY DEF CoverInv, Send, Covered
<1> QED
  BY <1>6, <1>7, <1>8, CoverSame

\* One lookup goes on, or is answered.
LEMMA CoverReplace ==
    ASSUME CoverInv, NEW i \in DOMAIN lookups, NEW stage \in Stages, NEW report \in Report,
           lookups' = [lookups EXCEPT ![i].stage = stage, ![i].report = report],
           LookupCovered([text |-> lookups[i].text, stage |-> stage, report |-> report]),
           UNCHANGED <<booksVars, url, quiet>>, input' \in Text \cup {None},
           loading' \in BOOLEAN, error' \in Text \cup {None}, data' \in Report, Covered(data)'
    PROVE  CoverInv'
<1> DEFINE l == [text |-> lookups[i].text, stage |-> stage, report |-> report]
<1>1. lookups \in Seq(LookupType) /\ TypeOK
  BY DEF CoverInv, TypeOK, LookupType
<1>2. lookups[i] \in LookupType
  BY <1>1
<1>3. lookups' = [lookups EXCEPT ![i] = l]
  <2>1. DOMAIN lookups' = DOMAIN lookups /\ \A n \in DOMAIN lookups : n # i => lookups'[n] = lookups[n]
    OBVIOUS
  <2>2. lookups'[i] = [[lookups[i] EXCEPT !.stage = stage] EXCEPT !.report = report]
    BY <1>1
  <2>3. lookups'[i] = l
    BY <1>2, <2>2 DEF LookupType
  <2>4. lookups' = [n \in DOMAIN lookups |-> lookups'[n]]
    BY <1>1
  <2> HIDE DEF l
  <2> QED
    BY <2>1, <2>3, <2>4
<1>4. l \in LookupType /\ LookupCovered(l)
  BY <1>2 DEF LookupType
<1> HIDE DEF l
<1>5. lookups' \in Seq(LookupType) /\ Len(lookups') = Len(lookups) /\ DOMAIN lookups' = DOMAIN lookups
  <2>1. [lookups EXCEPT ![i] = l] \in Seq(LookupType)
    BY <1>1, <1>4
  <2>2. DOMAIN lookups' = DOMAIN lookups /\ Len(lookups') = Len(lookups)
    BY <1>1, <1>3
  <2>3. lookups' \in Seq(LookupType)
    BY <1>3, <2>1
  <2> QED
    BY <2>2, <2>3
<1>6. \A n \in DOMAIN lookups' : LookupCovered(lookups'[n])
  <2> SUFFICES ASSUME NEW n \in DOMAIN lookups PROVE LookupCovered(lookups'[n])
    BY <1>5
  <2>1. lookups'[n] = IF n = i THEN l ELSE lookups[n]
    BY <1>1, <1>3
  <2> QED
    BY <1>4, <2>1 DEF CoverInv, LookupCovered
<1>7. TypeOK'
  BY <1>1, <1>5 DEF TypeOK, booksVars, LookupType
<1> QED
  BY <1>6, <1>7, CoverSame

\* The worker logs or charges a call while reports wait for their rows.
LEMMA CoverWrites == ASSUME CoverInv, NEW j \in Job, WorkerWrites(j) PROVE CoverInv'
<1>1. TypeOK /\ charges \in [Job -> Nat] /\ rows \in [Job -> Nat] /\ UNCHANGED <<due, pageVars, lookups, quiet>>
  BY DEF CoverInv, TypeOK, WorkerWrites, Log, Charge
<1>2. \/ charges' = charges /\ closed' = closed /\ rows' = [rows EXCEPT ![j] = @ + 1]
      \/ rows' = rows /\ closed' = closed /\ charges[j] < rows[j] /\ charges' = [charges EXCEPT ![j] = @ + 1]
  BY DEF WorkerWrites, Log, Charge
<1>3. charges' \in [Job -> Nat] /\ rows' \in [Job -> Nat] /\ closed' = closed /\ \A n \in Job : rows[n] <= rows'[n]
  BY <1>1, <1>2
<1>4. TypeOK'
  BY <1>1, <1>3 DEF TypeOK, pageVars
<1>5. \A n \in Job : charges'[n] <= rows'[n]
  BY <1>1, <1>2 DEF CoverInv
<1>6. ASSUME NEW k PROVE Listed(k) <= Listed(k)' /\ Listed(k) \in Nat /\ Listed(k)' \in Nat
  <2> DEFINE w == Logged'
  <2>1. w = [n \in Job |-> rows'[n] * due'[n]]
    BY DEF Logged
  <2>2. \A n \in Job : Logged[n] \in Int /\ w[n] \in Int /\ Logged[n] <= w[n]
    <3> SUFFICES ASSUME NEW n \in Job PROVE Logged[n] \in Int /\ w[n] \in Int /\ Logged[n] <= w[n]
      OBVIOUS
    <3>1. rows[n] \in Nat /\ rows'[n] \in Nat /\ rows[n] <= rows'[n] /\ due[n] \in Nat /\ due'[n] = due[n]
      BY <1>1, <1>3, IncrementAssumption DEF TypeOK
    <3> QED
      BY <2>1, <3>1, Products DEF Logged
  <2> HIDE DEF w
  <2>3. SumFunctionOnSet(Logged, JobsOf(k)) <= SumFunctionOnSet(w, JobsOf(k))
    BY <1>1, <2>2, Weights, SumMonotone
  <2>4. Listed(k)' = SumFunctionOnSet(w, JobsOf(k))
    BY <2>1 DEF Listed, JobsOf
  <2>5. Listed(k) \in Nat /\ Listed(k)' \in Nat
    <3>1. Listed(k) \in Nat
      BY <1>1, ReportSums
    <3>2. \A n \in JobsOf(k) : w[n] \in Nat
      <4> SUFFICES ASSUME NEW n \in JobsOf(k) PROVE w[n] \in Nat
        OBVIOUS
      <4>1. n \in Job /\ rows'[n] \in Nat /\ due'[n] \in Nat
        BY <1>1, <1>3, IncrementAssumption DEF TypeOK, JobsOf
      <4> QED
        BY <2>1, <4>1, Products
    <3> QED
      BY <1>1, <2>4, <3>1, <3>2, Weights, SumNat
  <2> QED
    BY <2>3, <2>4, <2>5 DEF Listed, Logged
<1>7. ASSUME NEW i \in DOMAIN lookups, lookups[i].stage = "rows"
      PROVE  lookups[i].report.used <= Listed(lookups[i].text)'
  <2>1. lookups[i].report.used \in Nat /\ lookups[i].report.used <= Listed(lookups[i].text)
    <3>1. lookups \in Seq(LookupType)
      BY <1>1 DEF TypeOK, LookupType
    <3> HIDE DEF LookupType
    <3>2. lookups[i] \in LookupType
      BY <1>7, <3>1
    <3>3. lookups[i].report \in Report
      BY <3>2 DEF LookupType
    <3> QED
      BY <1>7, <3>3 DEF CoverInv, Report
  <2>2. Listed(lookups[i].text) <= Listed(lookups[i].text)' /\ Listed(lookups[i].text) \in Nat /\ Listed(lookups[i].text)' \in Nat
    <3> DEFINE k == lookups[i].text
    <3>1. k' = k
      BY <1>1
    <3>2. JobsOf(k)' = JobsOf(k)
      BY <3>1 DEF JobsOf
    <3> QED
      BY <1>6, <3>1
  <2> QED
    BY <2>1, <2>2
<1> QED
  BY <1>1, <1>4, <1>5, <1>7 DEF CoverInv, Covered, pageVars

LEMMA CoverStep == CoverInv /\ [Next]_vars => CoverInv'
<1> SUFFICES ASSUME CoverInv, [Next]_vars PROVE CoverInv'
  OBVIOUS
<1> USE FreshLookup
<1>0. TypeOK /\ \A i \in DOMAIN lookups : lookups[i] \in LookupType
  <2>1. lookups \in Seq(LookupType)
    BY DEF CoverInv, TypeOK, LookupType
  <2> QED
    BY <2>1 DEF CoverInv
<1>1. ASSUME UNCHANGED <<booksVars, url, loading, error, data, lookups, quiet>>, input' \in Text \cup {None}
      PROVE  CoverInv'
  <2>1. TypeOK' /\ Covered(data)' /\ \A i \in DOMAIN lookups' : LookupCovered(lookups'[i])
    BY <1>1 DEF CoverInv, TypeOK, Covered, LookupCovered, booksVars
  <2> QED
    BY <1>1, <2>1, CoverSame
<1>2. ASSUME NEW t \in Text, Type(t) PROVE CoverInv'
  <2>1. CASE url = None
    BY <1>1, <1>2, <2>1 DEF Type
  <2>2. CASE url # None
    <3>1. url \in Text /\ <<url, url>> \in Seq(Text)
      BY <1>0, <2>2, UrlAssumption DEF TypeOK, Text
    <3> QED
      BY <1>2, <2>2, <3>1, CoverSend DEF Type, Effect
  <2> QED
    BY <2>1, <2>2
<1>3. ASSUME NEW b \in BOOLEAN, Press(b) PROVE CoverInv'
  <2>1. input \in Text /\ <<input>> \in Seq(Text)
    BY <1>0, <1>3 DEF TypeOK, Press
  <2> QED
    BY <1>3, <2>1, CoverSend DEF Press
<1> DEFINE At(i) == lookups[i]
<1>4. ASSUME NEW i \in DOMAIN lookups, NEW stage \in Stages, NEW report \in Report, Step(i, stage, report),
             LookupCovered([text |-> lookups[i].text, stage |-> stage, report |-> report])
      PROVE  CoverInv'
  <2>1. UNCHANGED <<booksVars, pageVars, quiet>>
    BY <1>4 DEF Step
  <2>2. input' \in Text \cup {None} /\ loading' \in BOOLEAN /\ error' \in Text \cup {None} /\ data' \in Report
    BY <1>0, <2>1 DEF TypeOK, pageVars
  <2>3. Covered(data)'
    BY <2>1 DEF CoverInv, Covered, pageVars
  <2> QED
    BY <1>4, <2>1, <2>2, <2>3, CoverReplace DEF Step, pageVars
<1>5. ASSUME NEW i \in DOMAIN lookups, FindKey(i) PROVE CoverInv'
  <2> DEFINE k == lookups[i].text
             report == [NoReport EXCEPT !.key = k, !.used = BudgetUsed(k)]
  <2>1. CASE k \in Key
    <3>1. Step(i, "rows", report) /\ report.used = BudgetUsed(k)
      BY <1>5, <2>1 DEF FindKey, NoReport
    <3>2. report \in Report
      <4>1. BudgetUsed(k) \in Nat
        BY <1>0, ReportSums
      <4>2. report = [key |-> k, used |-> BudgetUsed(k), total |-> 0, listed |-> 0]
        <5>1. report = [[NoReport EXCEPT !.key = k] EXCEPT !.used = BudgetUsed(k)]
          OBVIOUS
        <5>2. [NoReport EXCEPT !.key = k] = [key |-> k, used |-> 0, total |-> 0, listed |-> 0]
          BY DEF NoReport
        <5> HIDE DEF k, report
        <5> QED
          BY <5>1, <5>2
      <4> QED
        BY <2>1, <4>1, <4>2, PageAssumption DEF Report
    <3>3. BudgetUsed(k) <= Listed(k)
      BY <1>0, UsedIsListed DEF CoverInv
    <3> HIDE DEF report
    <3> QED
      BY <1>4, <2>1, <3>1, <3>2, <3>3 DEF Stages, LookupCovered
  <2>2. CASE k \notin Key
    <3>1. Step(i, "missing", NoReport)
      BY <1>5, <2>2 DEF FindKey
    <3> QED
      BY <1>4, <3>1 DEF Stages, LookupCovered
  <2> QED
    BY <2>1, <2>2
<1>6. ASSUME NEW i \in DOMAIN lookups, FindLogs(i) PROVE CoverInv'
  <2> DEFINE k == lookups[i].text
             r == lookups[i].report
             report == [r EXCEPT !.total = Total(k), !.listed = Listed(k)]
  <2>1. lookups[i].stage = "rows" /\ Step(i, "found", report) /\ r \in Report
    BY <1>0, <1>6 DEF FindLogs, LookupType
  <2>2. Listed(k) \in Nat /\ Total(k) \in 0..PageSize
    BY <1>0, ReportSums
  <2>3. report \in Report /\ report.listed = Listed(k) /\ report.used = r.used
    BY <2>1, <2>2 DEF Report
  <2>4. k \in Key /\ r.used <= Listed(k)
    BY <2>1 DEF CoverInv
  <2> HIDE DEF report
  <2> QED
    BY <1>4, <2>1, <2>3, <2>4 DEF Stages, LookupCovered, Covered
<1>7. ASSUME NEW i \in DOMAIN lookups, LookupFails(i) PROVE CoverInv'
  <2>1. Step(i, "failed", NoReport)
    BY <1>7 DEF LookupFails
  <2> QED
    BY <1>4, <2>1 DEF Stages, LookupCovered
<1>8. ASSUME NEW i \in DOMAIN lookups, Arrive(i) PROVE CoverInv'
  <2>1. lookups[i].text \in Text /\ lookups[i].report \in Report
    BY <1>0 DEF LookupType
  <2>2. \/ lookups[i].stage = "found" /\ data' = lookups[i].report /\ error' = error
        \/ data' = NoReport /\ error' = lookups[i].text
    BY <1>8 DEF Arrive
  <2>3. data' \in Report /\ error' \in Text \cup {None} /\ Covered(data)'
    BY <1>0, <2>1, <2>2 DEF CoverInv, Covered, NoReport, TypeOK
  <2>4. "done" \in Stages /\ LookupCovered([text |-> lookups[i].text, stage |-> "done", report |-> NoReport])
    BY DEF Stages, LookupCovered
  <2>5. /\ lookups' = [lookups EXCEPT ![i].stage = "done", ![i].report = NoReport]
        /\ UNCHANGED <<booksVars, url, quiet>> /\ input' \in Text \cup {None} /\ loading' \in BOOLEAN
    BY <1>0, <1>8 DEF Arrive, TypeOK
  <2> QED
    BY <2>3, <2>4, <2>5, CoverReplace
<1>9. ASSUME NEW j \in Job, WorkerWrites(j) PROVE CoverInv'
  BY <1>9, CoverWrites
<1>10. CASE UNCHANGED vars
  BY <1>0, <1>1, <1>10 DEF vars, pageVars, TypeOK
<1> QED
  BY <1>2, <1>3, <1>5, <1>6, <1>7, <1>8, <1>9, <1>10 DEF Next, Serving

\* Every state of the page and of the books has its type: the sums of a report are
\* counts, and its total fits a page.
THEOREM TypeCorrect == Spec => []TypeOK
<1>1. CoverInv => TypeOK
  BY DEF CoverInv
<1> QED
  BY <1>1, CoverInit, CoverStep, PTL DEF Spec

\* A report whose page is not full shows no more used than its rows account for,
\* whatever the worker writes between the two queries of it and after them.
THEOREM ReportsCovered == Spec => []ReportCovered
<1>1. CoverInv => ReportCovered
  BY DEF CoverInv, ReportCovered, Covered
<1> QED
  BY <1>1, CoverInit, CoverStep, PTL DEF Spec
=============================================================================
