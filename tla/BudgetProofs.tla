---------------------------- MODULE BudgetProofs ----------------------------
(***************************************************************************)
(* Theorems about Budget, for every set of requests and keys, all limits   *)
(* and all bounds on the faults.                                           *)
(*                                                                         *)
(* The argument.  The ledger equation Count = Consumed + Wasted - Lost is  *)
(* inductive given types; with it, the counter of a "requests" key never   *)
(* exceeds the limit (the script tests before it adds), which bounds the   *)
(* admitted calls by Limit + lost, and a refusal, which requires a full    *)
(* counter, implies consumption.  Without roll backs no counter is ever    *)
(* missing, so no check seeds and nothing is lost.                         *)
(***************************************************************************)
EXTENDS Budget, FiniteSetTheorems, TLAPS

\* The script tests before it adds: a "requests" counter stays within its limit.
CountWithinLimit == \A k \in Key : IsRequests(k) => Current(k) <= Limit[k]

\* No roll back so far: every counter is there, no check is about to seed,
\* and no unit was thrown away.
Intact ==
    rollBacks = 0 =>
        /\ \A k \in Key : counter[k] # Absent /\ lost[k] = 0
        /\ \A r \in Request : step[r] # "seed"

\* The interceptor runs the check that fits the key's budget type.
StageFits ==
    \A r \in Request :
        /\ step[r] \in {"exists", "seed", "eval"} => IsRequests(KeyOf[r])
        /\ step[r] = "get" => ~IsRequests(KeyOf[r])

\* The inductive invariant, without the conjunct that needs Init.
LedgerInv == TypeOK /\ StageFits /\ LedgerBalances /\ CountWithinLimit /\ NoFalseRefusal

USE DEF Absent
-----------------------------------------------------------------------------
\* Types.
LEMMA TypeInit == ASSUME NEW c \in {0, Absent}, InitWith(c) PROVE TypeOK
BY DEF InitWith, TypeOK, QueueOK, Steps, Absent

\* The connection stays a sequence of requests.
LEMMA QueueStep == QueueOK /\ [Next]_vars => QueueOK'
<1> SUFFICES ASSUME QueueOK, [Next]_vars PROVE QueueOK'
  OBVIOUS
<1> USE DEF QueueOK
<1>1. ASSUME NEW r \in Request, Intercept(r) PROVE QueueOK'
  BY <1>1 DEF Intercept
<1>2. ASSUME NEW r \in Request, NEW s, SendNext(r, s), unanswered' = unanswered PROVE QueueOK'
  BY <1>2 DEF SendNext, Answered
<1>3. ASSUME NEW r \in Request, NEW s, EndWith(r, s), unanswered' = unanswered PROVE QueueOK'
  BY <1>3 DEF EndWith, Answered
<1>4. ASSUME NEW r \in Request, CheckStep(r) \/ CheckFails(r) PROVE QueueOK'
  BY <1>2, <1>3, <1>4
  DEF CheckStep, CheckFails, Exists, Seed, EvalAccept, EvalReject, CheckOnly
<1>5. ASSUME NEW r \in Request, Unheard(r), queue' = queue PROVE QueueOK'
  BY <1>5 DEF Unheard
<1>6. CASE ReplyLost
  BY <1>5, <1>6
  DEF ReplyLost, EvalReplyLost, SeedReplyLost, ReadReplyLost, IncrementReplyLost
<1>7. CASE Crash
  BY <1>7 DEF Crash
<1>8. CASE UNCHANGED queue /\ unanswered' \in {0, unanswered}
  BY <1>8
<1> QED
  BY <1>1, <1>4, <1>6, <1>7, <1>8 DEF Next, IncrementBy, Reconnect, RollBack, vars

\* Every step preserves the types: in particular no count becomes negative.
LEMMA TypeStep == TypeOK /\ [Next]_vars => TypeOK'
<1> SUFFICES ASSUME TypeOK, [Next]_vars PROVE TypeOK'
  OBVIOUS
<1>0. QueueOK'
  BY QueueStep DEF TypeOK
<1> USE <1>0, KeyOfAssumption, AmountAssumption DEF TypeOK, Steps, Checking, Decided
<1>1. ASSUME NEW r \in Request, Intercept(r) PROVE TypeOK'
  BY <1>1 DEF Intercept, Goto
<1>2. ASSUME NEW r \in Request, Exists(r) PROVE TypeOK'
  BY <1>2 DEF Exists, SendNext, Goto
<1>3. ASSUME NEW r \in Request, Seed(r) PROVE TypeOK'
  BY <1>3 DEF Seed, SendNext, Goto, SetZero, ThrowAway, SetCounter, Current
<1>4. ASSUME NEW r \in Request, EvalAccept(r) PROVE TypeOK'
  BY <1>4 DEF EvalAccept, EndWith, Goto, SetCounter, Current
<1>5. ASSUME NEW r \in Request, EvalReject(r) \/ CheckOnly(r) \/ CheckFails(r) PROVE TypeOK'
  BY <1>5 DEF EvalReject, CheckOnly, CheckFails, EndWith, Goto
<1>6. ASSUME NEW k \in Key, NEW a \in Amount, IncrementBy(k, a) PROVE TypeOK'
  BY <1>6 DEF IncrementBy, SetCounter, Current
<1>7. ASSUME NEW r \in Request, EvalReplyLost(r) PROVE TypeOK'
  BY <1>7 DEF EvalReplyLost, Unheard, LoseReply, SetCounter, Current
<1>8. ASSUME NEW r \in Request, SeedReplyLost(r) \/ ReadReplyLost(r) PROVE TypeOK'
  <2>1. lostReplies' \in Nat
    BY <1>8 DEF SeedReplyLost, ReadReplyLost, Unheard, LoseReply
  <2>2. CASE SeedReplyLost(r)
    BY <2>1, <2>2 DEF SeedReplyLost, SetZero, ThrowAway, SetCounter, Current
  <2>3. CASE ReadReplyLost(r)
    BY <2>1, <2>3 DEF ReadReplyLost
  <2> QED
    BY <1>8, <2>2, <2>3
<1>9. ASSUME NEW k \in Key, NEW a \in Amount, IncrementReplyLost(k, a) PROVE TypeOK'
  BY <1>9 DEF IncrementReplyLost, LoseReply, SetCounter, Current
<1>10. ASSUME NEW k \in Key, NEW c \in Absent..counter[k], RollBack(k, c) PROVE TypeOK'
  BY <1>10 DEF RollBack, ThrowAway, SetCounter, Current
<1>11. CASE Crash
  BY <1>11 DEF Crash
<1>12. CASE Reconnect \/ UNCHANGED vars
  BY <1>12 DEF Reconnect, vars
<1> QED
  BY <1>1, <1>2, <1>3, <1>4, <1>5, <1>6, <1>7, <1>8, <1>9, <1>10, <1>11, <1>12
  DEF Next, CheckStep, ReplyLost

\* Type correctness: counters are counts or absent, and every check is at a
\* step of the interceptor's code.
THEOREM TypeCorrect == Spec => []TypeOK
<1>1. Init => TypeOK
  BY TypeInit DEF Init
<1>2. QED
  BY <1>1, TypeStep, PTL DEF Spec
-----------------------------------------------------------------------------
\* Counting the admitted calls.
LEMMA AdmittedCount ==
    \A k \in Key : IsFiniteSet(Admitted(k)) /\ Cardinality(Admitted(k)) \in Nat
BY RequestAssumption, FS_Subset, FS_CardinalityType DEF Admitted

\* A step that admits nobody leaves every count of admitted calls alone.
LEMMA NobodyAdmitted ==
    ASSUME \A r \in Request : step'[r] = "passed" <=> step[r] = "passed"
    PROVE  \A k \in Key : Admitted(k)' = Admitted(k)
BY DEF Admitted

\* A check that passes adds one call, to its own key.
LEMMA OneAdmitted ==
    ASSUME TypeOK, NEW r \in Request, step[r] # "passed", Goto(r, "passed")
    PROVE  \A k \in Key : Cardinality(Admitted(k)') =
                Cardinality(Admitted(k)) + (IF k = KeyOf[r] THEN 1 ELSE 0)
<1> TAKE k \in Key
<1>1. CASE k = KeyOf[r]
  <2>1. Admitted(k)' = Admitted(k) \cup {r} /\ r \notin Admitted(k)
    BY <1>1 DEF TypeOK, Goto, Admitted
  <2> QED
    BY <1>1, <2>1, AdmittedCount, FS_AddElement
<1>2. CASE k # KeyOf[r]
  <2>1. Admitted(k)' = Admitted(k)
    BY <1>2 DEF TypeOK, Goto, Admitted
  <2> QED
    BY <1>2, <2>1, AdmittedCount
<1> QED
  BY <1>1, <1>2
-----------------------------------------------------------------------------
LEMMA StageStep == TypeOK /\ StageFits /\ [Next]_vars => StageFits'
<1> SUFFICES ASSUME TypeOK, StageFits, [Next]_vars PROVE StageFits'
  OBVIOUS
<1> USE KeyOfAssumption DEF TypeOK, StageFits, IsRequests
<1>1. ASSUME step' = step PROVE StageFits'
  BY <1>1
<1>2. ASSUME NEW r \in Request, Intercept(r) PROVE StageFits'
  BY <1>2 DEF Intercept, Goto
<1>3. ASSUME NEW r \in Request, CheckStep(r) \/ CheckFails(r) PROVE StageFits'
  BY <1>3
  DEF CheckStep, CheckFails, Exists, Seed, EvalAccept, EvalReject, CheckOnly, Goto,
      SendNext, SetZero, EndWith
<1>4. CASE Crash
  BY <1>4 DEF Crash, Checking
<1> QED
  BY <1>1, <1>2, <1>3, <1>4 DEF Next, ReplyLost, EvalReplyLost, SeedReplyLost,
     ReadReplyLost, IncrementReplyLost, IncrementBy, Reconnect, RollBack, vars
-----------------------------------------------------------------------------
\* The ledger.
LEMMA CurrentType == TypeOK => \A k \in Key : Current(k) \in Nat
BY DEF TypeOK, Current

LEMMA ConsumedType == TypeOK => \A k \in Key : Consumed(k) \in Nat
BY AdmittedCount DEF TypeOK, Consumed

LEMMA ConsumedTypeNext == TypeOK' => \A k \in Key : Consumed(k)' \in Nat
<1>1. \A k \in Key : Cardinality(Admitted(k)') \in Nat
  BY RequestAssumption, FS_Subset, FS_CardinalityType DEF Admitted
<1> QED
  BY <1>1 DEF TypeOK, Consumed

\* Nobody is admitted and nothing is charged: consumption stands still.
LEMMA ConsumedSame ==
    ASSUME \A r \in Request : step'[r] = "passed" <=> step[r] = "passed",
           charged' = charged
    PROVE  \A k \in Key : Consumed(k)' = Consumed(k)
BY NobodyAdmitted DEF Consumed, IsRequests

\* Every step keeps the ledger balanced.
LEMMA LedgerStep == TypeOK /\ StageFits /\ LedgerBalances /\ [Next]_vars => LedgerBalances'
<1> SUFFICES ASSUME TypeOK, StageFits, LedgerBalances, [Next]_vars, NEW k \in Key
             PROVE  (Current(k) + lost[k] = Consumed(k) + wasted[k])'
  BY DEF LedgerBalances
<1> DEFINE Balance == Current(k) + lost[k] = Consumed(k) + wasted[k]
<1>0. /\ Balance
      /\ Current(k) \in Nat /\ Consumed(k) \in Nat /\ lost[k] \in Nat /\ wasted[k] \in Nat
  BY CurrentType, ConsumedType DEF LedgerBalances, TypeOK
\* The steps that only move a check between stages.
<1>1. ASSUME UNCHANGED <<counter, lost, wasted, charged>>,
             \A r \in Request : step'[r] = "passed" <=> step[r] = "passed"
      PROVE  Balance'
  BY <1>0, <1>1, ConsumedSame DEF Current
<1>2. ASSUME NEW r \in Request, Intercept(r) PROVE Balance'
  BY <1>1, <1>2 DEF Intercept, Goto, TypeOK
<1>3. ASSUME NEW r \in Request, Exists(r) PROVE Balance'
  BY <1>1, <1>3 DEF Exists, Goto, TypeOK, SendNext
<1>4. ASSUME NEW r \in Request, EvalReject(r) \/ CheckFails(r) PROVE Balance'
  BY <1>1, <1>4 DEF EvalReject, CheckFails, Checking, Goto, TypeOK, EndWith
<1>5. CASE Crash
  BY <1>1, <1>5 DEF Crash, TypeOK, Checking
<1>6. CASE Reconnect \/ UNCHANGED vars \/ \E r \in Request : ReadReplyLost(r)
  BY <1>1, <1>6 DEF Reconnect, ReadReplyLost, vars
\* The steps that throw units away, for whatever reason.
<1>7. ASSUME NEW j \in Key, NEW c \in Nat \cup {Absent}, ThrowAway(j, c),
             UNCHANGED <<wasted, charged>>,
             \A r \in Request : step'[r] = "passed" <=> step[r] = "passed"
      PROVE  Balance'
  <2>1. Consumed(k)' = Consumed(k)
    BY <1>7, ConsumedSame
  <2>2. CASE j = k
    BY <1>0, <1>7, <2>1, <2>2 DEF ThrowAway, SetCounter, Current, TypeOK
  <2>3. CASE j # k
    BY <1>0, <1>7, <2>1, <2>3 DEF ThrowAway, SetCounter, Current, TypeOK
  <2> QED
    BY <2>2, <2>3
<1>8. ASSUME NEW r \in Request, Seed(r) PROVE Balance'
  BY <1>7, <1>8, KeyOfAssumption DEF Seed, Goto, TypeOK, SendNext, SetZero
<1>9. ASSUME NEW r \in Request, SeedReplyLost(r) PROVE Balance'
  BY <1>7, <1>9, KeyOfAssumption DEF SeedReplyLost, SetZero
<1>10. ASSUME NEW j \in Key, NEW c \in Absent..counter[j], RollBack(j, c) PROVE Balance'
  BY <1>7, <1>10 DEF RollBack, TypeOK
\* The steps that count.
<1>11. ASSUME NEW r \in Request, EvalAccept(r) PROVE Balance'
  <2>0. IsRequests(KeyOf[r])
    BY <1>11 DEF EvalAccept, StageFits
  <2>1. Cardinality(Admitted(k))' = Cardinality(Admitted(k)) + (IF k = KeyOf[r] THEN 1 ELSE 0)
    BY <1>11, OneAdmitted DEF EvalAccept, EndWith
  <2>2. Consumed(k)' = Consumed(k) + (IF k = KeyOf[r] THEN 1 ELSE 0)
    BY <1>0, <1>11, <2>0, <2>1 DEF Consumed, IsRequests, EvalAccept
  <2> QED
    BY <1>0, <1>11, <2>2, KeyOfAssumption DEF EvalAccept, SetCounter, Current, TypeOK
<1>12. ASSUME NEW r \in Request, CheckOnly(r) PROVE Balance'
  <2>0. ~IsRequests(KeyOf[r])
    BY <1>12 DEF CheckOnly, StageFits
  <2>1. Consumed(k)' = Consumed(k)
    <3>1. CASE IsRequests(k)
      <4>1. Admitted(k)' = Admitted(k)
        BY <1>12, <2>0, <3>1 DEF CheckOnly, Goto, Admitted, TypeOK, EndWith
      <4> QED
        BY <3>1, <4>1 DEF Consumed, IsRequests
    <3>2. CASE ~IsRequests(k)
      BY <1>12, <3>2 DEF CheckOnly, Consumed, IsRequests
    <3> QED
      BY <3>1, <3>2
  <2> QED
    BY <1>0, <1>12, <2>1 DEF CheckOnly, Current
<1>13. ASSUME NEW j \in Key, NEW a \in Amount, IncrementBy(j, a) PROVE Balance'
  <2>1. Consumed(k)' = Consumed(k) + (IF k = j THEN a ELSE 0)
    <3>1. Admitted(k)' = Admitted(k)
      BY <1>13, NobodyAdmitted DEF IncrementBy
    <3> QED
      BY <1>0, <1>13, <3>1, AmountAssumption
      DEF IncrementBy, Consumed, IsRequests, TypeOK
  <2> QED
    BY <1>0, <1>13, <2>1, AmountAssumption DEF IncrementBy, SetCounter, Current, TypeOK
\* The steps that count without a call to show for it.
<1>14. ASSUME NEW r \in Request, EvalReplyLost(r) PROVE Balance'
  <2>1. Consumed(k)' = Consumed(k)
    BY <1>14, ConsumedSame DEF EvalReplyLost
  <2> QED
    BY <1>0, <1>14, <2>1, KeyOfAssumption DEF EvalReplyLost, SetCounter, Current, TypeOK
<1>15. ASSUME NEW j \in Key, NEW a \in Amount, IncrementReplyLost(j, a) PROVE Balance'
  <2>1. Consumed(k)' = Consumed(k)
    BY <1>15, ConsumedSame DEF IncrementReplyLost
  <2>2. /\ Current(k)' = Current(k) + (IF k = j THEN a ELSE 0)
        /\ wasted'[k] = wasted[k] + (IF k = j THEN a ELSE 0)
    BY <1>0, <1>15, AmountAssumption DEF IncrementReplyLost, SetCounter, Current, TypeOK
  <2> QED
    BY <1>0, <1>15, <2>1, <2>2, AmountAssumption DEF IncrementReplyLost
<1> QED
  BY <1>2, <1>3, <1>4, <1>5, <1>6, <1>8, <1>9, <1>10, <1>11, <1>12, <1>13, <1>14, <1>15
  DEF Next, CheckStep, ReplyLost

\* A "requests" counter stays within its limit: every step that adds to it
\* has tested it in the same command.
LEMMA CountStep == TypeOK /\ CountWithinLimit /\ [Next]_vars => CountWithinLimit'
<1> SUFFICES ASSUME TypeOK, CountWithinLimit, [Next]_vars,
                    NEW k \in Key, IsRequests(k)
             PROVE  Current(k)' <= Limit[k]
  BY DEF CountWithinLimit, IsRequests
<1> USE LimitAssumption, KeyOfAssumption DEF CountWithinLimit, TypeOK, Current
<1>1. ASSUME counter' = counter PROVE Current(k)' <= Limit[k]
  BY <1>1
<1>2. ASSUME NEW r \in Request, SetCounter(KeyOf[r], 0) PROVE Current(k)' <= Limit[k]
  BY <1>2 DEF SetCounter
<1>3. ASSUME NEW r \in Request, LuaAccepts(KeyOf[r]),
             SetCounter(KeyOf[r], Current(KeyOf[r]) + 1)
      PROVE  Current(k)' <= Limit[k]
  BY <1>3 DEF SetCounter, LuaAccepts
<1>4. ASSUME NEW j \in Key, NEW a \in Amount, ~IsRequests(j), SetCounter(j, Current(j) + a)
      PROVE  Current(k)' <= Limit[k]
  BY <1>4 DEF SetCounter
<1>5. ASSUME NEW j \in Key, NEW c \in Absent..counter[j], SetCounter(j, c)
      PROVE  Current(k)' <= Limit[k]
  BY <1>5 DEF SetCounter
<1> QED
  BY <1>1, <1>2, <1>3, <1>4, <1>5
  DEF Next, CheckStep, ReplyLost, Intercept, Exists, Seed, EvalAccept, EvalReject,
      CheckOnly, IncrementBy, EvalReplyLost, SeedReplyLost, IncrementReplyLost,
      RollBack, ThrowAway, Crash, vars, CheckFails, EndWith, ReadReplyLost,
      Reconnect, SendNext, SetZero
-----------------------------------------------------------------------------
\* Consumption and waste only grow: what justified a refusal keeps doing so.
LEMMA ConsumedGrows ==
    TypeOK /\ StageFits /\ [Next]_vars =>
        \A k \in Key : Consumed(k)' >= Consumed(k) /\ wasted'[k] >= wasted[k]
<1> SUFFICES ASSUME TypeOK, StageFits, [Next]_vars, NEW k \in Key
             PROVE  Consumed(k)' >= Consumed(k) /\ wasted'[k] >= wasted[k]
  OBVIOUS
<1>1. TypeOK'
  BY TypeStep
<1>2. Admitted(k) \subseteq Admitted(k)'
  BY DEF Next, CheckStep, ReplyLost, Intercept, Exists, Seed, EvalAccept, EvalReject,
         CheckOnly, IncrementBy, EvalReplyLost, SeedReplyLost, IncrementReplyLost,
         RollBack, Crash, vars, Goto, Admitted, TypeOK, Checking, CheckFails,
         EndWith, ReadReplyLost, Reconnect, SendNext, SetZero
<1>3. charged'[k] >= charged[k] /\ wasted'[k] >= wasted[k]
  <2>0. charged[k] \in Nat /\ wasted[k] \in Nat
    BY DEF TypeOK
  <2>1. ASSUME NEW j \in Key, NEW a \in Amount, IncrementBy(j, a) \/ IncrementReplyLost(j, a)
        PROVE  charged'[k] >= charged[k] /\ wasted'[k] >= wasted[k]
    BY <2>0, <2>1, AmountAssumption DEF IncrementBy, IncrementReplyLost, TypeOK
  <2>2. ASSUME NEW r \in Request, EvalReplyLost(r)
        PROVE  charged'[k] >= charged[k] /\ wasted'[k] >= wasted[k]
    BY <2>0, <2>2 DEF EvalReplyLost, TypeOK
  <2>3. CASE UNCHANGED <<charged, wasted>>
    BY <2>0, <2>3
  <2> QED
    BY <2>1, <2>2, <2>3
    DEF Next, CheckStep, CheckFails, ReplyLost, Intercept, Exists, Seed, EvalAccept,
        EvalReject,
        CheckOnly, SeedReplyLost, ReadReplyLost, Reconnect, RollBack, Crash, vars
<1>4. Cardinality(Admitted(k)') >= Cardinality(Admitted(k))
  <2>1. Admitted(k)' \in SUBSET Request /\ IsFiniteSet(Admitted(k)')
    BY RequestAssumption, FS_Subset DEF Admitted
  <2> QED
    BY <1>2, <2>1, FS_Subset, FS_CardinalityType
<1> QED
  BY <1>3, <1>4 DEF Consumed, IsRequests

\* A refusal sees a full counter, and the ledger says what filled it.
LEMMA RefusalStep ==
    LedgerInv /\ [Next]_vars => NoFalseRefusal'
<1> SUFFICES ASSUME LedgerInv, [Next]_vars, NEW r \in Request, step'[r] = "refused"
             PROVE  (Consumed(KeyOf[r]) + wasted[KeyOf[r]] >= Limit[KeyOf[r]])'
  BY DEF NoFalseRefusal
<1> USE LimitAssumption, KeyOfAssumption
<1>1. /\ Consumed(KeyOf[r]) \in Nat /\ Consumed(KeyOf[r])' \in Nat
      /\ wasted[KeyOf[r]] \in Nat /\ wasted'[KeyOf[r]] \in Nat
      /\ lost[KeyOf[r]] \in Nat /\ Current(KeyOf[r]) \in Nat
  <2>1. TypeOK /\ TypeOK'
    BY TypeStep DEF LedgerInv
  <2>2. Consumed(KeyOf[r])' \in Nat
    BY <2>1, ConsumedTypeNext
  <2>3. Consumed(KeyOf[r]) \in Nat /\ Current(KeyOf[r]) \in Nat
    BY <2>1, ConsumedType, CurrentType
  <2> QED
    BY <2>1, <2>2, <2>3 DEF TypeOK
<1>2. /\ Consumed(KeyOf[r])' >= Consumed(KeyOf[r])
      /\ wasted'[KeyOf[r]] >= wasted[KeyOf[r]]
  BY ConsumedGrows DEF LedgerInv
<1>3. CASE step[r] = "refused"
  BY <1>1, <1>2, <1>3 DEF LedgerInv, NoFalseRefusal
<1>4. CASE step[r] # "refused"
  <2>1. EvalReject(r) \/ CheckOnly(r)
    BY <1>4
    DEF Next, CheckStep, ReplyLost, Intercept, Exists, Seed, EvalAccept, EvalReject,
         CheckOnly, IncrementBy, EvalReplyLost, SeedReplyLost, IncrementReplyLost,
         RollBack, Crash, vars, Goto, LedgerInv, TypeOK, CheckFails, EndWith,
         ReadReplyLost, Reconnect, SendNext, SetZero
  <2>2. Current(KeyOf[r]) >= Limit[KeyOf[r]]
    BY <1>1, <1>4, <2>1
    DEF EvalReject, CheckOnly, LuaAccepts, Goto, LedgerInv, TypeOK, EndWith
  <2> QED
    BY <1>1, <1>2, <2>2 DEF LedgerInv, LedgerBalances
<1> QED
  BY <1>3, <1>4

\* Without calls in flight and without consumption the ledger is all zeros.
LEMMA LedgerInit == ASSUME NEW c \in {0, Absent}, InitWith(c) PROVE LedgerInv
<1>1. TypeOK
  BY TypeInit
<1>2. \A k \in Key : Admitted(k) = {}
  BY DEF InitWith, Admitted
<1>3. \A k \in Key : Consumed(k) = 0 /\ Current(k) = 0
  BY <1>2, FS_EmptySet DEF InitWith, Consumed, Current
<1> QED
  BY <1>1, <1>3, LimitAssumption, KeyOfAssumption
  DEF InitWith, LedgerInv, StageFits, LedgerBalances, CountWithinLimit, NoFalseRefusal

LEMMA LedgerInvStep == LedgerInv /\ [Next]_vars => LedgerInv'
BY TypeStep, StageStep, LedgerStep, CountStep, RefusalStep DEF LedgerInv

\* The inductive invariant holds, whether Redis started with the counts or empty.
LEMMA LedgerAlways == (Spec => []LedgerInv) /\ (RestartSpec => []LedgerInv)
<1>1. Init => LedgerInv
  BY LedgerInit DEF Init
<1>2. InitAfterRestart => LedgerInv
  BY LedgerInit DEF InitAfterRestart
<1>3. QED
  BY <1>1, <1>2, LedgerInvStep, PTL DEF Spec, RestartSpec
-----------------------------------------------------------------------------
\* The safety properties of the check.

\* The counter, what was thrown away and what was counted twice account for
\* every admitted call and every charge.
THEOREM Ledger == (Spec => []LedgerBalances) /\ (RestartSpec => []LedgerBalances)
<1>1. LedgerInv => LedgerBalances
  BY DEF LedgerInv
<1>2. QED
  BY <1>1, LedgerAlways, PTL

\* LedgerInv says it: no refusal without consumption, after any fault.
THEOREM RefusalsAreDue == (Spec => []NoFalseRefusal) /\ (RestartSpec => []NoFalseRefusal)
<1>1. LedgerInv => NoFalseRefusal
  BY DEF LedgerInv
<1>2. QED
  BY <1>1, LedgerAlways, PTL

\* |Admitted| = Current + lost - wasted <= Limit + lost.
LEMMA LedgerBoundsOverspend == LedgerInv => OverspendBound
<1> SUFFICES ASSUME LedgerInv, NEW k \in Key, IsRequests(k)
             PROVE  Cardinality(Admitted(k)) <= Limit[k] + lost[k]
  BY DEF OverspendBound
<1>1. /\ Current(k) + lost[k] = Cardinality(Admitted(k)) + wasted[k]
      /\ Current(k) <= Limit[k]
  BY DEF LedgerInv, LedgerBalances, CountWithinLimit, Consumed
<1>2. /\ Current(k) \in Nat /\ Cardinality(Admitted(k)) \in Nat
      /\ lost[k] \in Nat /\ wasted[k] \in Nat /\ Limit[k] \in Nat
  BY CurrentType, AdmittedCount, LimitAssumption DEF LedgerInv, TypeOK
<1> QED
  BY <1>1, <1>2

\* The overshoot of a "requests" key is bounded by the units thrown away,
\* also when the gateway starts against an empty Redis.
THEOREM Overspend == (Spec => []OverspendBound) /\ (RestartSpec => []OverspendBound)
<1>1. QED
  BY LedgerBoundsOverspend, LedgerAlways, PTL

\* Only a roll back makes a counter absent, so without one nobody seeds.
LEMMA IntactStep == TypeOK /\ Intact /\ [Next]_vars => Intact'
<1> SUFFICES ASSUME TypeOK, Intact, [Next]_vars, rollBacks' = 0 PROVE Intact'
  BY DEF Intact
<1> USE KeyOfAssumption, AmountAssumption DEF TypeOK, Intact
<1>1. CASE UNCHANGED <<counter, lost, rollBacks>> /\ \A r \in Request : step'[r] = "seed" => step[r] = "seed"
  BY <1>1
<1>2. ASSUME NEW r \in Request, CheckStep(r) \/ EvalReplyLost(r) \/ SeedReplyLost(r) PROVE Intact'
  BY <1>2 DEF CheckStep, Exists, Seed, EvalAccept, EvalReject, CheckOnly, EvalReplyLost,
              SeedReplyLost, Goto, SetCounter, Current, SendNext, SetZero, EndWith
<1>3. ASSUME NEW k \in Key, NEW a \in Amount, IncrementBy(k, a) \/ IncrementReplyLost(k, a)
      PROVE  Intact'
  BY <1>3 DEF IncrementBy, IncrementReplyLost, SetCounter, Current
<1>4. ASSUME NEW k \in Key, NEW c \in Absent..counter[k], RollBack(k, c) PROVE Intact'
  BY <1>4 DEF RollBack
<1> QED
  BY <1>1, <1>2, <1>3, <1>4
  DEF Next, CheckFails, ReplyLost, ReadReplyLost, Reconnect, Intercept, EndWith,
      Goto, Crash, Checking, vars

LEMMA IntactAlways == Spec => []Intact
<1>1. Init => Intact
  BY DEF Init, InitWith, Intact
<1>2. QED
  BY <1>1, IntactStep, TypeCorrect, PTL DEF Spec

\* Zero overshoot while Redis keeps its counts, under any concurrency.
THEOREM ZeroOverspend == Spec => []NoOverspend
<1>1. LedgerInv /\ Intact => NoOverspend
  <2> SUFFICES ASSUME OverspendBound, Intact, rollBacks = 0, NEW k \in Key, IsRequests(k)
               PROVE  Cardinality(Admitted(k)) <= Limit[k]
    BY LedgerBoundsOverspend DEF NoOverspend
  <2> QED
    BY LimitAssumption DEF OverspendBound, Intact
<1>2. QED
  BY <1>1, LedgerAlways, IntactAlways, PTL
-----------------------------------------------------------------------------
\* Exhaustion is final: an admission sees a counter below the limit, and an
\* untouched counter is at least what was consumed.
THEOREM Exhaustion == Spec => ExhaustionIsFinal
<1>1. LedgerInv /\ [Next]_vars =>
        \A r \in Request :
            (lost[KeyOf[r]] = 0 /\ Consumed(KeyOf[r]) >= Limit[KeyOf[r]])
                => (step'[r] = "passed" => step[r] = "passed")
  <2> SUFFICES ASSUME LedgerInv, [Next]_vars, NEW r \in Request,
                      lost[KeyOf[r]] = 0, Consumed(KeyOf[r]) >= Limit[KeyOf[r]],
                      step[r] # "passed", step'[r] = "passed"
               PROVE  FALSE
    OBVIOUS
  <2>1. EvalAccept(r) \/ CheckOnly(r)
    BY DEF Next, CheckStep, ReplyLost, Intercept, Exists, Seed, EvalAccept, EvalReject,
         CheckOnly, IncrementBy, EvalReplyLost, SeedReplyLost, IncrementReplyLost,
         RollBack, Crash, vars, Goto, LedgerInv, TypeOK, CheckFails, EndWith,
         ReadReplyLost, Reconnect, SendNext, SetZero
  <2>2. /\ Consumed(KeyOf[r]) \in Nat /\ Current(KeyOf[r]) \in Nat
        /\ wasted[KeyOf[r]] \in Nat /\ Limit[KeyOf[r]] \in Nat
    BY ConsumedType, CurrentType, LimitAssumption, KeyOfAssumption DEF LedgerInv, TypeOK
  <2>3. Current(KeyOf[r]) < Limit[KeyOf[r]]
    BY <2>1, <2>2
    DEF EvalAccept, CheckOnly, LuaAccepts, Goto, LedgerInv, TypeOK, EndWith
  <2> QED
    BY <2>2, <2>3, KeyOfAssumption DEF LedgerInv, LedgerBalances
<1>2. QED
  BY <1>1, LedgerAlways, PTL DEF Spec, ExhaustionIsFinal
-----------------------------------------------------------------------------
\* Refinement: the check implements the atomic gate.

\* The gate's count is the counter.
LEMMA GateCount == LedgerInv => \A k \in Key : Gate!Count(k) = Current(k)
<1> SUFFICES ASSUME LedgerInv, NEW k \in Key PROVE Used[k] + wasted[k] - lost[k] = Current(k)
  BY DEF Gate!Count
<1>1. Current(k) + lost[k] = Consumed(k) + wasted[k]
  BY DEF LedgerInv, LedgerBalances
<1>2. Current(k) \in Nat /\ Consumed(k) \in Nat /\ lost[k] \in Nat /\ wasted[k] \in Nat
  BY CurrentType, ConsumedType DEF LedgerInv, TypeOK
<1> QED
  BY <1>1, <1>2 DEF Used

\* A step that decides nobody and consumes nothing keeps the mapped state.
LEMMA MappingSame ==
    ASSUME \A r \in Request : Decision'[r] = Decision[r],
           \A k \in Key : Consumed(k)' = Consumed(k)
    PROVE  Decision' = Decision /\ Used' = Used
BY DEF Decision, Used

LEMMA GateInit == Init => Gate!Init
<1> SUFFICES ASSUME Init PROVE Gate!Init
  OBVIOUS
<1>1. \A k \in Key : Admitted(k) = {}
  BY DEF Init, InitWith, Admitted
<1>2. Used = [k \in Key |-> 0]
  BY <1>1, FS_EmptySet DEF Init, InitWith, Used, Consumed
<1>3. Decision = [r \in Request |-> "open"]
  BY DEF Init, InitWith, Decision
<1> QED
  BY <1>2, <1>3 DEF Gate!Init, Init, InitWith

\* Every step of the check is a step of the gate, or leaves its state alone.
LEMMA GateStep == LedgerInv /\ [Next]_vars => [Gate!Next]_(Gate!gateVars)
<1> SUFFICES ASSUME LedgerInv, [Next]_vars PROVE [Gate!Next]_(Gate!gateVars)
  OBVIOUS
<1>0. TypeOK /\ TypeOK' /\ LedgerInv'
  BY LedgerInvStep DEF LedgerInv
<1>1. /\ \A k \in Key : Gate!Count(k) = Current(k)
      /\ \A k \in Key : Gate!Count(k)' = Current(k)'
  <2>1. ASSUME LedgerInv' PROVE \A k \in Key : Gate!Count(k)' = Current(k)'
    <3> SUFFICES ASSUME NEW k \in Key PROVE (Used[k] + wasted[k] - lost[k])' = Current(k)'
      BY DEF Gate!Count
    <3>1. (Current(k) + lost[k])' = (Consumed(k) + wasted[k])'
      BY <2>1 DEF LedgerInv, LedgerBalances
    <3>2. (Current(k) \in Nat /\ lost[k] \in Nat /\ wasted[k] \in Nat)'
      BY <1>0 DEF TypeOK, Current
    <3>3. Consumed(k)' \in Nat
      BY <1>0, ConsumedTypeNext
    <3> QED
      BY <3>1, <3>2, <3>3 DEF Used
  <2> QED
    BY <1>0, <2>1, GateCount
\* Moves between stages are invisible.
<1>2. ASSUME UNCHANGED <<lost, wasted, charged>>,
             \A r \in Request : (step'[r] = step[r]) \/
                 (step[r] \in {"idle"} \cup Checking /\ step'[r] \in {"idle"} \cup Checking)
      PROVE  UNCHANGED Gate!gateVars
  <2>1. \A r \in Request : step'[r] = "passed" <=> step[r] = "passed"
    BY <1>2 DEF Checking
  <2>2. \A k \in Key : Consumed(k)' = Consumed(k)
    BY <1>2, <2>1, ConsumedSame
  <2>3. \A r \in Request : Decision'[r] = Decision[r]
    BY <1>2 DEF Decision, Checking
  <2> QED
    BY <1>2, <2>2, <2>3, MappingSame DEF Gate!gateVars
<1>3. ASSUME NEW r \in Request, Intercept(r) \/ Exists(r) PROVE UNCHANGED Gate!gateVars
  BY <1>0, <1>2, <1>3 DEF Intercept, Exists, Goto, TypeOK, Checking, SendNext
<1>4. ASSUME Reconnect \/ UNCHANGED vars \/ \E r \in Request : ReadReplyLost(r)
      PROVE  UNCHANGED Gate!gateVars
  BY <1>2, <1>4 DEF Reconnect, ReadReplyLost, vars
\* A decision.
<1>5. ASSUME NEW r \in Request, EvalReject(r) \/ (CheckOnly(r) /\ step'[r] = "refused")
      PROVE  Gate!Refuse(r)
  <2>1. \A q \in Request : step'[q] = "passed" <=> step[q] = "passed"
    BY <1>0, <1>5 DEF EvalReject, CheckOnly, Goto, TypeOK, EndWith
  <2>2. \A k \in Key : Consumed(k)' = Consumed(k)
    BY <1>5, <2>1, ConsumedSame DEF EvalReject, CheckOnly
  <2>3. Used' = Used
    BY <2>2 DEF Used
  <2>4. Decision[r] = "open" /\ Decision' = [Decision EXCEPT ![r] = "refused"]
    BY <1>0, <1>5 DEF EvalReject, CheckOnly, Goto, Decision, TypeOK, EndWith
  <2>5. Current(KeyOf[r]) >= Limit[KeyOf[r]]
    BY <1>0, <1>5, CurrentType, LimitAssumption, KeyOfAssumption
    DEF EvalReject, CheckOnly, LuaAccepts, Goto, TypeOK, EndWith
  <2> QED
    BY <1>1, <1>5, <2>3, <2>4, <2>5, KeyOfAssumption
    DEF Gate!Refuse, Gate!Decide, EvalReject, CheckOnly
<1>6. ASSUME NEW r \in Request, EvalAccept(r) \/ (CheckOnly(r) /\ step'[r] = "passed")
      PROVE  Gate!Admit(r)
  <2>1. Decision[r] = "open" /\ Decision' = [Decision EXCEPT ![r] = "admitted"]
    BY <1>0, <1>6 DEF EvalAccept, CheckOnly, Goto, Decision, TypeOK, EndWith
  <2>2. Current(KeyOf[r]) < Limit[KeyOf[r]]
    BY <1>0, <1>6, CurrentType, LimitAssumption, KeyOfAssumption
    DEF EvalAccept, CheckOnly, LuaAccepts, Goto, TypeOK, EndWith
  <2>3. \A k \in Key : Cardinality(Admitted(k)') =
                Cardinality(Admitted(k)) + (IF k = KeyOf[r] THEN 1 ELSE 0)
    BY <1>0, <1>6, OneAdmitted DEF EvalAccept, CheckOnly, Goto, TypeOK, EndWith
  <2>4. IsRequests(KeyOf[r]) <=> EvalAccept(r)
    BY <1>6 DEF LedgerInv, StageFits, EvalAccept, CheckOnly
  <2>5. charged' = charged /\ UNCHANGED <<lost, wasted>>
    BY <1>6 DEF EvalAccept, CheckOnly
  <2>6. CASE IsRequests(KeyOf[r])
    <3>1. \A k \in Key : Consumed(k)' = Consumed(k) + (IF k = KeyOf[r] THEN 1 ELSE 0)
      BY <1>0, <2>3, <2>5, <2>6, ConsumedType DEF Consumed, IsRequests
    <3>2. Used' = [Used EXCEPT ![KeyOf[r]] = @ + 1]
      BY <1>0, <3>1, KeyOfAssumption, ConsumedType DEF Used
    <3> QED
      BY <1>1, <2>1, <2>2, <2>5, <2>6, <3>2, KeyOfAssumption
      DEF Gate!Admit, Gate!Decide, Gate!IsCounted, IsRequests
  <2>7. CASE ~IsRequests(KeyOf[r])
    <3>1. \A k \in Key : Consumed(k)' = Consumed(k)
      BY <1>0, <2>3, <2>5, <2>7, AdmittedCount DEF Consumed, IsRequests
    <3>2. Used' = Used
      BY <3>1 DEF Used
    <3> QED
      BY <1>1, <2>1, <2>2, <2>5, <2>7, <3>2, KeyOfAssumption
      DEF Gate!Admit, Gate!Decide, Gate!IsCounted, IsRequests
  <2> QED
    BY <2>6, <2>7
\* Units thrown away.
<1>7. ASSUME NEW k \in Key, NEW c \in Nat \cup {Absent}, ThrowAway(k, c),
             c <= counter[k] \/ c = 0,
             UNCHANGED <<wasted, charged>>,
             \A r \in Request : (step'[r] = step[r]) \/
                 (step[r] \in Checking /\ step'[r] \in Checking)
      PROVE  Gate!Forgive(k)
  <2>1. \A q \in Request : step'[q] = "passed" <=> step[q] = "passed"
    BY <1>7 DEF Checking
  <2>2. \A j \in Key : Consumed(j)' = Consumed(j)
    BY <1>7, <2>1, ConsumedSame
  <2>3. \A r \in Request : Decision'[r] = Decision[r]
    BY <1>7 DEF Decision, Checking
  <2>4. Used' = Used /\ Decision' = Decision
    BY <2>2, <2>3, MappingSame
  <2>5. /\ lost'[k] - lost[k] \in Nat
        /\ lost'[k] - lost[k] <= Current(k)
        /\ lost' = [lost EXCEPT ![k] = @ + (lost'[k] - lost[k])]
    <3> DEFINE d == Current(k) - (IF c = Absent THEN 0 ELSE c)
    <3>1. Current(k) \in Nat /\ lost[k] \in Nat
      BY <1>0, CurrentType DEF TypeOK
    <3>2. d \in Nat /\ d <= Current(k)
      BY <1>0, <1>7, <3>1 DEF Current, TypeOK
    <3>3. lost[k] + Current(k) - (IF c = Absent THEN 0 ELSE c) = lost[k] + d
      BY <3>1, <3>2
    <3>4. lost' = [lost EXCEPT ![k] = @ + d]
      BY <1>7, <3>3 DEF ThrowAway
    <3> HIDE DEF d
    <3>5. lost'[k] - lost[k] = d
      BY <1>0, <3>1, <3>2, <3>4 DEF TypeOK
    <3> QED
      BY <3>2, <3>4, <3>5
  <2> QED
    BY <1>1, <1>7, <2>4, <2>5 DEF Gate!Forgive, Gate!Grows
<1>8. ASSUME NEW r \in Request, Seed(r) \/ SeedReplyLost(r) PROVE Gate!Forgive(KeyOf[r])
  BY <1>0, <1>7, <1>8, KeyOfAssumption
  DEF Seed, SeedReplyLost, Goto, TypeOK, Checking, SendNext, SetZero
<1>9. ASSUME NEW k \in Key, NEW c \in Absent..counter[k], RollBack(k, c) PROVE Gate!Forgive(k)
  BY <1>0, <1>7, <1>9 DEF RollBack, TypeOK
\* A charge of the worker.
<1>10. ASSUME NEW k \in Key, NEW a \in Amount, IncrementBy(k, a) PROVE Gate!Charge(k)
  <2>1. Decision' = Decision
    BY <1>10 DEF IncrementBy, Decision
  <2>2. \A j \in Key : Consumed(j)' = Consumed(j) + (IF j = k THEN a ELSE 0)
    <3>1. \A j \in Key : Admitted(j)' = Admitted(j)
      BY <1>10, NobodyAdmitted DEF IncrementBy
    <3> QED
      BY <1>0, <1>10, <3>1, AmountAssumption, AdmittedCount
      DEF IncrementBy, Consumed, IsRequests, TypeOK
  <2>3. Used'[k] - Used[k] = a /\ Used' = [Used EXCEPT ![k] = @ + a]
    <3>1. Consumed(k) \in Nat /\ a \in Nat
      BY <1>0, ConsumedType, AmountAssumption
    <3>2. Used'[k] = Used[k] + a
      BY <2>2 DEF Used
    <3>3. Used' = [j \in Key |-> Consumed(j) + (IF j = k THEN a ELSE 0)]
      BY <2>2 DEF Used
    <3>4. \A j \in Key : Consumed(j) + 0 = Consumed(j)
      BY <1>0, ConsumedType
    <3>5. Used' = [Used EXCEPT ![k] = @ + a]
      BY <3>3, <3>4 DEF Used
    <3> QED
      BY <3>1, <3>2, <3>5 DEF Used
  <2> QED
    BY <1>10, <2>1, <2>3, AmountAssumption
    DEF Gate!Charge, Gate!Grows, Gate!IsCounted, IncrementBy, IsRequests
\* A command that counts twice.
<1>11. ASSUME NEW k \in Key, NEW a \in Nat, UNCHANGED <<step, lost, charged>>,
              wasted' = [wasted EXCEPT ![k] = @ + a]
       PROVE  Gate!Overcount(k)
  <2>1. \A j \in Key : Consumed(j)' = Consumed(j)
    BY <1>11, ConsumedSame
  <2>2. Used' = Used /\ Decision' = Decision
    BY <1>11, <2>1 DEF Used, Decision
  <2>3. IsRequests(k) => Gate!Count(k)' <= Limit[k]
    BY <1>0, <1>1 DEF LedgerInv, CountWithinLimit, IsRequests
  <2>4. wasted'[k] - wasted[k] = a
    BY <1>0, <1>11 DEF TypeOK
  <2> QED
    BY <1>11, <2>2, <2>3, <2>4
    DEF Gate!Overcount, Gate!Grows, Gate!IsCounted, IsRequests
<1>12. ASSUME NEW r \in Request, EvalReplyLost(r) PROVE Gate!Overcount(KeyOf[r])
  BY <1>11, <1>12, KeyOfAssumption DEF EvalReplyLost
<1>13. ASSUME NEW k \in Key, NEW a \in Amount, IncrementReplyLost(k, a) PROVE Gate!Overcount(k)
  BY <1>11, <1>13, AmountAssumption DEF IncrementReplyLost
\* Checks that die with the process.
<1>14. ASSUME Crash PROVE Gate!Drop
  <2>1. \A q \in Request : step'[q] = "passed" <=> step[q] = "passed"
    BY <1>14 DEF Crash, Checking
  <2>2. \A k \in Key : Consumed(k)' = Consumed(k)
    BY <1>14, <2>1, ConsumedSame DEF Crash
  <2> DEFINE S == {r \in Request : step[r] \in Checking}
  <2>3. Decision' = [r \in Request |->
              IF r \in S /\ Decision[r] = "open" THEN "dropped" ELSE Decision[r]]
    BY <1>14 DEF Crash, Decision, Checking
  <2>4. Used' = Used
    BY <2>2 DEF Used
  <2>5. S \in SUBSET Request
    OBVIOUS
  <2> QED
    BY <1>14, <2>3, <2>4, <2>5 DEF Gate!Drop, Crash
\* A check that ends with an error.
<1>15. ASSUME NEW r \in Request, CheckFails(r) PROVE Gate!Drop
  <2>1. \A q \in Request : step'[q] = "passed" <=> step[q] = "passed"
    BY <1>0, <1>15 DEF CheckFails, EndWith, Goto, TypeOK, Checking
  <2>2. \A k \in Key : Consumed(k)' = Consumed(k)
    BY <1>15, <2>1, ConsumedSame DEF CheckFails
  <2>3. Decision' = [q \in Request |->
              IF q \in {r} /\ Decision[q] = "open" THEN "dropped" ELSE Decision[q]]
    BY <1>0, <1>15 DEF CheckFails, EndWith, Goto, Decision, TypeOK, Checking
  <2>4. Used' = Used
    BY <2>2 DEF Used
  <2>5. {r} \in SUBSET Request
    OBVIOUS
  <2> QED
    BY <1>15, <2>3, <2>4, <2>5 DEF Gate!Drop, CheckFails
<1>16. ASSUME NEW r \in Request, CheckOnly(r) PROVE step'[r] = "passed" \/ step'[r] = "refused"
  BY <1>0, <1>16 DEF CheckOnly, Goto, TypeOK, EndWith
<1> QED
  BY <1>3, <1>4, <1>5, <1>6, <1>8, <1>9, <1>10, <1>12, <1>13, <1>14, <1>15, <1>16, KeyOfAssumption
  DEF Next, CheckStep, ReplyLost, Gate!Next

\* The check of three round trips implements the atomic gate.
THEOREM Refinement == Spec => ImplementsGate
<1>1. Init => Gate!Init
  BY GateInit
<1>2. QED
  BY <1>1, GateStep, LedgerAlways, PTL DEF Spec, ImplementsGate, Gate!Spec
=============================================================================
