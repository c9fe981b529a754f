-------------------------- MODULE AdmissionProofs ---------------------------
(***************************************************************************)
(* Idempotency keys and the budget, proved for every number of requests,   *)
(* organizations, keys and bodies, and for any costs; what is said of the  *)
(* budget of an organization, as long as none of its tasks has a negative  *)
(* estimate.  The argument: the                                            *)
(* advisory lock lets one transaction per key through the look-up and the  *)
(* insert, and the lock of the subscription one per organization through   *)
(* the check and the insert, so that what it has not found cannot appear,  *)
(* and what it has checked cannot be used up, before it commits.           *)
(***************************************************************************)
EXTENDS Admission, SumProofs

Keyed(r) == KeyOf[r] # NoKey

Searched == {"subscription", "used", "committed", "insert"}

OneHolder ==
  \A r, q \in Request :
    Keyed(r) /\ RowKey(r) = RowKey(q) /\ at[r] \in InTransaction /\ at[q] \in InTransaction
      => r = q

LookersHaveKeys == \A r \in Request : at[r] = "lookup" => Keyed(r)

NothingFound ==
  \A r \in Request : Keyed(r) /\ at[r] \in Searched => keyRow[RowKey(r)] = NoTask

(* The rows of idempotency_keys are the tasks created under a key.         *)
RowsAreTasks ==
  /\ \A r \in Request : Keyed(r) /\ task[r] # "none" => keyRow[RowKey(r)] = r
  /\ \A k \in Org \X Key :
       keyRow[k] # NoTask => RowKey(keyRow[k]) = k /\ task[keyRow[k]] # "none"

AnswersAreRows ==
  \A r \in Request :
    Keyed(r) /\ answer[r] \in Request =>
      keyRow[RowKey(r)] = answer[r] /\ BodyOf[answer[r]] = BodyOf[r]

KeyInv ==
  /\ at = [r \in Request |-> at[r]]
  /\ answer = [r \in Request |-> answer[r]]
  /\ task = [r \in Request |-> task[r]]
  /\ keyRow \in [Org \X Key -> Request \cup {NoTask}]
  /\ OneHolder
  /\ LookersHaveKeys
  /\ NothingFound
  /\ RowsAreTasks
  /\ AnswersAreRows
  /\ RetryIsNeverRefused

LEMMA KeysOfRows == \A r \in Request : Keyed(r) => RowKey(r) \in Org \X Key
  BY AdmissionConstants DEF Keyed, RowKey

LEMMA KeyInit == Init => KeyInv
<1>1. NoTask \notin Request /\ NoTask # "key_conflict"
  BY AdmissionConstants, ErrorsAreNoTasks DEF Refusal
<1>2. QED
  BY <1>1, KeysOfRows DEF Init, KeyInv, OneHolder, LookersHaveKeys, NothingFound, RowsAreTasks,
       AnswersAreRows, RetryIsNeverRefused, InTransaction, Searched

-----------------------------------------------------------------------------
(* A transaction goes on to its next statement: it has the lock of its key *)
(* or takes it, and is past the look-up only with nothing found.           *)
LEMMA GoingOnKeepsKeys ==
  ASSUME KeyInv, NEW r \in Request, NEW step,
         at' = [at EXCEPT ![r] = step], UNCHANGED <<answer, keyRow, task>>,
         Keyed(r) => at[r] \in InTransaction \/ KeyUnlocked(r),
         step = "lookup" => Keyed(r),
         Keyed(r) /\ step \in Searched => keyRow[RowKey(r)] = NoTask
  PROVE  KeyInv'
<1>1. at'[r] = step /\ \A q \in Request \ {r} : at'[q] = at[q]
  BY DEF KeyInv
<1>2. OneHolder'
  <2>1. SUFFICES ASSUME NEW q \in Request, NEW p \in Request, Keyed(q)', RowKey(q)' = RowKey(p)',
                        at'[q] \in InTransaction, at'[p] \in InTransaction, p # q
                 PROVE  FALSE
    BY DEF OneHolder, InTransaction
  <2>2. Keyed(q) /\ Keyed(p) /\ RowKey(q) = RowKey(p)
    BY <2>1 DEF Keyed, RowKey
  <2>3. CASE p # r /\ q # r
    BY <1>1, <2>1, <2>2, <2>3 DEF KeyInv, OneHolder
  <2>4. CASE q = r
    BY <1>1, <2>1, <2>2, <2>4 DEF KeyInv, OneHolder, KeyUnlocked
  <2>5. CASE p = r
    BY <1>1, <2>1, <2>2, <2>5 DEF KeyInv, OneHolder, KeyUnlocked
  <2>6. QED
    BY <2>3, <2>4, <2>5
<1>3. NothingFound'
  BY <1>1 DEF KeyInv, NothingFound, Keyed, RowKey, Searched
<1>4. LookersHaveKeys'
  BY <1>1 DEF KeyInv, LookersHaveKeys, Keyed
<1>5. QED
  BY <1>2, <1>3, <1>4 DEF KeyInv, RowsAreTasks, AnswersAreRows, RetryIsNeverRefused, Keyed, RowKey

(* A request is refused, or answered what was found under its key.         *)
LEMMA RefusingKeepsKeys ==
  ASSUME KeyInv, NEW r \in Request, NEW why, Refuse(r, why), why # "key_conflict",
         Keyed(r) /\ why \in Request => keyRow[RowKey(r)] = why /\ SameBody(r)
  PROVE  KeyInv'
<1>1. /\ at' = [at EXCEPT ![r] = "done"] /\ answer' = [answer EXCEPT ![r] = why]
      /\ UNCHANGED <<keyRow, task>>
  BY DEF Refuse, Answer
<1>2. OneHolder' /\ LookersHaveKeys' /\ NothingFound'
  BY <1>1 DEF KeyInv, OneHolder, LookersHaveKeys, NothingFound, Keyed, RowKey, InTransaction, Searched
<1>3. AnswersAreRows' /\ RetryIsNeverRefused'
  BY <1>1 DEF KeyInv, AnswersAreRows, RetryIsNeverRefused, Keyed, RowKey, SameBody
<1>4. QED
  BY <1>1, <1>2, <1>3 DEF KeyInv, RowsAreTasks, Keyed, RowKey

(* The task is inserted: nothing was found, so nobody was answered under   *)
(* the key, and nobody else holds its lock.                                *)
LEMMA CreatingKeepsKeys ==
  ASSUME KeyInv, NEW r \in Request, Create(r)
  PROVE  KeyInv'
<1>1. NoTask \notin Request /\ r # "key_conflict"
  BY AdmissionConstants, ErrorsAreNoTasks DEF Refusal
<1>2. at[r] = "insert" /\ "insert" \in Searched /\ "insert" \in InTransaction
  BY DEF Create, Searched, InTransaction
<1>3. ~KeyTaken(r)
  BY <1>2 DEF KeyInv, NothingFound, KeyTaken, Keyed
<1>4. /\ at' = [at EXCEPT ![r] = "done"] /\ answer' = [answer EXCEPT ![r] = r]
      /\ task' = [task EXCEPT ![r] = "active"] /\ keyRow' = StoredAnswer(r)
  BY <1>3 DEF Create, Answer
<1>5. OneHolder' /\ LookersHaveKeys'
  BY <1>4 DEF KeyInv, OneHolder, LookersHaveKeys, Keyed, RowKey, InTransaction
<1>6. CASE ~Keyed(r)
  <2>1. keyRow' = keyRow
    BY <1>4, <1>6 DEF StoredAnswer, Keyed
  <2>2. \A q \in Request : Keyed(q) => q # r
    BY <1>6
  <2>3. NothingFound' /\ AnswersAreRows' /\ RetryIsNeverRefused'
    BY <1>1, <1>4, <2>1, <2>2 DEF KeyInv, NothingFound, AnswersAreRows, RetryIsNeverRefused,
         Keyed, RowKey, Searched
  <2>4. RowsAreTasks'
    BY <1>4, <2>1, <2>2 DEF KeyInv, RowsAreTasks, Keyed, RowKey
  <2>5. QED
    BY <1>4, <1>5, <2>1, <2>3, <2>4 DEF KeyInv
<1>7. CASE Keyed(r)
  <2>1. RowKey(r) \in Org \X Key
    BY <1>7, KeysOfRows
  <2>2. /\ keyRow[RowKey(r)] = NoTask /\ keyRow'[RowKey(r)] = r
        /\ \A k \in (Org \X Key) \ {RowKey(r)} : keyRow'[k] = keyRow[k]
        /\ keyRow' \in [Org \X Key -> Request \cup {NoTask}]
    BY <1>2, <1>4, <1>7, <2>1 DEF KeyInv, NothingFound, StoredAnswer, Keyed
  <2>3. \A q \in Request \ {r} :
          Keyed(q) /\ RowKey(q) = RowKey(r) =>
            at[q] \notin InTransaction /\ task[q] = "none" /\ answer[q] \notin Request
    BY <1>1, <1>2, <1>7, <2>2 DEF KeyInv, OneHolder, RowsAreTasks, AnswersAreRows
  <2>4. \A q \in Request : Keyed(q) => RowKey(q) \in Org \X Key
    BY KeysOfRows
  <2>5. NothingFound'
    BY <1>4, <2>2, <2>3, <2>4 DEF KeyInv, NothingFound, Keyed, RowKey, Searched, InTransaction
  <2>6. RowsAreTasks'
    <3>1. \A q \in Request : Keyed(q) /\ task'[q] # "none" => keyRow'[RowKey(q)] = q
      BY <1>4, <2>2, <2>3, <2>4 DEF KeyInv, RowsAreTasks
    <3>2. \A k \in Org \X Key :
            keyRow'[k] # NoTask => RowKey(keyRow'[k]) = k /\ task'[keyRow'[k]] # "none"
      <4>1. task'[r] = "active" /\ \A q \in Request \ {r} : task'[q] = task[q]
        BY <1>4 DEF KeyInv
      <4>2. \A k \in (Org \X Key) \ {RowKey(r)} :
              keyRow[k] # NoTask => /\ keyRow[k] \in Request /\ keyRow[k] # r
                                    /\ RowKey(keyRow[k]) = k /\ task[keyRow[k]] # "none"
        <5>1. SUFFICES ASSUME NEW k \in (Org \X Key) \ {RowKey(r)}, keyRow[k] # NoTask
                       PROVE  /\ keyRow[k] \in Request /\ keyRow[k] # r
                              /\ RowKey(keyRow[k]) = k /\ task[keyRow[k]] # "none"
          OBVIOUS
        <5>2. keyRow[k] \in Request /\ RowKey(keyRow[k]) = k /\ task[keyRow[k]] # "none"
          BY <5>1 DEF KeyInv, RowsAreTasks
        <5>3. k # RowKey(r)
          BY <5>1
        <5>4. QED
          BY <5>2, <5>3
      <4>3. QED
        BY <2>2, <4>1, <4>2
    <3>3. QED
      BY <3>1, <3>2 DEF RowsAreTasks, Keyed, RowKey
  <2>7. AnswersAreRows'
    BY <1>4, <2>2, <2>3, <2>4 DEF KeyInv, AnswersAreRows, Keyed, RowKey
  <2>8. RetryIsNeverRefused'
    BY <1>1, <1>4 DEF KeyInv, RetryIsNeverRefused
  <2>9. QED
    BY <1>4, <1>5, <2>2, <2>5, <2>6, <2>7, <2>8 DEF KeyInv
<1>8. QED
  BY <1>6, <1>7

-----------------------------------------------------------------------------
LEMMA CreateStepKeepsKeys ==
  ASSUME KeyInv, NEW r \in Request, CreateStep(r) \/ Fail(r)
  PROVE  KeyInv'
<1>1. \A q \in Request : \A why \in Refusal : why \notin Request
  BY ErrorsAreNoTasks
<1>2. CASE Validate(r) \/ Fail(r)
  BY <1>1, <1>2, RefusingKeepsKeys DEF Validate, Fail, Refusal
<1>3. CASE LockKey(r)
  BY <1>3, GoingOnKeepsKeys DEF LockKey, GoOn, Keyed, Searched
<1>4. CASE LookupIdempotent(r)
  <2>1. at[r] = "lookup" /\ "lookup" \in InTransaction
    BY <1>4 DEF LookupIdempotent, InTransaction
  <2>2. CASE keyRow[RowKey(r)] = NoTask /\ GoOn(r, "subscription")
    BY <2>1, <2>2, GoingOnKeepsKeys DEF GoOn
  <2>3. CASE SameBody(r) /\ Refuse(r, keyRow[RowKey(r)])
    <3>1. Keyed(r)
      BY <2>1 DEF KeyInv, LookersHaveKeys
    <3>2. keyRow[RowKey(r)] # "key_conflict"
      BY <3>1, KeysOfRows, ErrorsAreNoTasks DEF KeyInv, Refusal
    <3>3. QED
      BY <2>3, <3>2, RefusingKeepsKeys
  <2>4. CASE Refuse(r, "mismatch")
    BY <1>1, <2>4, RefusingKeepsKeys DEF Refusal
  <2>5. QED
    BY <1>4, <2>2, <2>3, <2>4 DEF LookupIdempotent
<1>5. CASE LockSubscription(r) \/ ReadUsed(r) \/ CheckBudget(r)
  <2>1. at[r] \in InTransaction /\ at[r] \in Searched
    BY <1>5 DEF LockSubscription, ReadUsed, CheckBudget, InTransaction, Searched
  <2>2. CASE \E why \in {"no_subscription", "unknown_tool", "budget_exceeded"} : Refuse(r, why)
    BY <1>1, <2>2, RefusingKeepsKeys DEF Refusal
  <2>3. CASE /\ \E step \in Searched : at' = [at EXCEPT ![r] = step]
             /\ UNCHANGED <<answer, keyRow, task>>
    <3>1. Keyed(r) => keyRow[RowKey(r)] = NoTask
      BY <2>1 DEF KeyInv, NothingFound
    <3>2. "lookup" \notin Searched
      BY DEF Searched
    <3>3. QED
      BY <2>1, <2>3, <3>1, <3>2, GoingOnKeepsKeys
  <2>4. QED
    BY <1>5, <2>2, <2>3 DEF LockSubscription, ReadUsed, CheckBudget, GoOn, Searched
<1>6. CASE Create(r)
  BY <1>6, CreatingKeepsKeys
<1>7. QED
  BY <1>2, <1>3, <1>4, <1>5, <1>6 DEF CreateStep

(* Workers, the calendar and the view of the subscription: a task stays a  *)
(* task, and nothing is created, answered or locked.                       *)
LEMMA OthersKeepKeys ==
  ASSUME KeyInv, UNCHANGED <<at, answer, keyRow>>,
         UNCHANGED task \/ \E r \in Request : EndTask(r)
  PROVE  KeyInv'
<1>1. /\ task' = [r \in Request |-> task'[r]]
      /\ \A r \in Request : task'[r] # "none" <=> task[r] # "none"
  BY DEF EndTask, KeyInv
<1>2. RowsAreTasks'
  <2>1. \A k \in Org \X Key : keyRow[k] # NoTask => keyRow[k] \in Request
    BY DEF KeyInv
  <2>2. QED
    BY <1>1, <2>1 DEF KeyInv, RowsAreTasks, Keyed, RowKey
<1>3. QED
  BY <1>1, <1>2 DEF KeyInv, OneHolder, LookersHaveKeys, NothingFound, AnswersAreRows,
       RetryIsNeverRefused, Keyed, RowKey, InTransaction, Searched

LEMMA KeyStep == KeyInv /\ [Next]_vars => KeyInv'
<1>1. SUFFICES ASSUME KeyInv, [Next]_vars PROVE KeyInv'
  OBVIOUS
<1>2. CASE \E r \in Request : CreateStep(r) \/ Fail(r)
  BY <1>1, <1>2, CreateStepKeepsKeys
<1>3. CASE \/ \E r \in Request : RecordCall(r)
           \/ MonthPasses
           \/ \E o \in Org : SubscriptionFirst(o)
           \/ SubscriptionSecond \/ LeaveSubscription
           \/ UNCHANGED vars
  <2>1. UNCHANGED <<at, answer, keyRow, task>>
    BY <1>3 DEF RecordCall, Charge, MonthPasses, SubscriptionFirst, SubscriptionSecond,
         LeaveSubscription, vars, requestVars
  <2>2. QED
    BY <1>1, <2>1, OthersKeepKeys
<1>4. CASE \E r \in Request : EndTask(r)
  <2>1. UNCHANGED <<at, answer, keyRow>>
    BY <1>4 DEF EndTask, requestVars
  <2>2. QED
    BY <1>1, <1>4, <2>1, OthersKeepKeys
<1>5. QED
  BY <1>1, <1>2, <1>3, <1>4 DEF Next

LEMMA KeyInvariance == Spec => []KeyInv
  BY KeyInit, KeyStep, PTL DEF Spec

(* Requests of an organization with one key create one task at most, and   *)
(* whoever is answered with a task is answered with that one.              *)
THEOREM KeysMeanOneTask == Spec => []KeyMeansOneTask
<1>1. ASSUME KeyInv PROVE KeyMeansOneTask
  <2>1. SUFFICES ASSUME NEW r \in Request, NEW q \in Request,
                        OrgOf[r] = OrgOf[q], KeyOf[r] = KeyOf[q], KeyOf[r] # NoKey
                 PROVE  /\ task[r] # "none" /\ task[q] # "none" => r = q
                        /\ answer[r] \in Request =>
                             /\ task[answer[r]] # "none"
                             /\ BodyOf[answer[r]] = BodyOf[r]
                             /\ OrgOf[answer[r]] = OrgOf[r]
                             /\ answer[q] \in Request => answer[r] = answer[q]
    BY DEF KeyMeansOneTask
  <2>2. Keyed(r) /\ Keyed(q) /\ RowKey(r) = RowKey(q) /\ RowKey(r) \in Org \X Key
    BY <2>1, KeysOfRows DEF Keyed, RowKey
  <2>3. task[r] # "none" /\ task[q] # "none" => r = q
    BY <1>1, <2>2 DEF KeyInv, RowsAreTasks
  <2>4. ASSUME answer[r] \in Request
        PROVE  /\ task[answer[r]] # "none" /\ BodyOf[answer[r]] = BodyOf[r]
               /\ RowKey(answer[r]) = RowKey(r)
               /\ answer[q] \in Request => answer[r] = answer[q]
    <3>1. keyRow[RowKey(r)] = answer[r] /\ BodyOf[answer[r]] = BodyOf[r]
      BY <1>1, <2>2, <2>4 DEF KeyInv, AnswersAreRows
    <3>2. answer[r] # NoTask
      BY <2>4, AdmissionConstants
    <3>3. RowKey(answer[r]) = RowKey(r) /\ task[answer[r]] # "none"
      BY <1>1, <2>2, <3>1, <3>2 DEF KeyInv, RowsAreTasks
    <3>4. answer[q] \in Request => answer[q] = keyRow[RowKey(q)]
      BY <1>1, <2>2 DEF KeyInv, AnswersAreRows
    <3>5. QED
      BY <2>2, <3>1, <3>3, <3>4
  <2>5. QED
    BY <2>3, <2>4 DEF RowKey
<1>2. QED
  BY <1>1, KeyInvariance, PTL

(* No request ever meets a row of its key when it inserts its own.         *)
THEOREM RetriesAreNotRefused == Spec => []RetryIsNeverRefused
<1>1. KeyInv => RetryIsNeverRefused
  BY DEF KeyInv
<1>2. QED
  BY <1>1, KeyInvariance, PTL

-----------------------------------------------------------------------------
(* The budget.  Estimates are sums over the calls of a body, commitments   *)
(* sums over the tasks of an organization.                                 *)
LEMMA Rounding ==
  ASSUME NEW n \in Int
  PROVE  /\ Stored(n) \in Int /\ ActualCosts(n) \subseteq Int
         /\ n >= 0 => /\ Stored(n) \in Nat /\ ActualCosts(n) \subseteq Nat
                      /\ \A b \in Int : n <= 10 * b => Stored(n) <= b
<1>1. Stored(n) \in Int /\ ActualCosts(n) \subseteq Int
  BY DEF Stored, ActualCosts
<1>2. ASSUME n >= 0 PROVE Stored(n) \in Nat /\ ActualCosts(n) \subseteq Nat
  BY <1>2 DEF Stored, ActualCosts
<1>3. ASSUME n >= 0, NEW b \in Int, n <= 10 * b PROVE Stored(n) <= b
  BY <1>3 DEF Stored
<1>4. QED
  BY <1>1, <1>2, <1>3

LEMMA EstimatesAreNumbers ==
  ASSUME NEW r \in Request
  PROVE  /\ Estimates[BodyOf[r]] \in Seq(Int)
         /\ Estimate(r) \in Int /\ StoredEstimate(r) \in Int
         /\ NonNegative(r) => Estimate(r) \in Nat /\ StoredEstimate(r) \in Nat
<1> DEFINE calls == Estimates[BodyOf[r]]
<1>1. calls \in Seq(Int)
  BY AdmissionConstants
<1>2. DOMAIN calls = 1 .. Len(calls) /\ Len(calls) \in Nat /\ \A i \in DOMAIN calls : calls[i] \in Int
  BY <1>1
<1>3. IsFiniteSet(DOMAIN calls)
  BY <1>2, FS_Interval
<1>4. NonNegative(r) => \A i \in DOMAIN calls : calls[i] \in Nat
  BY <1>2 DEF NonNegative
<1> HIDE DEF calls
<1>5. SumFunctionOnSet(calls, DOMAIN calls) \in Int
  BY <1>2, <1>3, SumIsAnInteger
<1>6. NonNegative(r) => SumFunctionOnSet(calls, DOMAIN calls) \in Nat
  BY <1>3, <1>4, SumIsANumber
<1>7. Estimate(r) = SumFunctionOnSet(calls, DOMAIN calls)
  BY Zenon DEF Estimate, calls, FoldFunction, SumFunctionOnSet
<1>8. Estimate(r) \in Int /\ (NonNegative(r) => Estimate(r) \in Nat)
  BY <1>5, <1>6, <1>7
<1>9. StoredEstimate(r) \in Int /\ (NonNegative(r) => StoredEstimate(r) \in Nat)
  BY <1>8, Rounding DEF StoredEstimate
<1>10. QED
  BY <1>1, <1>8, <1>9 DEF calls

StoredEstimates == [r \in Request |-> StoredEstimate(r)]

LEMMA StoredAddsUp ==
  ASSUME NEW R \in SUBSET Request, IsFiniteSet(R)
  PROVE  /\ MapThenSumSet(StoredEstimate, R) \in Int
         /\ MapThenSumSet(StoredEstimate, R) = SumFunctionOnSet(StoredEstimates, R)
<1> DEFINE IsSum(it) == it = [s \in SUBSET R |->
             IF s = {} THEN 0
             ELSE LET x == CHOOSE x \in s : TRUE IN StoredEstimate(x) + it[s \ {x}]]
<1>1. ASSUME NEW it PROVE IsSum(it) <=> AddsUp(it, StoredEstimates, R)
  <2>1. ASSUME NEW s \in SUBSET R, s # {}
        PROVE  StoredEstimate(Some(s)) = StoredEstimates[Some(s)]
    BY <2>1, SomeIsOne DEF StoredEstimates
  <2>2. QED
    BY <2>1 DEF AddsUp, Some
<1>2. \E it : IsSum(it) /\ MapThenSumSet(StoredEstimate, R) = it[R]
  <2>1. \E it : AddsUp(it, StoredEstimates, R)
    BY SolutionExists
  <2>2. \E it : IsSum(it)
    <3> HIDE DEF IsSum
    <3>1. QED
      BY <1>1, <2>1
  <2>3. QED
    BY <2>2, Zenon DEF MapThenSumSet, MapThenFoldSet
<1> HIDE DEF IsSum
<1>3. \A x \in R : StoredEstimates[x] \in Int
  BY EstimatesAreNumbers DEF StoredEstimates
<1>4. MapThenSumSet(StoredEstimate, R) = SumFunctionOnSet(StoredEstimates, R)
  BY <1>1, <1>2, SolutionIsSum
<1>5. QED
  BY <1>3, <1>4, SumIsAnInteger

LEMMA EstimatesGrow ==
  ASSUME NEW R \in SUBSET Request, IsFiniteSet(R), NEW T \in SUBSET R,
         \A r \in R : NonNegative(r)
  PROVE  MapThenSumSet(StoredEstimate, T) <= MapThenSumSet(StoredEstimate, R)
<1>1. IsFiniteSet(T)
  BY FS_Subset
<1>2. \A x \in R : StoredEstimates[x] \in Nat /\ StoredEstimates[x] <= StoredEstimates[x]
  BY EstimatesAreNumbers DEF StoredEstimates
<1>3. SumFunctionOnSet(StoredEstimates, T) <= SumFunctionOnSet(StoredEstimates, R)
  BY <1>2, SumGrows
<1>4. QED
  BY <1>1, <1>3, StoredAddsUp

LEMMA OneMoreEstimate ==
  ASSUME NEW R \in SUBSET Request, IsFiniteSet(R), NEW r \in Request \ R
  PROVE  MapThenSumSet(StoredEstimate, R \cup {r}) =
           StoredEstimate(r) + MapThenSumSet(StoredEstimate, R)
<1>1. IsFiniteSet(R \cup {r}) /\ R \cup {r} \in SUBSET Request
  BY FS_AddElement
<1>2. \A x \in R \cup {r} : StoredEstimates[x] \in Int
  BY EstimatesAreNumbers DEF StoredEstimates
<1>3. SumFunctionOnSet(StoredEstimates, R \cup {r}) =
        StoredEstimates[r] + SumFunctionOnSet(StoredEstimates, R)
  BY <1>2, SumAdds
<1>4. StoredEstimates[r] = StoredEstimate(r)
  BY DEF StoredEstimates
<1>5. QED
  BY <1>1, <1>3, <1>4, StoredAddsUp

-----------------------------------------------------------------------------
(* The invariant, in parts of which each step concerns a few.              *)
ActiveOf(o) == {r \in Request : OrgOf[r] = o /\ task[r] = "active"}

Steps == {"start", "lookup", "subscription", "used", "committed", "insert", "done"}
Holding == {"used", "committed", "insert"}

RequestsTyped ==
  /\ at \in [Request -> Steps]
  /\ seenUsed \in [Request -> Int]
  /\ answer \in [Request -> Refusal \cup Request \cup {NoTask}]
  /\ keyRow \in [Org \X Key -> Request \cup {NoTask}]

WorkTyped ==
  /\ task \in [Request -> {"none", "active", "ended"}]
  /\ recorded \in [Request -> Nat]
  /\ \A r \in Request : recorded[r] <= Len(Estimates[BodyOf[r]])
  /\ usage \in [Org -> [Month -> Int]]
  /\ month \in Month
  /\ IsFiniteSet({r \in Request : task[r] = "active"})

Locked ==
  \A r, q \in Request :
    at[r] \in Holding /\ at[q] \in Holding /\ OrgOf[r] = OrgOf[q] => r = q

Fits(r) ==
  /\ at[r] = "committed" /\ NoCredit(OrgOf[r]) =>
       0 <= seenUsed[r] /\ seenUsed[r] <= Used(OrgOf[r])
  /\ at[r] = "insert" /\ NoCredit(OrgOf[r]) =>
       10 * ActiveEstimates(OrgOf[r]) + Estimate(r) <= 10 * Budget[OrgOf[r]]

ViewTyped ==
  view \in {Nothing} \cup [org : Org, first : Int] \cup [org : Org, remaining : Int]

ViewFits ==
  "first" \in DOMAIN view /\ NoCredit(view.org) => view.first <= Used(view.org)

UsageIsNoDebt == \A o \in Org : NoCredit(o) => Used(o) >= 0

(* The row lock on the subscription lets one request of an organization    *)
(* through the check and the insert, so that what it has checked still     *)
(* holds when it inserts; without credits usage is never taken back.       *)
BudgetInv ==
  /\ RequestsTyped
  /\ WorkTyped
  /\ ViewTyped
  /\ Locked
  /\ \A r \in Request : Fits(r)
  /\ EstimatesFitBudget
  /\ UsageIsNoDebt
  /\ ViewFits

(* A task never leaves the table, so what is without credits was so.       *)
LEMMA CreditStays ==
  ASSUME \A q \in Request : task[q] # "none" => task'[q] # "none"
  PROVE  \A o : NoCredit(o)' => NoCredit(o)
BY DEF NoCredit, NonNegative

LEMMA Reserved ==
  ASSUME WorkTyped, NEW o \in Org
  PROVE  /\ ActiveOf(o) \in SUBSET Request /\ IsFiniteSet(ActiveOf(o))
         /\ ActiveEstimates(o) = MapThenSumSet(StoredEstimate, ActiveOf(o))
         /\ Committed(o) = ActiveEstimates(o)
         /\ ActiveEstimates(o) \in Int /\ Used(o) \in Int
<1>1. ActiveOf(o) \in SUBSET Request /\ ActiveOf(o) \subseteq {r \in Request : task[r] = "active"}
  BY DEF ActiveOf
<1>2. IsFiniteSet(ActiveOf(o))
  BY <1>1, FS_Subset DEF WorkTyped
<1>3. ActiveEstimates(o) = MapThenSumSet(StoredEstimate, ActiveOf(o))
  BY DEF ActiveEstimates, ActiveOf
<1>4. Committed(o) = ActiveEstimates(o)
  BY DEF Committed, Counts, ActiveEstimates
<1>5. Used(o) \in Int
  BY AdmissionConstants DEF WorkTyped, Used
<1>6. QED
  BY <1>1, <1>2, <1>3, <1>4, <1>5, StoredAddsUp

LEMMA BudgetInit == Init => BudgetInv
<1>1. SUFFICES ASSUME Init PROVE BudgetInv
  OBVIOUS
<1>2. 1 \in Month
  BY AdmissionConstants DEF Month
<1>3. RequestsTyped /\ ViewTyped /\ Locked /\ ViewFits /\ \A r \in Request : Fits(r)
  BY <1>1 DEF Init, RequestsTyped, ViewTyped, Locked, ViewFits, Fits, Steps, Holding, Nothing
<1>4. WorkTyped
  <2>1. {r \in Request : task[r] = "active"} = {}
    BY <1>1 DEF Init
  <2>2. \A r \in Request : 0 <= Len(Estimates[BodyOf[r]])
    BY EstimatesAreNumbers
  <2>3. usage \in [Org -> [Month -> Int]] /\ month \in Month
    BY <1>1, <1>2 DEF Init
  <2>4. /\ task \in [Request -> {"none", "active", "ended"}]
        /\ recorded \in [Request -> Nat]
        /\ \A r \in Request : recorded[r] <= Len(Estimates[BodyOf[r]])
    BY <1>1, <2>2 DEF Init
  <2>5. QED
    BY <2>1, <2>3, <2>4, FS_EmptySet DEF WorkTyped
<1>5. EstimatesFitBudget
  <2>1. ASSUME NEW o \in Org PROVE ActiveEstimates(o) <= Budget[o]
    <3>1. ActiveOf(o) = {}
      BY <1>1 DEF Init, ActiveOf
    <3>2. MapThenSumSet(StoredEstimate, {}) = 0
      BY StoredAddsUp, SumOfNone, FS_EmptySet
    <3>3. ActiveEstimates(o) = 0
      BY <1>4, <3>1, <3>2, Reserved
    <3>4. QED
      BY <3>3, AdmissionConstants
  <2>2. QED
    BY <2>1 DEF EstimatesFitBudget
<1>6. UsageIsNoDebt
  BY <1>1, AdmissionConstants DEF Init, UsageIsNoDebt, Used
<1>7. QED
  BY <1>3, <1>4, <1>5, <1>6 DEF BudgetInv

(* A request goes on, or is refused, and the work stays what it is.        *)
LEMMA MovingKeepsBudget ==
  ASSUME BudgetInv, NEW r \in Request, NEW step \in Steps,
         at' = [at EXCEPT ![r] = step], UNCHANGED <<task, workVars, month, view>>,
         RequestsTyped', \A q \in Request \ {r} : seenUsed'[q] = seenUsed[q],
         step \in Holding => at[r] \in Holding \/ SubscriptionUnlocked(r),
         step = "committed" /\ NoCredit(OrgOf[r]) =>
           0 <= seenUsed'[r] /\ seenUsed'[r] <= Used(OrgOf[r]),
         step = "insert" /\ NoCredit(OrgOf[r]) =>
           10 * ActiveEstimates(OrgOf[r]) + Estimate(r) <= 10 * Budget[OrgOf[r]]
  PROVE  BudgetInv'
<1>1. at'[r] = step /\ \A q \in Request \ {r} : at'[q] = at[q]
  BY DEF BudgetInv, RequestsTyped
<1>2. UNCHANGED <<task, recorded, usage, month, view>>
  BY DEF workVars
<1>3. \A o \in Org : /\ Used(o)' = Used(o) /\ ActiveEstimates(o)' = ActiveEstimates(o)
                    /\ NoCredit(o)' = NoCredit(o)
  BY <1>2 DEF Used, ActiveEstimates, NoCredit, NonNegative
<1>4. Locked'
  BY <1>1 DEF BudgetInv, Locked, SubscriptionUnlocked, Holding
<1>5. ASSUME NEW q \in Request PROVE Fits(q)'
  <2>1. OrgOf[q] \in Org /\ Fits(q)
    BY AdmissionConstants DEF BudgetInv
  <2>2. /\ Used(OrgOf[q])' = Used(OrgOf[q]) /\ NoCredit(OrgOf[q])' = NoCredit(OrgOf[q])
        /\ ActiveEstimates(OrgOf[q])' = ActiveEstimates(OrgOf[q])
    BY <1>3, <2>1
  <2>3. CASE q = r
    BY <1>1, <2>2, <2>3 DEF Fits
  <2>4. CASE q # r
    BY <1>1, <2>1, <2>2, <2>4 DEF Fits
  <2>5. QED
    BY <2>3, <2>4
<1>6. WorkTyped' /\ ViewTyped'
  BY <1>2 DEF BudgetInv, WorkTyped, ViewTyped
<1>7. EstimatesFitBudget' /\ UsageIsNoDebt'
  BY <1>3 DEF BudgetInv, EstimatesFitBudget, UsageIsNoDebt
<1>8. ViewFits'
  BY <1>2 DEF BudgetInv, ViewFits, Used, NoCredit, NonNegative
<1>9. QED
  BY <1>4, <1>5, <1>6, <1>7, <1>8 DEF BudgetInv

(* The task is inserted, and what was checked leaves room for it: rounding *)
(* to whole cents cannot exceed a budget of whole cents.                   *)
LEMMA CreatingKeepsBudget ==
  ASSUME BudgetInv, RequestsTyped', NEW r \in Request, at[r] = "insert",
         at' = [at EXCEPT ![r] = "done"], task' = [task EXCEPT ![r] = "active"],
         UNCHANGED <<seenUsed, workVars, month, view>>
  PROVE  BudgetInv'
<1> DEFINE org == OrgOf[r]
<1>1. /\ at'[r] = "done" /\ \A q \in Request \ {r} : at'[q] = at[q]
      /\ task'[r] = "active" /\ \A q \in Request \ {r} : task'[q] = task[q]
      /\ UNCHANGED <<recorded, usage, month, view, seenUsed>>
  BY DEF BudgetInv, RequestsTyped, WorkTyped, workVars
<1>2. /\ \A o : NoCredit(o)' => NoCredit(o)
      /\ NoCredit(org)' => NonNegative(r)
  BY <1>1, CreditStays DEF NoCredit, NonNegative
<1>3. org \in Org /\ Budget[org] \in Nat /\ Estimate(r) \in Int
  BY AdmissionConstants, EstimatesAreNumbers
<1>4. /\ ActiveOf(org) \in SUBSET Request /\ IsFiniteSet(ActiveOf(org))
      /\ ActiveEstimates(org) = MapThenSumSet(StoredEstimate, ActiveOf(org))
      /\ ActiveEstimates(org) \in Int
  BY <1>3, Reserved DEF BudgetInv
<1>5. ActiveOf(org)' = ActiveOf(org) \cup {r}
  BY <1>1 DEF ActiveOf
<1>6. ActiveEstimates(org)' = MapThenSumSet(StoredEstimate, ActiveOf(org)')
  BY DEF ActiveEstimates, ActiveOf
<1>7. ASSUME NoCredit(org)' PROVE ActiveEstimates(org)' <= Budget[org]
  <2>1. NoCredit(org) /\ NonNegative(r)
    BY <1>2, <1>7
  <2>2. 10 * ActiveEstimates(org) + Estimate(r) <= 10 * Budget[org]
    BY <2>1 DEF BudgetInv, Fits
  <2>3. StoredEstimate(r) <= Budget[org] - ActiveEstimates(org)
    <3>1. Estimate(r) \in Nat
      BY <2>1, EstimatesAreNumbers
    <3>2. Budget[org] - ActiveEstimates(org) \in Int
      BY <1>3, <1>4
    <3>3. Estimate(r) <= 10 * (Budget[org] - ActiveEstimates(org))
      BY <1>3, <1>4, <2>2, <3>1
    <3>4. QED
      BY <3>1, <3>2, <3>3, Rounding DEF StoredEstimate
  <2>4. StoredEstimate(r) \in Int
    BY EstimatesAreNumbers
  <2>5. CASE r \in ActiveOf(org)
    <3>1. ActiveEstimates(org)' = ActiveEstimates(org)
      <4>1. ActiveOf(org)' = ActiveOf(org)
        BY <1>5, <2>5
      <4>2. QED
        BY <1>4, <1>6, <4>1
    <3>2. QED
      BY <1>3, <2>1, <3>1 DEF BudgetInv, EstimatesFitBudget
  <2>6. CASE r \notin ActiveOf(org)
    <3>1. ActiveEstimates(org)' = StoredEstimate(r) + ActiveEstimates(org)
      <4>1. MapThenSumSet(StoredEstimate, ActiveOf(org) \cup {r}) =
              StoredEstimate(r) + MapThenSumSet(StoredEstimate, ActiveOf(org))
        BY <1>4, <2>6, OneMoreEstimate
      <4>2. QED
        BY <1>4, <1>5, <1>6, <4>1
    <3>2. StoredEstimate(r) + ActiveEstimates(org) <= Budget[org]
      <4>1. ActiveEstimates(org) \in Int /\ Budget[org] \in Nat
        BY <1>3, <1>4
      <4>2. QED
        BY <2>3, <2>4, <4>1
    <3>3. QED
      BY <3>1, <3>2
  <2>7. QED
    BY <2>5, <2>6
<1>8. \A o \in Org \ {org} : ActiveEstimates(o)' = ActiveEstimates(o)
  <2>1. ASSUME NEW o \in Org \ {org} PROVE ActiveEstimates(o)' = ActiveEstimates(o)
    <3>1. {q \in Request : OrgOf[q] = o /\ task'[q] = "active"} =
            {q \in Request : OrgOf[q] = o /\ task[q] = "active"}
      BY <1>1, <2>1
    <3>2. QED
      BY <3>1 DEF ActiveEstimates
  <2>2. QED
    BY <2>1
<1>9. \A o \in Org : Used(o)' = Used(o)
  BY <1>1 DEF Used
<1>10. EstimatesFitBudget' /\ UsageIsNoDebt'
  BY <1>2, <1>7, <1>8, <1>9 DEF BudgetInv, EstimatesFitBudget, UsageIsNoDebt
<1>11. ASSUME NEW q \in Request PROVE Fits(q)'
  <2>1. OrgOf[q] \in Org /\ Fits(q)
    BY AdmissionConstants DEF BudgetInv
  <2>2. CASE q = r
    BY <1>1, <2>2 DEF Fits
  <2>3. CASE q # r /\ at[q] = "insert"
    <3>1. OrgOf[q] # org
      BY <2>3 DEF BudgetInv, Locked, Holding
    <3>2. ActiveEstimates(OrgOf[q])' = ActiveEstimates(OrgOf[q])
      BY <1>8, <2>1, <3>1
    <3>3. QED
      BY <1>2, <1>1, <2>1, <2>3, <3>2 DEF Fits
  <2>4. CASE q # r /\ at[q] # "insert"
    BY <1>2, <1>1, <1>9, <2>1, <2>4 DEF Fits
  <2>5. QED
    BY <2>2, <2>3, <2>4
<1>12. WorkTyped'
  <2>1. {q \in Request : task[q] = "active"}' = {q \in Request : task[q] = "active"} \cup {r}
    BY <1>1
  <2>2. IsFiniteSet({q \in Request : task[q] = "active"} \cup {r})
    BY FS_AddElement DEF BudgetInv, WorkTyped
  <2>3. task' \in [Request -> {"none", "active", "ended"}]
    BY DEF BudgetInv, WorkTyped
  <2>4. QED
    BY <1>1, <2>1, <2>2, <2>3 DEF BudgetInv, WorkTyped
<1>13. Locked' /\ ViewTyped' /\ ViewFits'
  BY <1>2, <1>1 DEF BudgetInv, Locked, Holding, ViewTyped, ViewFits, Used
<1>14. QED
  BY <1>10, <1>11, <1>12, <1>13 DEF BudgetInv

(* Workers and the calendar: nothing becomes active, and where there are   *)
(* no credits no usage is taken back.                                      *)
LEMMA WorkingKeepsBudget ==
  ASSUME BudgetInv, UNCHANGED <<requestVars, view>>, WorkTyped',
         \A r \in Request : task'[r] = "active" => task[r] = "active",
         \A r \in Request : task[r] # "none" => task'[r] # "none",
         \A o \in Org : NoCredit(o) => usage'[o][PeriodMonth[o]] >= usage[o][PeriodMonth[o]]
  PROVE  BudgetInv'
<1>1. \A o : NoCredit(o)' => NoCredit(o)
  BY CreditStays
<1>2. UNCHANGED <<at, seenUsed, answer, keyRow>>
  BY DEF requestVars
<1>3. ASSUME NEW o \in Org, NoCredit(o)'
      PROVE  /\ ActiveEstimates(o)' \in Int /\ ActiveEstimates(o)' <= ActiveEstimates(o)
             /\ ActiveEstimates(o) \in Int
             /\ Used(o)' \in Int /\ Used(o)' >= Used(o) /\ Used(o) \in Int
  <2>1. ActiveOf(o)' \in SUBSET ActiveOf(o)
    BY DEF ActiveOf
  <2>2. /\ IsFiniteSet(ActiveOf(o)) /\ ActiveOf(o) \in SUBSET Request
        /\ ActiveEstimates(o) = MapThenSumSet(StoredEstimate, ActiveOf(o))
        /\ ActiveEstimates(o) \in Int /\ Used(o) \in Int
    BY Reserved DEF BudgetInv
  <2>3. ActiveEstimates(o)' = MapThenSumSet(StoredEstimate, ActiveOf(o)')
    BY DEF ActiveEstimates, ActiveOf
  <2>4. IsFiniteSet(ActiveOf(o)') /\ ActiveOf(o)' \in SUBSET Request
    BY <2>1, <2>2, FS_Subset
  <2>5. MapThenSumSet(StoredEstimate, ActiveOf(o)') \in Int
    BY <2>4, StoredAddsUp
  <2>6. NoCredit(o) /\ \A r \in ActiveOf(o) : NonNegative(r)
    BY <1>1, <1>3 DEF NoCredit, ActiveOf
  <2>7. MapThenSumSet(StoredEstimate, ActiveOf(o)') <= MapThenSumSet(StoredEstimate, ActiveOf(o))
    BY <2>1, <2>2, <2>6, EstimatesGrow
  <2>8. Used(o)' \in Int /\ Used(o)' >= Used(o)
    BY <2>6, AdmissionConstants DEF Used, WorkTyped
  <2>9. QED
    BY <2>2, <2>3, <2>5, <2>7, <2>8
<1>4. EstimatesFitBudget' /\ UsageIsNoDebt'
  <2>1. ASSUME NEW o \in Org, NoCredit(o)'
        PROVE  ActiveEstimates(o)' <= Budget[o] /\ Used(o)' >= 0
    <3>1. ActiveEstimates(o) <= Budget[o] /\ Used(o) >= 0 /\ Budget[o] \in Nat
      BY <1>1, <2>1, AdmissionConstants DEF BudgetInv, EstimatesFitBudget, UsageIsNoDebt
    <3>2. QED
      BY <1>3, <2>1, <3>1
  <2>2. QED
    BY <2>1 DEF EstimatesFitBudget, UsageIsNoDebt
<1>5. ASSUME NEW q \in Request PROVE Fits(q)'
  <2>1. OrgOf[q] \in Org /\ Fits(q) /\ Budget[OrgOf[q]] \in Nat /\ Estimate(q) \in Int
    BY AdmissionConstants, EstimatesAreNumbers DEF BudgetInv
  <2>2. seenUsed[q] \in Int
    BY DEF BudgetInv, RequestsTyped
  <2>3. ASSUME at[q] = "committed", NoCredit(OrgOf[q])'
        PROVE  0 <= seenUsed[q] /\ seenUsed[q] <= Used(OrgOf[q])'
    <3>1. 0 <= seenUsed[q] /\ seenUsed[q] <= Used(OrgOf[q])
      BY <1>1, <2>1, <2>3 DEF Fits
    <3>2. QED
      BY <1>3, <2>1, <2>2, <2>3, <3>1
  <2>4. ASSUME at[q] = "insert", NoCredit(OrgOf[q])'
        PROVE  10 * ActiveEstimates(OrgOf[q])' + Estimate(q) <= 10 * Budget[OrgOf[q]]
    <3>1. 10 * ActiveEstimates(OrgOf[q]) + Estimate(q) <= 10 * Budget[OrgOf[q]]
      BY <1>1, <2>1, <2>4 DEF Fits
    <3>2. QED
      BY <1>3, <2>1, <2>4, <3>1
  <2>5. QED
    BY <1>2, <2>3, <2>4 DEF Fits
<1>6. ViewFits'
  <2>1. SUFFICES ASSUME "first" \in DOMAIN view, NoCredit(view.org)'
                 PROVE  view.first <= Used(view.org)'
    BY DEF ViewFits
  <2>2. view.org \in Org /\ view.first \in Int /\ view.first <= Used(view.org)
    BY <1>1, <2>1 DEF BudgetInv, ViewFits, ViewTyped, Nothing
  <2>3. PICK o \in Org : o = view.org
    BY <2>2
  <2>4. view.first <= Used(o)'
    BY <1>3, <2>1, <2>2, <2>3
  <2>5. view'.org = o
    BY <2>3
  <2>6. QED
    BY <2>4, <2>5
<1>7. RequestsTyped' /\ Locked' /\ ViewTyped'
  BY <1>2 DEF BudgetInv, RequestsTyped, Locked, ViewTyped
<1>8. QED
  BY <1>4, <1>5, <1>6, <1>7 DEF BudgetInv

-----------------------------------------------------------------------------
(* What a request is answered is an error, a task under its key, or its    *)
(* own; the error of the budget only by the check.                         *)
LEMMA RequestsStayTyped ==
  ASSUME KeyInv, RequestsTyped, WorkTyped, NEW r \in Request, CreateStep(r) \/ Fail(r)
  PROVE  /\ RequestsTyped'
         /\ \A q \in Request \ {r} : seenUsed'[q] = seenUsed[q] /\ answer'[q] = answer[q]
         /\ answer'[r] = "budget_exceeded" /\ answer[r] # "budget_exceeded"
              => CheckBudget(r) /\ OverBudget(r)
<1> USE DEF RequestsTyped
<1>1. "budget_exceeded" \notin Request /\ "budget_exceeded" # NoTask
  BY ErrorsAreNoTasks DEF Refusal
<1>2. ASSUME NEW why \in Refusal \cup Request \cup {NoTask}, Refuse(r, why)
      PROVE  /\ RequestsTyped' /\ answer'[r] = why
             /\ \A q \in Request \ {r} : seenUsed'[q] = seenUsed[q] /\ answer'[q] = answer[q]
  BY <1>2 DEF Refuse, Answer, Steps
<1>3. ASSUME NEW step \in Steps, GoOn(r, step)
      PROVE  RequestsTyped' /\ UNCHANGED <<seenUsed, answer>>
  BY <1>3 DEF GoOn
<1>4. CASE \/ \E why \in Refusal \ {"budget_exceeded"} : Refuse(r, why)
           \/ \E step \in Steps : GoOn(r, step)
  BY <1>2, <1>3, <1>4
<1>5. CASE Validate(r) \/ LockKey(r) \/ LockSubscription(r) \/ Fail(r)
  BY <1>4, <1>5 DEF Validate, LockKey, LockSubscription, Fail, Refusal, Steps
<1>6. CASE LookupIdempotent(r)
  <2>1. keyRow[RowKey(r)] \in Request \cup {NoTask}
    BY <1>6, KeysOfRows DEF KeyInv, LookersHaveKeys, LookupIdempotent
  <2>2. CASE keyRow[RowKey(r)] = NoTask /\ GoOn(r, "subscription")
    BY <1>4, <2>2 DEF Steps
  <2>3. CASE Refuse(r, keyRow[RowKey(r)])
    BY <1>1, <1>2, <2>1, <2>3
  <2>4. CASE Refuse(r, "mismatch")
    BY <1>4, <2>4 DEF Refusal
  <2>5. QED
    BY <1>6, <2>2, <2>3, <2>4 DEF LookupIdempotent
<1>7. CASE ReadUsed(r)
  <2>1. Used(OrgOf[r]) \in Int
    BY AdmissionConstants, Reserved
  <2>2. QED
    BY <1>7, <2>1 DEF ReadUsed, Steps
<1>8. CASE CheckBudget(r)
  <2>1. CASE OverBudget(r) /\ Refuse(r, "budget_exceeded")
    BY <1>2, <1>8, <2>1 DEF Refusal
  <2>2. CASE GoOn(r, "insert")
    BY <1>4, <2>2 DEF Steps
  <2>3. QED
    BY <1>8, <2>1, <2>2 DEF CheckBudget
<1>9. CASE Create(r)
  <2>1. CASE KeyTaken(r)
    BY <1>4, <1>9, <2>1 DEF Create, Refusal
  <2>2. CASE ~KeyTaken(r)
    <3>1. Answer(r, r) /\ keyRow' = StoredAnswer(r)
      BY <1>9, <2>2 DEF Create
    <3>2. keyRow' \in [Org \X Key -> Request \cup {NoTask}]
      BY <3>1 DEF StoredAnswer
    <3>3. QED
      BY <1>1, <3>1, <3>2 DEF Answer, Steps
  <2>3. QED
    BY <2>1, <2>2
<1>10. QED
  BY <1>5, <1>6, <1>7, <1>8, <1>9 DEF CreateStep

LEMMA CreateStepKeepsBudget ==
  ASSUME KeyInv, BudgetInv, NEW r \in Request, CreateStep(r) \/ Fail(r)
  PROVE  BudgetInv'
<1>1. RequestsTyped' /\ \A q \in Request \ {r} : seenUsed'[q] = seenUsed[q]
  BY RequestsStayTyped DEF BudgetInv
<1>2. at \in [Request -> Steps] /\ OrgOf[r] \in Org
  BY AdmissionConstants DEF BudgetInv, RequestsTyped
<1>3. ASSUME NEW why, Refuse(r, why) PROVE BudgetInv'
  <2>1. /\ at' = [at EXCEPT ![r] = "done"]
        /\ UNCHANGED <<task, workVars, month, view>>
    BY <1>3 DEF Refuse, Answer
  <2>2. "done" \in Steps /\ "done" \notin Holding
    BY DEF Steps, Holding
  <2>3. QED
    BY <1>1, <2>1, <2>2, MovingKeepsBudget
<1>4. CASE Validate(r) \/ Fail(r)
  BY <1>3, <1>4 DEF Validate, Fail
<1>5. ASSUME NEW step \in {"lookup", "subscription"}, GoOn(r, step) PROVE BudgetInv'
  <2>1. at' = [at EXCEPT ![r] = step] /\ UNCHANGED <<task, workVars, month, view>>
    BY <1>5 DEF GoOn
  <2>2. step \in Steps /\ step \notin Holding
    BY DEF Steps, Holding
  <2>3. QED
    BY <1>1, <2>1, <2>2, MovingKeepsBudget
<1>6. CASE LockKey(r) \/ LookupIdempotent(r)
  BY <1>3, <1>5, <1>6 DEF LockKey, LookupIdempotent
<1>7. CASE LockSubscription(r)
  <2>1. CASE SubscriptionUnlocked(r) /\ GoOn(r, "used")
    <3>1. at' = [at EXCEPT ![r] = "used"] /\ UNCHANGED <<task, workVars, month, view>>
      BY <2>1 DEF GoOn
    <3>2. "used" \in Steps
      BY DEF Steps
    <3>3. QED
      BY <1>1, <2>1, <3>1, <3>2, MovingKeepsBudget
  <2>2. QED
    BY <1>3, <1>7, <2>1 DEF LockSubscription
<1>8. CASE ReadUsed(r)
  <2>1. /\ at[r] = "used" /\ at' = [at EXCEPT ![r] = "committed"]
        /\ seenUsed' = [seenUsed EXCEPT ![r] = Used(OrgOf[r])]
        /\ UNCHANGED <<task, workVars, month, view>>
    BY <1>8 DEF ReadUsed
  <2>2. seenUsed'[r] = Used(OrgOf[r]) /\ Used(OrgOf[r]) \in Int
    BY <1>2, <2>1, Reserved DEF BudgetInv, RequestsTyped
  <2>3. "committed" \in Steps /\ at[r] \in Holding
    BY <2>1 DEF Steps, Holding
  <2>4. NoCredit(OrgOf[r]) => 0 <= seenUsed'[r] /\ seenUsed'[r] <= Used(OrgOf[r])
    BY <1>2, <2>2 DEF BudgetInv, UsageIsNoDebt
  <2>5. QED
    BY <1>1, <2>1, <2>3, <2>4, MovingKeepsBudget
<1>9. CASE CheckBudget(r)
  <2>1. CASE ~OverBudget(r) /\ GoOn(r, "insert")
    <3>1. at' = [at EXCEPT ![r] = "insert"] /\ UNCHANGED <<task, workVars, month, view>>
      BY <2>1 DEF GoOn
    <3>2. "insert" \in Steps /\ at[r] \in Holding
      BY <1>9 DEF CheckBudget, Steps, Holding
    <3>3. ASSUME NoCredit(OrgOf[r])
          PROVE  10 * ActiveEstimates(OrgOf[r]) + Estimate(r) <= 10 * Budget[OrgOf[r]]
      <4>1. Committed(OrgOf[r]) = ActiveEstimates(OrgOf[r]) /\ ActiveEstimates(OrgOf[r]) \in Int
        BY <1>2, Reserved DEF BudgetInv
      <4>2. seenUsed[r] \in Int /\ Estimate(r) \in Int /\ Budget[OrgOf[r]] \in Nat
        BY <1>2, AdmissionConstants, EstimatesAreNumbers DEF BudgetInv, RequestsTyped
      <4>3. seenUsed[r] >= 0
        BY <1>9, <3>3 DEF BudgetInv, Fits, CheckBudget
      <4>4. QED
        BY <2>1, <4>1, <4>2, <4>3 DEF OverBudget
    <3>4. QED
      BY <1>1, <3>1, <3>2, <3>3, MovingKeepsBudget
  <2>2. QED
    BY <1>3, <1>9, <2>1 DEF CheckBudget
<1>10. CASE Create(r)
  <2>1. CASE ~KeyTaken(r)
    <3>1. /\ at[r] = "insert" /\ at' = [at EXCEPT ![r] = "done"]
          /\ task' = [task EXCEPT ![r] = "active"]
          /\ UNCHANGED <<seenUsed, workVars, month, view>>
      BY <1>10, <2>1 DEF Create, Answer
    <3>2. QED
      BY <1>1, <3>1, CreatingKeepsBudget
  <2>2. QED
    BY <1>3, <1>10, <2>1 DEF Create
<1>11. QED
  BY <1>4, <1>6, <1>7, <1>8, <1>9, <1>10 DEF CreateStep

LEMMA RecordCallKeepsBudget ==
  ASSUME BudgetInv, NEW r \in Request, RecordCall(r)
  PROVE  BudgetInv'
<1> DEFINE calls == Estimates[BodyOf[r]]
           org == OrgOf[r]
<1>1. WorkTyped /\ calls \in Seq(Int) /\ org \in Org
  BY EstimatesAreNumbers, AdmissionConstants DEF BudgetInv
<1>2. /\ recorded[r] < Len(calls) /\ recorded' = [recorded EXCEPT ![r] = @ + 1]
      /\ task[r] = "active" /\ UNCHANGED <<requestVars, task, month, view>>
  BY DEF RecordCall, Charge
<1>3. PICK cost \in ActualCosts(Stored(calls[recorded[r] + 1])) :
        usage' = [usage EXCEPT ![org][month] = @ + cost]
  BY DEF RecordCall, Charge
<1>4. recorded[r] \in Nat /\ recorded[r] + 1 \in 1 .. Len(calls)
  BY <1>1, <1>2 DEF WorkTyped
<1>5. calls[recorded[r] + 1] \in Int /\ recorded[r] + 1 \in DOMAIN calls
  BY <1>1, <1>4
<1>6. cost \in Int /\ (NoCredit(org) => cost \in Nat)
  <2>1. NoCredit(org) => calls[recorded[r] + 1] >= 0
    BY <1>2, <1>5 DEF NoCredit, NonNegative
  <2>2. /\ Stored(calls[recorded[r] + 1]) \in Int
        /\ NoCredit(org) => Stored(calls[recorded[r] + 1]) \in Nat
    BY <1>5, <2>1, Rounding
  <2>3. QED
    BY <1>3, <2>2, Rounding
<1>7. /\ recorded' \in [Request -> Nat]
      /\ \A q \in Request : recorded'[q] <= Len(Estimates[BodyOf[q]])
  BY <1>1, <1>2, <1>4 DEF WorkTyped
<1>8. /\ usage' \in [Org -> [Month -> Int]]
      /\ \A o \in Org : \A m \in Month : NoCredit(o) => usage'[o][m] >= usage[o][m]
  BY <1>1, <1>3, <1>6 DEF WorkTyped
<1>9. WorkTyped'
  BY <1>1, <1>2, <1>7, <1>8 DEF WorkTyped
<1>10. \A o \in Org : NoCredit(o) => usage'[o][PeriodMonth[o]] >= usage[o][PeriodMonth[o]]
  BY <1>8, AdmissionConstants
<1>11. QED
  BY <1>2, <1>9, <1>10, WorkingKeepsBudget

LEMMA EndTaskKeepsBudget ==
  ASSUME BudgetInv, NEW r \in Request, EndTask(r)
  PROVE  BudgetInv'
<1>1. task' = [task EXCEPT ![r] = "ended"] /\ UNCHANGED <<requestVars, recorded, usage, month, view>>
  BY DEF EndTask, workVars
<1>2. /\ WorkTyped /\ \A q \in Request : task'[q] = "active" => task[q] = "active"
      /\ \A q \in Request : task[q] # "none" => task'[q] # "none"
  BY <1>1 DEF BudgetInv, WorkTyped
<1>3. WorkTyped'
  <2>1. {q \in Request : task[q] = "active"}' \in SUBSET {q \in Request : task[q] = "active"}
    BY <1>2
  <2>2. IsFiniteSet({q \in Request : task[q] = "active"}')
    BY <1>2, <2>1, FS_Subset DEF WorkTyped
  <2>3. QED
    BY <1>1, <1>2, <2>2 DEF WorkTyped
<1>4. \A o \in Org : usage'[o][PeriodMonth[o]] >= usage[o][PeriodMonth[o]]
  BY <1>1, <1>2, AdmissionConstants DEF WorkTyped
<1>5. QED
  BY <1>1, <1>2, <1>3, <1>4, WorkingKeepsBudget

LEMMA MonthPassesKeepsBudget ==
  ASSUME BudgetInv, MonthPasses
  PROVE  BudgetInv'
<1>1. month' = month + 1 /\ month < LastMonth /\ UNCHANGED <<requestVars, task, recorded, usage, view>>
  BY DEF MonthPasses, workVars
<1>2. WorkTyped
  BY DEF BudgetInv
<1>3. WorkTyped'
  BY <1>1, <1>2, AdmissionConstants DEF WorkTyped, Month
<1>4. \A o \in Org : usage'[o][PeriodMonth[o]] >= usage[o][PeriodMonth[o]]
  BY <1>1, <1>2, AdmissionConstants DEF WorkTyped
<1>5. QED
  BY <1>1, <1>2, <1>3, <1>4, WorkingKeepsBudget

(* The client's view: the usage is read first, the commitments second.     *)
LEMMA ViewSteps ==
  ASSUME BudgetInv
  PROVE  /\ \A o \in Org : SubscriptionFirst(o) =>
              o \in Org /\ view' = [org |-> o, first |-> Used(o)] /\ Used(o) \in Int
         /\ SubscriptionSecond =>
              /\ view.org \in Org /\ view.first \in Int
              /\ view' = [org |-> view.org, remaining |->
                   Budget[view.org] - view.first - ActiveEstimates(view.org)]
              /\ ActiveEstimates(view.org) \in Int
<1>1. SubscriptionSums[1] = "used" /\ SubscriptionSums[2] = "reserved"
  BY DEF SubscriptionSums
<1>2. ASSUME NEW o \in Org
      PROVE  SumOf(SubscriptionSums[1], o) = Used(o) /\ SumOf(SubscriptionSums[2], o) = ActiveEstimates(o)
  <2>1. Committed(o) = ActiveEstimates(o)
    BY Reserved DEF BudgetInv
  <2>2. QED
    BY <1>1, <2>1 DEF SumOf
<1>3. ASSUME NEW o \in Org, SubscriptionFirst(o)
      PROVE  view' = [org |-> o, first |-> Used(o)] /\ Used(o) \in Int
  <2>1. Used(o) \in Int
    BY Reserved DEF BudgetInv
  <2>2. QED
    BY <1>2, <1>3, <2>1 DEF SubscriptionFirst
<1>4. ASSUME SubscriptionSecond
      PROVE  /\ view.org \in Org /\ view.first \in Int
             /\ view' = [org |-> view.org, remaining |->
                  Budget[view.org] - view.first - ActiveEstimates(view.org)]
             /\ ActiveEstimates(view.org) \in Int
  <2>1. view.org \in Org /\ view.first \in Int
    BY <1>4 DEF BudgetInv, ViewTyped, SubscriptionSecond, Nothing
  <2>2. PICK o \in Org : o = view.org
    BY <2>1
  <2>3. ActiveEstimates(o) \in Int
    BY Reserved DEF BudgetInv
  <2>4. view' = [org |-> o, remaining |-> Budget[o] - view.first - ActiveEstimates(o)]
    BY <1>2, <1>4, <2>2 DEF SubscriptionSecond
  <2>5. QED
    BY <2>1, <2>2, <2>3, <2>4
<1>5. QED
  BY <1>3, <1>4

LEMMA ViewingKeepsBudget ==
  ASSUME BudgetInv,
         (\E o \in Org : SubscriptionFirst(o)) \/ SubscriptionSecond \/ LeaveSubscription
           \/ UNCHANGED vars
  PROVE  BudgetInv'
<1>1. UNCHANGED <<at, seenUsed, answer, keyRow, task, recorded, usage, month>>
  BY DEF SubscriptionFirst, SubscriptionSecond, LeaveSubscription, vars, requestVars, workVars
<1>2. ViewTyped' /\ ViewFits'
  <2>1. ASSUME NEW o \in Org, SubscriptionFirst(o) PROVE ViewTyped' /\ ViewFits'
    <3>1. view' = [org |-> o, first |-> Used(o)] /\ Used(o) \in Int
      BY <2>1, ViewSteps
    <3>2. usage'[o][PeriodMonth[o]] = Used(o)
      BY <1>1 DEF Used
    <3>3. view'.org = o /\ view'.first = Used(o)
      BY <3>1
    <3>4. QED
      BY <3>1, <3>2, <3>3 DEF ViewTyped, ViewFits, Used
  <2>2. CASE SubscriptionSecond
    <3>1. /\ view.org \in Org /\ view.first \in Int
          /\ view' = [org |-> view.org, remaining |->
               Budget[view.org] - view.first - ActiveEstimates(view.org)]
          /\ ActiveEstimates(view.org) \in Int
      BY <2>2, ViewSteps
    <3>2. Budget[view.org] - view.first - ActiveEstimates(view.org) \in Int
      BY <3>1, AdmissionConstants
    <3>3. QED
      BY <3>1, <3>2 DEF ViewTyped, ViewFits
  <2>3. CASE LeaveSubscription
    BY <2>3 DEF LeaveSubscription, ViewTyped, ViewFits, Nothing
  <2>4. CASE UNCHANGED vars
    BY <2>4 DEF vars, workVars, BudgetInv, ViewTyped, ViewFits, Used, NoCredit, NonNegative
  <2>5. QED
    BY <2>1, <2>2, <2>3, <2>4
<1>3. RequestsTyped' /\ WorkTyped' /\ Locked'
  BY <1>1 DEF BudgetInv, RequestsTyped, WorkTyped, Locked
<1>4. EstimatesFitBudget' /\ UsageIsNoDebt'
  BY <1>1 DEF BudgetInv, EstimatesFitBudget, ActiveEstimates, UsageIsNoDebt, Used, NoCredit, NonNegative
<1>5. ASSUME NEW q \in Request PROVE Fits(q)'
  <2>1. /\ Used(OrgOf[q])' = Used(OrgOf[q]) /\ NoCredit(OrgOf[q])' = NoCredit(OrgOf[q])
        /\ ActiveEstimates(OrgOf[q])' = ActiveEstimates(OrgOf[q])
    BY <1>1 DEF Used, ActiveEstimates, NoCredit, NonNegative
  <2>2. Fits(q)
    BY DEF BudgetInv
  <2>3. QED
    BY <1>1, <2>1, <2>2 DEF Fits
<1>6. QED
  BY <1>2, <1>3, <1>4, <1>5 DEF BudgetInv

LEMMA BudgetStep == KeyInv /\ BudgetInv /\ [Next]_vars => BudgetInv'
  BY CreateStepKeepsBudget, RecordCallKeepsBudget, EndTaskKeepsBudget, MonthPassesKeepsBudget,
     ViewingKeepsBudget DEF Next

LEMMA BudgetInvariance == Spec => []BudgetInv
  BY KeyInvariance, BudgetInit, BudgetStep, PTL DEF Spec

(* Type correctness: requests, keys, tasks, usage and the client's view.   *)
THEOREM AdmissionTyped == Spec => []TypeOK
<1>1. BudgetInv => TypeOK
  BY DEF BudgetInv, RequestsTyped, WorkTyped, ViewTyped, Steps, TypeOK
<1>2. QED
  BY <1>1, BudgetInvariance, PTL

(* Whatever requests run at once, the tasks they queue never commit an     *)
(* organization to more than its budget (select ... for update of s, and   *)
(* the check, which are one transaction with the insert), as long as none  *)
(* of its tasks has a negative estimate.                                   *)
THEOREM CommitmentsFitBudget == Spec => []EstimatesFitBudget
<1>1. BudgetInv => EstimatesFitBudget
  BY DEF BudgetInv
<1>2. QED
  BY <1>1, BudgetInvariance, PTL

(* A refusal for the budget is right at the moment it is given, if no task *)
(* of the organization has a negative estimate.                            *)
THEOREM RefusalsAreJust == Spec => RefusedOnlyOverBudget
<1> DEFINE Just(r) == LET o == OrgOf[r] IN
             NoCredit(o) =>
               10 * (Used(o) + ActiveEstimates(o)) + Estimate(r) > 10 * Budget[o]
           Refused(r) == answer'[r] = "budget_exceeded" /\ answer[r] # "budget_exceeded"
<1>1. ASSUME KeyInv, BudgetInv, [Next]_vars, NEW r \in Request, Refused(r)
      PROVE  Just(r)
  <2>1. CheckBudget(r) /\ OverBudget(r)
    <3>1. PICK q \in Request : CreateStep(q) \/ Fail(q)
      BY <1>1 DEF Next, vars, requestVars, RecordCall, Charge, EndTask, MonthPasses, SubscriptionFirst,
         SubscriptionSecond, LeaveSubscription
    <3>2. q = r
      BY <1>1, <3>1, RequestsStayTyped DEF BudgetInv
    <3>3. QED
      BY <1>1, <3>1, <3>2, RequestsStayTyped DEF BudgetInv
  <2>2. OrgOf[r] \in Org /\ Budget[OrgOf[r]] \in Nat /\ Estimate(r) \in Int
    BY AdmissionConstants, EstimatesAreNumbers
  <2>3. seenUsed[r] \in Int /\ (NoCredit(OrgOf[r]) => seenUsed[r] <= Used(OrgOf[r]))
    BY <1>1, <2>1 DEF CheckBudget, BudgetInv, RequestsTyped, Fits
  <2>4. /\ Committed(OrgOf[r]) = ActiveEstimates(OrgOf[r])
        /\ ActiveEstimates(OrgOf[r]) \in Int /\ Used(OrgOf[r]) \in Int
    BY <1>1, <2>2, Reserved DEF BudgetInv
  <2>5. QED
    BY <2>1, <2>2, <2>3, <2>4 DEF OverBudget
<1>2. KeyInv /\ BudgetInv /\ [Next]_vars => [\A r \in Request : Refused(r) => Just(r)]_vars
  BY <1>1
<1>3. QED
  BY <1>2, KeyInvariance, BudgetInvariance, PTL DEF Spec, RefusedOnlyOverBudget

(* What a client is shown to have left is never less than he has, if no    *)
(* task of the organization has a negative estimate.                       *)
THEOREM NothingIsCountedTwice == Spec => ShownIsNotTooLittle
<1> DEFINE Shown == LET o == view'.org IN
             "first" \in DOMAIN view /\ "remaining" \in DOMAIN view' /\ NoCredit(o) =>
               view'.remaining >= Budget[o] - Used(o) - ActiveEstimates(o)
<1>1. ASSUME BudgetInv, [Next]_vars PROVE Shown
  <2>1. SUFFICES ASSUME "first" \in DOMAIN view, "remaining" \in DOMAIN view', NoCredit(view'.org)
                 PROVE  view'.remaining >= Budget[view'.org] - Used(view'.org) - ActiveEstimates(view'.org)
    OBVIOUS
  <2>2. view \in [org : Org, first : Int]
    BY <1>1, <2>1 DEF BudgetInv, ViewTyped, Nothing
  <2>3. view' # view
    BY <2>1, <2>2
  <2>4. SubscriptionSecond
    <3>1. ASSUME NEW r \in Request, CreateStep(r) PROVE view' = view
      BY <3>1 DEF CreateStep, Validate, LockKey, LookupIdempotent, LockSubscription, ReadUsed,
         CheckBudget, Create, Refuse, Answer, GoOn
    <3>2. ASSUME NEW r \in Request, Fail(r) \/ RecordCall(r) \/ EndTask(r) PROVE view' = view
      BY <3>2 DEF Fail, Refuse, Answer, RecordCall, Charge, EndTask
    <3>3. \A o \in Org : ~SubscriptionFirst(o)
      BY <2>1 DEF SubscriptionFirst, Nothing
    <3>4. ~LeaveSubscription
      BY <2>1 DEF LeaveSubscription, Nothing
    <3>5. QED
      BY <1>1, <2>3, <3>1, <3>2, <3>3, <3>4 DEF Next, MonthPasses, vars
  <2>5. /\ view.org \in Org /\ view.first \in Int
        /\ view' = [org |-> view.org, remaining |->
             Budget[view.org] - view.first - ActiveEstimates(view.org)]
        /\ ActiveEstimates(view.org) \in Int
    BY <1>1, <2>4, ViewSteps
  <2>8. view'.org = view.org /\ view'.remaining = Budget[view.org] - view.first - ActiveEstimates(view.org)
    BY <2>5
  <2>6. view.first <= Used(view.org)
    BY <1>1, <2>1, <2>8 DEF BudgetInv, ViewFits
  <2>7. Used(view.org) \in Int /\ Budget[view.org] \in Nat
    BY <1>1, <2>5, Reserved, AdmissionConstants DEF BudgetInv
  <2>9. Budget[view.org] - view.first - ActiveEstimates(view.org)
          >= Budget[view.org] - Used(view.org) - ActiveEstimates(view.org)
    BY <2>5, <2>6, <2>7
  <2>10. QED
    BY <2>8, <2>9
<1>2. BudgetInv /\ [Next]_vars => [Shown]_vars
  BY <1>1
<1>3. QED
  BY <1>2, BudgetInvariance, PTL DEF Spec, ShownIsNotTooLittle
=============================================================================
