------------------------------ MODULE Admission ------------------------------
(***************************************************************************)
(* tasks.Service.Create, run by any number of API instances at once: the   *)
(* idempotency key, the two locks, the check of the budget and the insert. *)
(* Workers charge calls and end tasks in the meantime.                     *)
(*                                                                         *)
(* Create is one READ COMMITTED transaction, so each of its statements     *)
(* sees what was committed when the statement began.  An action is one     *)
(* such statement, or the last one together with the writes and the        *)
(* commit.  A task is named by the request that creates it.                *)
(*                                                                         *)
(* Money is in cents, as the columns of type numeric(12, 2) keep it.  What *)
(* a client estimates is in tenths of a cent, and is rounded when it is    *)
(* stored, after the check.  It may be negative: nothing forbids it.       *)
(***************************************************************************)
EXTENDS Integers, Sequences, FiniteSetsExt

CONSTANTS
  Org, Request, Key, Body,
  OrgOf, KeyOf, BodyOf,          \* of each request; NoKey is a missing header
  Valid, Resolvable,             \* bodies that validate, that name known tools
  Estimates,                     \* estimated costs of the calls of each body
  Subscribed,                    \* organizations with an active subscription
  Budget,                        \* monthly_budget_usd of each organization
  PeriodMonth,                   \* the month current_period_start ... _end covers
  LastMonth,                     \* bound: how long the model runs
  NoKey, NoTask

Month == 1 .. LastMonth

ASSUME AdmissionConstants ==
  /\ LastMonth \in Nat \ {0}
  /\ OrgOf \in [Request -> Org]
  /\ KeyOf \in [Request -> Key \cup {NoKey}]
  /\ BodyOf \in [Request -> Body]
  /\ Estimates \in [Body -> Seq(Int)]
  /\ Budget \in [Org -> Nat]
  /\ PeriodMonth \in [Org -> Month]
  /\ NoKey \notin Key /\ NoTask \notin Request

VARIABLES
  at,            \* how far each request has come
  seenUsed,      \* its local variable used
  answer,        \* what it was answered: an error, or the task
  keyRow,        \* idempotency_keys: the task whose answer is stored, or NoTask
  task,          \* tasks.status, as far as the budget tells statuses apart
  recorded,      \* how many calls of each task have been charged
  usage,         \* sum of usage_records per organization and month
  month,
  view           \* the budget a client looks up: nothing, the first sum, the answer

requestVars == <<at, seenUsed, answer, keyRow>>
workVars == <<recorded, usage>>
vars == <<requestVars, task, workVars, month, view>>

Nothing == [asked |-> "nothing"]

Refusal == {"validation", "mismatch", "no_subscription", "unknown_tool",
            "budget_exceeded", "key_conflict", "internal"}

ASSUME ErrorsAreNoTasks == Request \cap Refusal = {} /\ NoTask \notin Refusal

TypeOK ==
  /\ at \in [Request -> {"start", "lookup", "subscription", "used", "committed",
                          "insert", "done"}]
  /\ seenUsed \in [Request -> Int]
  /\ answer \in [Request -> Refusal \cup Request \cup {NoTask}]
  /\ keyRow \in [Org \X Key -> Request \cup {NoTask}]
  /\ task \in [Request -> {"none", "active", "ended"}]
  /\ recorded \in [Request -> Nat]
  /\ \A r \in Request : recorded[r] <= Len(Estimates[BodyOf[r]])
  /\ usage \in [Org -> [Month -> Int]]
  /\ month \in Month
  /\ view \in {Nothing} \cup [org : Org, first : Int] \cup [org : Org, remaining : Int]

Init ==
  /\ at = [r \in Request |-> "start"]
  /\ seenUsed = [r \in Request |-> 0]
  /\ answer = [r \in Request |-> NoTask]
  /\ keyRow = [k \in Org \X Key |-> NoTask]
  /\ task = [r \in Request |-> "none"]
  /\ recorded = [r \in Request |-> 0]
  /\ usage = [o \in Org |-> [m \in Month |-> 0]]
  /\ month = 1
  /\ view = Nothing

-----------------------------------------------------------------------------
(* The two locks.  A transaction holds them until it commits or rolls back.*)
InTransaction == {"lookup", "subscription", "used", "committed", "insert"}

(* Mutant: keys of all organizations are one name space. *)
RowKeyOfAnyOrg(r) == <<CHOOSE o \in Org : TRUE, KeyOf[r]>>

(* The primary key of idempotency_keys, and what the advisory lock hashes. *)
RowKey(r) == <<OrgOf[r], KeyOf[r]>>

(* Mutants: no lock. *)
KeyUnlockedAlways(r) == TRUE
SubscriptionUnlockedAlways(r) == TRUE

KeyUnlocked(r) ==
  \A q \in Request : RowKey(q) = RowKey(r) => at[q] \notin InTransaction

SubscriptionUnlocked(r) ==
  \A q \in Request : OrgOf[q] = OrgOf[r] => at[q] \notin {"used", "committed", "insert"}

GoOn(r, step) ==
  /\ at' = [at EXCEPT ![r] = step]
  /\ UNCHANGED <<seenUsed, answer, keyRow, task, workVars, month, view>>

Answer(r, what) ==
  /\ at' = [at EXCEPT ![r] = "done"]
  /\ answer' = [answer EXCEPT ![r] = what]
  /\ UNCHANGED <<seenUsed, workVars, month, view>>

(* An early return rolls back, so nothing is written. *)
Refuse(r, why) == Answer(r, why) /\ UNCHANGED <<keyRow, task>>

-----------------------------------------------------------------------------
Validate(r) ==
  at[r] = "start" /\ BodyOf[r] \notin Valid /\ Refuse(r, "validation")

(* pg_advisory_xact_lock, if the client sent a key. *)
LockKey(r) ==
  /\ at[r] = "start"
  /\ BodyOf[r] \in Valid
  /\ IF KeyOf[r] = NoKey THEN GoOn(r, "subscription")
                         ELSE KeyUnlocked(r) /\ GoOn(r, "lookup")

SameBody(r) == BodyOf[keyRow[RowKey(r)]] = BodyOf[r]

LookupIdempotent(r) ==
  /\ at[r] = "lookup"
  /\ \/ keyRow[RowKey(r)] = NoTask /\ GoOn(r, "subscription")
     \/ /\ keyRow[RowKey(r)] # NoTask
        /\ SameBody(r)
        /\ Refuse(r, keyRow[RowKey(r)])
     \/ /\ keyRow[RowKey(r)] # NoTask
        /\ ~ SameBody(r)
        /\ Refuse(r, "mismatch")

(* select ... for update of s, and resolveCosts, whose tables stay as they *)
(* are.                                                                    *)
LockSubscription(r) ==
  /\ at[r] = "subscription"
  /\ \/ OrgOf[r] \notin Subscribed /\ Refuse(r, "no_subscription")
     \/ /\ OrgOf[r] \in Subscribed
        /\ SubscriptionUnlocked(r)
        /\ \/ BodyOf[r] \notin Resolvable /\ Refuse(r, "unknown_tool")
           \/ BodyOf[r] \in Resolvable /\ GoOn(r, "used")

Used(o) == usage[o][PeriodMonth[o]]

(* budgetUsage, first statement: what the period of the subscription used. *)
ReadUsed(r) ==
  /\ at[r] = "used"
  /\ at' = [at EXCEPT ![r] = "committed"]
  /\ seenUsed' = [seenUsed EXCEPT ![r] = Used(OrgOf[r])]
  /\ UNCHANGED <<answer, keyRow, task, workVars, month, view>>

(* resolveCosts adds up what the client sent; the row keeps whole cents,   *)
(* and numeric rounds half a cent away from zero.                          *)
Estimate(r) == FoldFunction(+, 0, Estimates[BodyOf[r]])

Stored(tenths) ==
  IF tenths >= 0 THEN (tenths + 5) \div 10 ELSE -((5 - tenths) \div 10)

StoredEstimate(r) == Stored(Estimate(r))

(* Mutant: tasks that have ended still count. *)
CountsUnlessNew(r) == task[r] # "none"

(* domain.ActiveTaskStatuses *)
Counts(r) == task[r] = "active"

(* The estimates of the unfinished tasks. *)
Committed(o) == MapThenSumSet(StoredEstimate, {r \in Request : OrgOf[r] = o /\ Counts(r)})

OverBudget(r) ==
  10 * (seenUsed[r] + Committed(OrgOf[r])) + Estimate(r) > 10 * Budget[OrgOf[r]]

(* budgetUsage, second statement, and the check. *)
CheckBudget(r) ==
  /\ at[r] = "committed"
  /\ \/ OverBudget(r) /\ Refuse(r, "budget_exceeded")
     \/ ~ OverBudget(r) /\ GoOn(r, "insert")

KeyTaken(r) == KeyOf[r] # NoKey /\ keyRow[RowKey(r)] # NoTask

StoredAnswer(r) ==
  IF KeyOf[r] = NoKey THEN keyRow ELSE [keyRow EXCEPT ![RowKey(r)] = r]

(* The task is inserted and queued, and its answer stored under the key,   *)
(* whose primary key would refuse a second row.                            *)
Create(r) ==
  /\ at[r] = "insert"
  /\ IF KeyTaken(r)
     THEN Refuse(r, "key_conflict")
     ELSE /\ Answer(r, r)
          /\ task' = [task EXCEPT ![r] = "active"]
          /\ keyRow' = StoredAnswer(r)

(* Any statement may fail, and the client may go away: all is rolled back. *)
Fail(r) == at[r] \in InTransaction /\ Refuse(r, "internal")

-----------------------------------------------------------------------------
(* The workers, as far as the budget sees them.  recordCall charges up to  *)
(* a tenth more or less than the estimate, rounded to cents; rand.Float64  *)
(* stays below 1.                                                          *)
ActualCosts(estimate) ==
  IF estimate >= 0
  THEN (9 * estimate + 5) \div 10 .. (11 * estimate + 4) \div 10
  ELSE -((4 - 11 * estimate) \div 10) .. -((5 - 9 * estimate) \div 10)

Charge(r, call) ==
  /\ recorded' = [recorded EXCEPT ![r] = @ + 1]
  /\ \E cost \in ActualCosts(Stored(Estimates[BodyOf[r]][call])) :
       usage' = [usage EXCEPT ![OrgOf[r]][month] = @ + cost]
  /\ UNCHANGED <<requestVars, task, month, view>>

(* Mutant: the last call is charged again. *)
RecordCallAgain(r) ==
  /\ task[r] = "active"
  /\ LET calls == Len(Estimates[BodyOf[r]]) IN
       recorded[r] <= calls /\ Charge(r, Min({recorded[r] + 1, calls}))

RecordCall(r) ==
  /\ task[r] = "active"
  /\ recorded[r] < Len(Estimates[BodyOf[r]])
  /\ Charge(r, recorded[r] + 1)

(* finish, rejectFlow or Cancel *)
EndTask(r) ==
  /\ task[r] = "active"
  /\ task' = [task EXCEPT ![r] = "ended"]
  /\ UNCHANGED <<requestVars, workVars, month, view>>

MonthPasses ==
  month < LastMonth /\ month' = month + 1 /\ UNCHANGED <<requestVars, task, workVars, view>>

-----------------------------------------------------------------------------
(* billing.Service.Subscription: the same two sums, in the same order, but *)
(* without a transaction and a lock.                                       *)
(* Mutant: the estimates first. *)
SubscriptionSumsSwapped == <<"reserved", "used">>

SubscriptionSums == <<"used", "reserved">>

SumOf(what, o) == IF what = "used" THEN Used(o) ELSE Committed(o)

SubscriptionFirst(o) ==
  /\ view = Nothing
  /\ o \in Subscribed
  /\ view' = [org |-> o, first |-> SumOf(SubscriptionSums[1], o)]
  /\ UNCHANGED <<requestVars, task, workVars, month>>

SubscriptionSecond ==
  /\ "first" \in DOMAIN view
  /\ view' = [org |-> view.org, remaining |->
       Budget[view.org] - view.first - SumOf(SubscriptionSums[2], view.org)]
  /\ UNCHANGED <<requestVars, task, workVars, month>>

(* The client has its answer, or an error. *)
LeaveSubscription ==
  view # Nothing /\ view' = Nothing /\ UNCHANGED <<requestVars, task, workVars, month>>

-----------------------------------------------------------------------------
CreateStep(r) ==
  \/ Validate(r) \/ LockKey(r) \/ LookupIdempotent(r) \/ LockSubscription(r)
  \/ ReadUsed(r) \/ CheckBudget(r) \/ Create(r)

Next ==
  \/ \E r \in Request : CreateStep(r) \/ Fail(r) \/ RecordCall(r) \/ EndTask(r)
  \/ MonthPasses
  \/ \E o \in Org : SubscriptionFirst(o)
  \/ SubscriptionSecond \/ LeaveSubscription

Spec == Init /\ [][Next]_vars

-----------------------------------------------------------------------------
(* Requests with one idempotency key create one task at most; each that is *)
(* answered with a task sent the body of that task and gets the very one   *)
(* that exists in its organization, whose keys are its own.                *)
KeyMeansOneTask ==
  \A r, q \in Request :
    OrgOf[r] = OrgOf[q] /\ KeyOf[r] = KeyOf[q] /\ KeyOf[r] # NoKey =>
      /\ task[r] # "none" /\ task[q] # "none" => r = q
      /\ answer[r] \in Request =>
           /\ task[answer[r]] # "none"
           /\ BodyOf[answer[r]] = BodyOf[r] /\ OrgOf[answer[r]] = OrgOf[r]
           /\ answer[q] \in Request => answer[r] = answer[q]

(* No request of a client that repeats itself runs into the primary key of *)
(* idempotency_keys: it waits for the first one and is answered from it.   *)
RetryIsNeverRefused == \A r \in Request : answer[r] # "key_conflict"

(* What has been said of budgets supposes that nobody is paid for a call:  *)
(* no task of the organization, finished or not, has a negative estimate.  *)
NonNegative(r) ==
  \A i \in DOMAIN Estimates[BodyOf[r]] : Estimates[BodyOf[r]][i] >= 0

NoCredit(o) ==
  \A r \in Request : OrgOf[r] = o /\ task[r] # "none" => NonNegative(r)

ActiveEstimates(o) ==
  MapThenSumSet(StoredEstimate, {r \in Request : OrgOf[r] = o /\ task[r] = "active"})

(* The estimates of an organization's unfinished tasks never add up to     *)
(* more than its budget, whichever instances accept them, as long as no    *)
(* estimate is negative (see UnfinishedFitBudget).                         *)
EstimatesFitBudget == \A o \in Org : NoCredit(o) => ActiveEstimates(o) <= Budget[o]

(* A task is refused for the budget only when, at that very moment, usage  *)
(* and unfinished tasks leave no room for it, although the usage was read  *)
(* earlier: where no task has a negative estimate, usage only grows.       *)
RefusedOnlyOverBudget ==
  [][\A r \in Request :
       answer'[r] = "budget_exceeded" /\ answer[r] # "budget_exceeded" =>
         LET o == OrgOf[r] IN
         NoCredit(o) =>
           10 * (Used(o) + ActiveEstimates(o)) + Estimate(r) > 10 * Budget[o]]_vars

(* The budget that a client is shown may already be spent when he reads    *)
(* it, but is never less than what is left at that moment: nothing is      *)
(* counted twice while workers turn estimates into usage, if no estimate   *)
(* is negative.                                                            *)
ShownIsNotTooLittle ==
  [][LET o == view'.org IN
       "first" \in DOMAIN view /\ "remaining" \in DOMAIN view' /\ NoCredit(o) =>
         view'.remaining >= Budget[o] - Used(o) - ActiveEstimates(o)]_vars

-----------------------------------------------------------------------------
(* TASK.md: the budget used in the period plus the estimate of the task is *)
(* within the monthly budget when the task is queued.                      *)
QueuedWithinBudget ==
  [][\A r \in Request : task[r] = "none" /\ task'[r] = "active" =>
       10 * Used(OrgOf[r]) + Estimate(r) <= 10 * Budget[OrgOf[r]]]_vars

(* ADR.md: the limits of the budget are not slipped past, whatever the     *)
(* estimates of the tasks that were accepted.                              *)
UnfinishedFitBudget == \A o \in Org : ActiveEstimates(o) <= Budget[o]
=============================================================================
