# AgentHub in TLA+

AgentHub runs tasks of AI agents for organizations. A task is an ordered list of tool calls; a worker
executes it on a slot of the organization, stops where a call needs the approval of people, and charges
each completed call. API and worker processes run in any number, keep no state of their own, and
coordinate through PostgreSQL only. This directory models that coordination, checks it with TLC on small
instances and proves part of it with TLAPS for all instances.

Contents: [the system](#the-system), [the modules](#the-modules), [the runs](#the-runs),
[what the code does otherwise than its documents](#what-the-code-does-otherwise-than-its-documents),
[fairness](#fairness), [the proofs](#the-proofs), [what is not modelled](#what-is-not-modelled),
[the plan](#the-plan).

## The system

| Part | Code | State it keeps | Operations | Module |
|---|---|---|---|---|
| Task creation | `internal/tasks/service.go` | `tasks`, `tool_calls`, `idempotency_keys` | `Create` | `Admission` |
| Queue | `internal/worker/claim.go` | `tasks.status`, row locks | `claimQueued` | `Queue`, `WorkerLoop` |
| Slots | `internal/worker/reserve.go` | `agent_slots.status` | `ReserveSlot`, `FreeSlot` | `WorkerLoop`, `SlotPool` |
| Worker loop | `internal/worker/*.go` | `task_executions` (status, slot, index, lease), `tool_calls.status`, `usage_records` | `claimResumable`, `nextCall`, `raiseApproval`, `recordCall`, `finish` | `WorkerLoop`, `RowLocks` |
| Approvals | `internal/approvals/decide.go` | `approval_requests`, `approval_decisions` | `Approve`, `Reject` | `Approvals`, `RowLocks` |
| Sweeper | `internal/approvals/sweep.go`, `cmd/worker/main.go` | the same | `SweepExpired` | `Approvals`, `RowLocks` |
| Cancellation | `internal/tasks/cancel.go` | `tasks`, `task_executions`, `agent_slots` | `Cancel` | `Cancellation`, `RowLocks` |
| Invoices | `internal/billing/service.go` | `invoices` | `Generate` | `Invoicing` |
| Journal | `internal/audit/audit.go` | `state_transitions` | `Transition` | variable `journal` |
| Reads | `internal/tasks/read.go`, `internal/approvals/service.go`, `internal/billing/read.go` | none | `List`, `Get`, `Subscription` | `ReadSide`, `TaskList`, `Admission` |
| HTTP, authentication, configuration, migrations, seed | the rest | none of their own | | handlers as the actions they call; else not modelled |

The parts meet in rows only. `Create` leaves a queued task. A worker goroutine polls every two seconds:
it first looks for an execution that runs but whose lease is over (`claimResumable`), then for a queued
task, on which it reserves a slot (`claimQueued`). It then goes through the calls. Before each one
`nextCall` renews the two-minute lease and may park the task in `awaiting_approval`, which keeps the
slot and lets the goroutine go. The last approval sets the execution running with its lease in the past,
so that any polling worker finds it; this is also how the tasks of dead workers are found. A rejection, by
a person or by the sweeper at a deadline, fails the task and frees the slot. `Cancel` may come at any time.

What is hard about it:

- *No lock while a tool runs.* The worker looks again only afterwards; the task may be cancelled, its slot
  be another's, or (after two minutes) its lease be another worker's.
- *Four ways to free a slot, six transactions that write a task and its execution*, in three packages.
- *Deciders race*: approvers, the sweeper, a cancellation.
- *A worker dies between two transactions*, and another repeats what is missing.
- *Statements of one transaction see different snapshots* (READ COMMITTED): budget and invoices.
- *What a client sees is put together from several queries*, and an approver acts upon it later.
- *Transactions lock rows in different orders*, some of them by foreign keys only.
- *Progress depends on leases, deadlines and polling alone*; parked tasks hold slots for hours.

What makes each part correct: a slot is held by one task and none leaks, within the plan's limit
(slots); a task and its execution agree, and an end is final (all); no gated call starts before its chain
has said yes, one decision wins (approvals); calls run in order, complete once and are charged exactly
once (worker loop); everything ends (worker loop, sweeper); one task per idempotency key, unfinished
estimates within the budget (creation); one invoice per month, the same for all who ask (invoices); nobody
starves in the queue; what a client is told of an end stays so, and an approver decides the step that he was
shown, or one of the same role (reads).

## The modules

`Tables` holds the shared variables, their types and initial values. `WorkerLoop`, `Approvals` and
`Cancellation` extend it with the actions of their packages; `AgentHub` composes these, states the
properties and the fairness. Two abstract specifications say what it promises: `SlotPool` of the slots,
`TaskLife` of the tasks. `RowLocks` takes the transactions of `AgentHub` apart into statements, and
implements it; `ReadSide` adds a client that looks at it and decides. `Admission`, `Invoicing` and `Queue`
look at one operation each more closely than a transaction, with variables of their own; `TaskList` extends
`Queue` with a client that turns the pages of the list. The `MC` modules give the constants values for
TLC, and `LockPlans` says what is known of the open transactions of `RowLocks` at each of their statements.
`AgentHubProofs` and `CallProofs` hold the proofs about the core, `LockProofs` those about statements and row locks,
`ReadSideProofs` those about what clients are shown, `QueueProofs`, `InvoicingProofs` and `AdmissionProofs` those about the closer looks, and
`SumProofs` the facts about sums over finite sets that the last two need.

### State (`Tables`)

| Variable | Code |
|---|---|
| `taskStatus` | `tasks.status`; `submitted` is never visible outside of `Create`, so tasks start queued |
| `execStatus`, `execSlot`, `callIndex`, `lease` | the row of `task_executions` of the task (`task_id` is unique); `none` is no row; the lease is live or expired |
| `slotStatus` | `agent_slots.status` |
| `callStatus` | `tool_calls.status`; a call has its task, index, risk and estimate as constants |
| `reqStatus`, `reqStep`, `overdue`, `decisions` | the row of `approval_requests` of the call (`tool_call_id` is unique), whether its deadline is over, and its `approval_decisions` in order |
| `usage` | how many `usage_records` the call has |
| `journal` | the last row of `state_transitions` about each task, execution and call |
| `pc`, `claimed`, `calling` | where a worker goroutine is, the task it took and the call it is in; this memory is not protected by anything |
| `crashes` | how many times a goroutine dropped its task |

Chains, limits, the threshold of automatic approval and all ids are constants. Chain steps are numbered
1, 2, ... as `cmd/seed` numbers them. The first worker process and the thousandth differ in nothing, so
`Worker` is the set of all goroutines of all processes.

### Actions

One action is one database transaction. What PostgreSQL's row locks do to make that so is the subject of
`RowLocks`. Between two transactions of a worker everything may happen.

| Action | Code |
|---|---|
| `ClaimResumable(w, t)` / `...Miss(w)` | `claimResumable` takes an expired lease / finds none |
| `ClaimQueued(w, t, s)` / `...Miss(w)` | `claimQueued` with `ReserveSlot` / it finds nothing or the reservation fails |
| `NextCallLeaves`, `NextCallPasses`, `NextCallRaise`, `NextCallRun` | `nextCall`: the task is no longer ours or waits; there is nothing left to run; a request is raised; the call is started |
| `RecordSuccess`, `RecordFailure`, `RecordAbandoned` | `recordCall` after the tool succeeded, failed, or when the task is no longer running |
| `Finish`, `FinishAbandoned` | `finish` |
| `Drop(w)` | the process dies or is told to stop, or a transaction fails and rolls back, anywhere after the claim |
| `LeaseExpires(t)` | two minutes without renewal |
| `ApproveStep`, `ApproveLast`, `Reject` | `decide` with the next step, `resumeFlow`, `rejectFlow` |
| `DeadlinePasses`, `SweepOne` | the step's timeout; `sweepOne`, which escalates or rejects |
| `Cancel(t)` | `Cancel` with `releaseExecution` |

A completed call that `nextCall` finds is stepped over; that case needs an index that lags behind, which no
transaction leaves, so it has no action of its own. `StepsFitLease` says whether a lease may run out while
its worker is still at work. The code does not prevent it: a tool or a transaction that takes more than two
minutes is enough. The seeded tools take three seconds at most, so both values are worth a run.

### The life of a task (`TaskLife`)

`status` and `seat` of each task, as a client may observe them: `Start` takes a slot that nobody sits on, `Park`
and `Resume` keep it, `Complete`, `Fail` and `Cancel` leave it; a step moves one task. `AgentHub` maps `seat` to the
slot of an execution that is running or parked (`SeatOf`). That no transaction moves two tasks, that a queued task
cannot fail nor a parked one complete, and that a slot passes from task to task only through an end is what the
refinement says beyond the invariants.

### Statements and row locks (`RowLocks`)

| Variable | Code |
|---|---|
| `txn[a]` | the transaction that a goroutine or an API request has open, with its local variables |
| `todo[a]` | its statements that are still to come: a row lock, a `where` on its status, the columns it writes |
| `held[a]` | its row locks: `for update`, `no key update` (an update), `key share` (a foreign key) |
| `draft[a]` | the columns it has written and not committed |

The variables of `Tables` are what is committed. `Statement` takes a lock that nobody holds in a conflicting mode, and
evaluates the `where` on what is committed at that moment, as PostgreSQL does again after it has waited; `Commit`
writes the draft; `Rollback` drops it, at any moment: an error, a dead process, or the deadlock detector's victim.
`PickQueued` and `SeatPicked` are `claimQueued`, `LookAtCall` with `PassCall`, `StartCall` or `RaiseCall` is
`nextCall`, `RecordOutcome` `recordCall`, `CloseTask` `finish`, `AskRequest` with `DecideAsked` or `RefuseAsked`
`decide`, `SweepAsked` `sweepOne`, `CancelTask` `Cancel`. Transactions that lock one row only are the actions of `AgentHub`,
taken when that row is free. A `decide` that waited while the request moved to another step finds nothing
(`StillAsked`): PostgreSQL joins the new row with the chain step of its old snapshot.

A transaction that waits for a row for ever is not modelled as such: it waits in the model until `Rollback`.

### Reads (`ReadSide`, `TaskList`, the view of `Admission`)

`view` is what one client is reading: the queries it has made so far with what each returned. `tasks.Service.Get` is
`GetTask`, `ReadOn` and, if the current call awaits approval, `ReadApproval`; `approvals.Service.Get` is `GetApproval` and
`ReadOn`; `approvals.Service.List` is `ListApprovals`. `Act` is an approver whose role fits the step on the screen and
who decides, however old the screen is. In the run, TLC
goes no further from an answer that does not show the end of its task (`ToldOfAnEnd`, a constraint of the instance): the
client would ask again, and the system does nothing that it would not do without him.
In `TaskList` `FirstPage` and `NextPage` are `tasks.Service.List` with the offset that follows from the rows so far. The
query orders by `created_at` alone, which is not unique, so that a page is any one that some order of equal rows gives (`Pages`);
tasks arrive in the order of their commits, which is not that of `created_at`. `SubscriptionFirst` and `SubscriptionSecond` of
`Admission` are the two sums of `billing.Service.Subscription`.

### The closer looks

`Admission` takes `Create` apart into its statements: the advisory lock on the key, the look-up, the lock
on the subscription, the sum of usage, the sum of estimates with the check, and the inserts with the commit.
Estimates are in tenths of a cent, the budget is checked with them, and the columns keep whole cents (`Stored`). They may
be negative, as nothing in `Create` or in the schema forbids it, and what is charged for such a call is negative as well.
Workers appear as `RecordCall` and `EndTask`, with the rounding of the actual cost to cents
(`round2(estimate * (0.9 + rand * 0.2))`). `month` is the calendar; the period of the subscription is a
constant, as no code changes it. `Invoicing` takes `Generate` apart into the sum and the insert; a usage
record is stamped when its transaction begins and visible when it commits. `Queue` takes `claimQueued`
apart into the select that locks a task and the reservation that may fail, while tasks arrive.

## The runs

| Run | Instance | Properties |
|---|---|---|
| `lifecycle` | 2 workers, 2 tasks (read + destructive; write), 2 slots, 1 crash, steps fit into leases; 285,540 states | `SlotsMatchExecutions`, `StatusesAgree`, `OneRunner`, `CallsInOrder`, `CompletedMeansAllDone`, `BilledIffCompleted`, `CompletedCallStays`, `ChangesAreJournalled` |
| `overrun` | `MCReadSide`: 2 workers, 1 task of 2 calls (write; destructive, here with a chain of approver, owner and approver), 1 crash, leases run out at any moment, 1 client that reads and decides; 519,140 states | `IInv`, `GateInv`, `ApprovalGate`, `ParkedOnOneRequest`, `BilledAtMostOnce`, `TaskEndIsFinal`, `WorkOnlyWhileRunning`, `DecisionIsFinal`, `LifeSpec`, `ShownEndIsFinal`, `ShownStepIsExplained`, `DecidedAsShown` |
| `ending` | 2 workers, 2 tasks that need approval, one slot of the right type for each and a plan that allows one, a slot of another organization; with fairness; 102,588 states | `PlanLimitHeld`, `PoolSpec`, `EveryTaskEnds`, `RequestsAreResolved` |
| `locks` | `MCRowLocks`: 2 workers, 2 requests or sweepers, 1 task with a destructive call, 1 crash, leases run out; 222,629 states | `OnlyCancelDeadlocks`, `LockInv`, `HubSpec` |
| `retries` | 6 requests of 2 organizations near the budget, 4 with one key, every refusal, estimates that round down and up, 1 reader of the subscription, 2 months; 701,660 states | `TypeOK`, `KeyMeansOneTask`, `RetryIsNeverRefused`, `EstimatesFitBudget`, `RefusedOnlyOverBudget`, `ShownIsNotTooLittle` |
| `race` | 3 generators, 2 calls, one of them with a negative cost, 2 months; 9,510 states | `TypeOK`, `GeneratorsAgree`, `InvoiceIsOfUsage`, `InvoiceStays` |
| `served` | 2 workers, 4 tasks that arrive in any order, 2 of them created at one time, 3 slots, 2 organizations, pages of 1; with fairness; 82,924 states | `PickedStaysQueued`, `PagesMissNothing`, `NobodyStarves` |

The runs that expect a violation are those of the next section.

Bounds, and why they are enough. Two goroutines are all that ever meet on one row: a third one would wait
or skip as the second does. Two requests and two workers are enough for every pair of transactions on one task, and for
cycles of waiting of up to four; one task has all the rows that two transactions share except the subscription and the
slots, and those are locked by `claimQueued` after a task that is queued, which nobody holds and waits for anything else.
Two tasks compete for a slot; the limit of the plan bites because each has a slot of its own. One task with a write and a
destructive call goes through every kind of approval, the chains of the seed through an escalation and a rejection at a
timeout; `lifecycle` adds a call that needs none, and `overrun` a chain in which one role has two steps, which the schema
allows. `MaxCrashes` = 1 lets a goroutine drop its task once at any point; a
crash of the worker that took over finds the same tables as the first one did. One reader suffices as readers write nothing,
and one page per task makes every shift of the list visible. No request of
`retries` has a negative estimate; run `credit` has one, and so have the theorems. `LastMonth` = 2 has a month end. `MaxCrashes` and
`LastMonth` are the only bounds in guards. Workers, clients and generators are symmetric and reduced as such where no
liveness is checked. All runs of `AgentHub`, `RowLocks` and `ReadSide` check deadlock: there is always a worker to poll, and
a transaction that waits can roll back. `Admission` and `Invoicing` may stop when all requests are answered, so their runs
do not.

With `StepsFitLease` false, `OneRunner`, `CallsInOrder`, `CompletedMeansAllDone`, `BilledIffCompleted` and
`CompletedCallStays` do not hold; what does hold then is what `overrun` checks. The
type invariant of `Tables` is checked there as a part of `IInv`.

`OnlyCancelDeadlocks` does not say that there are no deadlocks: `Cancel` locks the task and then the execution, the
others the execution and then the task (`recordCall` by the foreign key of `usage_records` alone), and PostgreSQL aborts
one of them. It says that there is no other cycle, so that locking the execution first in `Cancel` would leave none.

## What the code does otherwise than its documents

Each is a run that expects TLC to find the violation; `PROJECT.json` quotes the lines.

| Run, property | What happens |
|---|---|
| `stale_row`, `LastRowIsTaskStatus` | Cancel a parked task, then reject its request: the journal ends with `awaiting_approval -> failed`, the task is cancelled. |
| `retried`, `FailedCallIsNotRetried` | The worker dies between recording a failed call and failing the task: the call is run again. |
| `skipped`, `CompletedMeansAllDone` | A step outlives its lease: two workers record one call, the index moves by two, a call is skipped and the task is completed. |
| `two_reads`, `QueuedWithinBudget` | Usage and estimates are read in two snapshots; a task that is charged and ends in between counts in neither. |
| `credit`, `UnfinishedFitBudget` | A negative estimate, which `Create` accepts, makes room for another task and takes it away again when its own task ends (service.go:241, ADR.md:30). |

The three properties of the budget that hold speak of organizations none of whose tasks had a negative estimate
(`NoCredit`), and claim nothing of the others.

Five more were met while modelling and have no run of their own:

- Cancelling a parked task writes a journal row that says its execution was `running` (cancel.go:77, against README.md:124).
  `ChangesAreJournalled` does not take that for right: of an execution cancelled while parked (`CancelledParked`) it claims
  that there is a row to `cancelled`, not what former status the row names.
- Cancelling a parked task leaves its request open, in the approvers' inbox, until somebody decides or the sweeper rejects it
  (cancel.go:36, against TASK.md:142). `ParkedOnOneRequest` speaks of the requests of parked tasks only; the counterexample of
  `stale_row` goes through such a request, and `RequestsAreResolved` says that it is closed some day.
- A usage record stamped before the end of its month and committed after the sum of that month is never invoiced
  (billing/service.go:53): `InvoiceIsOfUsage` says that an invoice charges records of its month, not that it charges all.
- The period of a subscription is written by the seed and never moved on, so from the second month on the check of the
  budget still sums the usage of the first.
- `claimQueued` passes over tasks without a free slot so that they do not block other organizations (claim.go:68), but
  not over tasks whose organization is at its plan's limit: then the worker sleeps and does not try the next task.

## Fairness

`FairSpec` assumes of the code only what its loops do: each goroutine keeps going (`WF(WorkerMoves(w))`: tools
end, transactions commit, it polls), the sweeper's ticker handles each request whose deadline is over
(`WF(SweepOne(c))`; `SweepExpired` goes on until there is none), and time passes (`WF(LeaseExpires)`,
`WF(DeadlinePasses)`). Claims have strong fairness per task: a task that can be claimed again and again is
claimed some day. For executions that follows from `order by lease_expires_at`; for the queue it is what `Queue`
shows (`NobodyStarves`), provided that its organization owns a fitting slot and tasks end. Nothing is
assumed of people, who need not decide or cancel, nor of crashes, which are bounded. In `Queue` workers poll,
and a running task ends: that is `EveryTaskEnds` of `AgentHub`.

## The proofs

For all sets of organizations, tasks, calls, slots and workers, all chains and limits, and any `MaxCrashes`:

| Theorem | States | Module |
|---|---|---|
| `TypeCorrect` | `Spec => []TypeOK` | `AgentHubProofs` |
| `SlotsAreSafe` | `Spec => []SlotsMatchExecutions` | |
| `PlanLimitIsSafe` | `Spec => []PlanLimitHeld` | |
| `StatusesAlwaysAgree` | `Spec => []StatusesAgree` | |
| `EndsAreFinal` | `Spec => TaskEndIsFinal` | |
| `ImplementsPool` | `Spec => PoolSpec` | |
| `ImplementsTaskLife` | `Spec => LifeSpec` | |
| `GateInvHolds` | `Spec => []GateInv` | `CallProofs` |
| `GateIsSafe` | `Spec => []ApprovalGate` | |
| `ParkedTasksAwaitOne` | `Spec => []ParkedOnOneRequest` | |
| `DecisionsAreFinal` | `Spec => DecisionIsFinal` | |
| `NothingIsBilledTwice` | `Spec => []BilledAtMostOnce` | |
| `WorkNeedsARunningTask` | `Spec => WorkOnlyWhileRunning` | |
| `OneGoroutinePerTask` | `StepsFitLease => (Spec => []OneRunner)` | |
| `CallsRunInOrder` | the same for `CallsInOrder` | |
| `CompletedTasksAreDone` | the same for `CompletedMeansAllDone` | |
| `BillingIsExact` | the same for `BilledIffCompleted` | |
| `CompletedCallsStay` | the same for `CompletedCallStays` | |
| `JournalTellsChanges` | the same for `ChangesAreJournalled`, which leaves open the former status of an execution cancelled while parked | |
| `PlansHold` | `LockSpec => []LockInv` | `LockProofs` |
| `ImplementsHub` | `LockSpec => HubSpec`: what `Spec` implies holds statement by statement too | |
| `DeadlocksNeedCancel` | `LockSpec => []OnlyCancelDeadlocks`, for cycles of any length | |
| `ReadersDisturbNothing` | `ReadSpec => Spec`: all of the above holds with clients that look | `ReadSideProofs` |
| `EndsAreShownOnce` | `ReadSpec => []ShownEndIsFinal`, cancelled tasks included: there a waiting call may still be rejected | |
| `ShownStepsAreExplained` | `ReadSpec => []ShownStepIsExplained` | |
| `DecisionsCountAsShown` | `ReadSpec => DecidedAsShown`, for any chain: the step shown, or a later one of the same role | |
| `PickedTasksStayQueued` | `Spec => []PickedStaysQueued`, also for `ListSpec` | `QueueProofs` |
| `NoTaskIsSkipped` | `ListSpec => []PagesMissNothing`: no task whose `created_at` is its own | |
| `InvoicingTyped` | `Spec => []TypeOK` | `InvoicingProofs` |
| `RequestsAgree` | `Spec => []GeneratorsAgree` | |
| `InvoicesStay` | `Spec => InvoiceStays` | |
| `InvoicesAreOfUsage` | `Spec => []InvoiceIsOfUsage`, for costs of either sign | |
| `AdmissionTyped` | `Spec => []TypeOK` | `AdmissionProofs` |
| `KeysMeanOneTask` | `Spec => []KeyMeansOneTask` | |
| `RetriesAreNotRefused` | `Spec => []RetryIsNeverRefused` | |
| `CommitmentsFitBudget` | `Spec => []EstimatesFitBudget`: where no task has a negative estimate | |
| `RefusalsAreJust` | `Spec => []RefusedOnlyOverBudget`: the same | |
| `NothingIsCountedTwice` | `Spec => []ShownIsNotTooLittle`: the same | |

Assumptions: the constants have the types of their columns (`ColumnTypes`), nulls are no ids (`NullValues`),
there are finitely many slots (`SlotsFinite`), the calls of a task are numbered without gaps
(`CallsNumbered`), API requests and sweepers are not worker goroutines (`ClientsAreNoWorkers`), and those of
`WorkerConstants`. The theorems of the second part of `CallProofs` assume that steps fit into leases, the others do not; run `skipped` shows that `CompletedMeansAllDone` fails without.

*Slots and statuses.* None of the safety properties is inductive alone. That a slot is busy exactly when an
unfinished execution sits on it survives `finish` only because the task that a worker *remembers* exists
(`WorkersKnow`), because an unfinished execution has a slot at all (`ActiveHaveSlots`), and because a queued task
has no execution (`StatusesAgree`). `IInv` is their conjunction. The proof that a step preserves it is not made
action by action for every conjunct: the lemma `EveryStepHasAnEffect` first sorts the twenty actions into five
effects on tasks, executions and slots (nothing; a task takes a free slot; a task is parked or resumed; a
task ends and frees its slot; a queued task is cancelled), and `StatusesStep`, `SlotsStep` and `PlanLimitStep`
treat the five. `PlanLimitStep` needs the cardinality of finite sets, hence `SlotsFinite`. For `ImplementsPool`
the mapping sends a slot to the task whose unfinished execution is on it (`HolderOf`), which `HolderIsKnown` shows
to be unique in `IInv`; each effect then is a `Reserve`, a `Release` or a stutter of the pool. `ImplementsTaskLife` goes
through the same five effects: a start needs `SlotsMatchExecutions` to know that nobody sits on a free slot.

*The approval gate.* That no gated call starts early follows from what a request, its call, its task and the goroutines
know of each other: `GateInv` says that a pending call has no request yet (`CallAwaitsRequest`), that the decisions of
a request are a walk along its chain up to the step it stands at (`ChainIsWalked`), that a task with a pending request is
parked at its call or cancelled (`TaskAwaitsRequest`), and that whoever is in a tool was let in. `EveryStepHasAGateEffect`
sorts the actions into six effects on calls and requests (`Idles`, `Runs`, `Raises`, `Advances`, `Approves`, `Rejects`),
and a lemma for each shows that it keeps `GateInv`. Nothing in it mentions leases: two goroutines on one task may do
the same thing twice, but not what nobody has approved.

*Leases.* Under `StepsFitLease` the lease of a claimed task is live (`LeaseHeld`), so that `claimResumable` passes it over
and nobody is parked under a goroutine (`HeldStep`). The index of an execution then moves only together with the call
that stands at it: `CallStandsInOrder` says that exactly the calls before the index are completed and charged, and those
behind it are pending. `EveryStepIsOrderly` sorts the steps into those that change calls at the index only
(`AtIndex`) and the claim and the recording, which move it. All this is `OrderInv`, on top of `IInv` and `GateInv`.

*The journal.* Whether the row that a transaction writes tells the change it makes is shown action by action. Two rows have
a constant as their old status and need the invariant: `recordCall` writes `executing -> ...` and reads no status before
(`ToolsExecute`: whoever is in a tool finds its call still executing, for which leases must hold), and `rejectFlow` writes
`awaiting_approval -> rejected` of the call (`GateInv`).

*Row locks.* That a handler's transaction is one step of `AgentHub` is a claim about what it has read under locks. A
draft is a set of columns, and `Sets` says of it that it changes a table in one row (`Silent`: in none), so that what a
handler has written at each of its statements can be computed (`Setting`, `Silence`). `LockInv` says of every open
transaction which statements of its handler it has done, with which locks and which draft, and of which committed rows it
knows what (`Planned`: one definition per handler, such as `Recording` or `Rejecting`), and that no two transactions
hold conflicting locks (`Exclusive`). It is inductive for two reasons. A transaction that goes on moves along its plan
(`StatementMoves`), and its new lock was free (`StaysExclusive`). And whatever else commits meanwhile spares what a
transaction goes by, because it would need the lock on that very row (`PlansStay`): this is where the `for update` on the
execution, on the task and on the request are needed, each for another handler. At the end of its plan a
transaction has the draft that its action of `AgentHub` would write (`CommitEnds`; `EveryStepRefines` adds the short
transactions and the rollbacks), so `Spec` holds of the committed rows, and `IInv` and `GateInv` with it, which the plans in
turn rely on. One plan needs `BilledAtMostOnce`: the draft of `recordCall` sets usage to one record, where
`on conflict do nothing` keeps the one there is.

*Deadlocks.* A transaction `Owns` a task if it holds its running execution, or the pending request for which it is parked; it
`Commands` the rows it then locks: the task, the execution, the slot and the calls. No two own one task (`OneOwner`), and so
no two command one row (`OneCommands`). A transaction with statements to come, if it is no cancellation, holds only rows that it
commands, queued tasks or its request (`RowKnown`), and its next statement needs a row that it commands, the subscription or,
in a `decide` that has just begun, the request (`RowNeeded`). So whoever blocks it is about to commit, unless a `decide`
waits for its request; that one holds nothing yet, so nobody waits for it (`WaitsAreShort`). The argument counts
no transactions: it covers cycles of every length, and tasks that share an organization.

*Reads.* A client writes nothing but decisions that any approver may take, so `ReadSpec` implements `Spec` and inherits
all that is proved of it. `ViewInv` then relates a screen that was put together from several queries to the rows as they are
now: a status that was an end still is one, the calls of a task that ended are as they were shown, but for those of a cancelled task whose
request was still open (`EndedCallsStay`), a step that is shown as awaited was walked up to, and may since have been left in
one direction only. That the tables move so is what `EndsAreFinal`, `GateInv` and `DecisionsAreFinal` give.

*The closer looks* rest on the assumptions their own modules name (`QueueConstants`, `InvoicingConstants`,
`AdmissionConstants`, `ErrorsAreNoTasks`). In `Queue`, a worker knows a task exactly between its selection and its
claim (`PickInv`), and the row lock keeps the others away from it. In `Invoicing`, the unique index (`OnePerMonth`) and the
answers being rows of it (`AnswersAreRows`) are inductive together. That an invoice is the sum of calls recorded in its month
(`UsageInv`) takes that a committed record stays as it is and its month does not change, so that a sum of the past is
a sum over a subset of what there is now. Costs may be negative; that an invoice stays below the usage would be false then. In
`Admission` the argument is the advisory lock: one transaction per key at a time (`OneHolder`), so that what it has not
found under its key cannot appear before it commits (`NothingFound`); rows of keys are tasks and answers are
rows (`RowsAreTasks`, and `AnswersAreRows` of that module). The error of the unique index
in `Create` (`key_conflict`) is thereby shown to be unreachable.

*The budget.* `EstimatesFitBudget` alone is not inductive: a transaction of `Create` compares sums that it read statements
ago. `BudgetInv` says that the lock on the subscription lets one transaction per organization between its first sum and
its commit (`Locked`), so that meanwhile estimates can only leave and usage can only grow, and that what fitted when
it was checked still fits (`Fits`), with the rounding of the columns in between. All of it supposes that no task of the
organization has a negative estimate (`NoCredit`), which is preserved backwards: tasks are never deleted, so if none has one now, none
had one before. Run `credit` shows what happens otherwise. The two sums of
`billing.Service.Subscription` are not protected by anything; as usage is read first and never taken back (`ViewFits`), a task
that ends in between may be left out but is not counted twice.

*Pages.* `PagesMissNothing` relates a client's rows to a list that shifts under its offset. `PageInv` says that a task
which was there at the start, shares its `created_at` with no other (`Alone`) and is not shown yet has as many newer ones as the
offset counts, or more. Arrivals, wherever they are put, only push tasks down (`RowsGrow`). Such a task is among the first *n*
rows, in any order the query may choose, exactly when fewer than *n* are newer (`FirstRowsAreNewest`); so it is on the page or behind
it, and a page that comes back empty means that nothing of the kind stands behind it (`PageRows`). Of tasks created at one time the
theorem says nothing: each query may order them anew, and with pages that end between them one may be shown twice and another not
at all.

*Sums.* The sums are the library's folds over finite sets, whose result is defined by a recursive function that chooses an
order of the set. `SumProofs` shows that it is the sum whatever order is chosen: `AddsUp` says of a function on the
subsets of a set that it adds up elements one by one, `SolutionsCompare` and `SolutionIsSum` that there is one such function
and the fold is it. The installed provers cannot use the library's rules of induction, which take an operator as parameter, so
`InheritedByAll` derives induction over finite sets from the least number of elements of a counterexample.

Only model-checked: liveness and everything under fairness (`NobodyStarves`, `EveryTaskEnds`,
`RequestsAreResolved`; the prover has no rules for `ENABLED`). No module declares a `RECURSIVE` operator.

## What is not modelled

- Subscriptions that end and organizations without one, in the worker loop: no code ends a subscription.
- Who acted (`actor_type`, `actor_id`), comments, results, failure reasons, notifications, timestamps. The decisions of a
  request are shown in the order of `created_at`, when their transactions began; the model keeps the order of commits.
- The advisory lock, the subscription's lock of `Create` and the worker's on the same row are not in one module: `Create`
  locks no row that a task's transactions wait for but the subscription, and holds it without waiting for another one.
- `idempotency_keys` never expire in the code either. Collisions of `hashtext` only make requests wait.
- The error of sums of `float64`.
- `ListInvoices` and `GetInvoice`: single queries on rows that never change.
- Authentication (passwords, tokens; what a token says is up to fifteen minutes old), roles on routes, configuration,
  the connection pool, shutdown beyond `Drop`, migrations and the seed: no state of the system is theirs.

## The plan

Done, in this order: the core (`Tables`, `WorkerLoop`, `Approvals`, `Cancellation`, `AgentHub`) with its safety and
liveness runs; `SlotPool` and the refinement; the proofs of slots, limit, statuses and pool; the closer looks
`Admission`, `Queue`, `Invoicing`; `TaskLife` and its refinement; `RowLocks`; the reads; the proofs of the
approval gate and of what leases give; the proofs about keys, invoices and the lock of the queue; the proofs about
the journal, the reads and the list; those about sums, the budget and invoices; those about row locks and deadlocks.

Next, by weight:

1. `Create` in `RowLocks`: its insert refers to rows that no transaction of a task updates, and its lock on the
   subscription row would meet that of `claimQueued`.
2. A subscription that ends while tasks are queued, if the code gets a way to end one.
3. A run of `RowLocks` with two tasks of one organization, which the theorems cover and TLC has not seen.
