------------------------------ MODULE RowLocks ------------------------------
(***************************************************************************)
(* The transactions of AgentHub taken apart into their statements.  The    *)
(* variables of Tables are what is committed; a transaction keeps the row  *)
(* locks it has taken and the columns it has written until it commits or   *)
(* rolls back.  A statement whose row is locked by another transaction     *)
(* waits, and evaluates its where clause again on what is committed when   *)
(* it gets the row; one with skip locked passes the row over.              *)
(* Transactions that lock one row only are the actions of AgentHub, taken  *)
(* when that row is free.                                                  *)
(***************************************************************************)
EXTENDS AgentHub

CONSTANT Client       \* API requests in progress and sweepers, all processes

ASSUME ClientsAreNoWorkers == Client \cap Worker = {}

Actor == Worker \cup Client

VARIABLES
  txn,                \* the transaction that each actor has open
  todo,               \* its statements that are still to come
  held,               \* its row locks
  draft               \* the columns it has written, not yet committed

lockVars == <<txn, todo, held, draft>>

NoTxn == [kind |-> "none"]
Idle(a) == txn[a] = NoTxn

(* Columns of rows with their new values; in f ++ g those of f count.      *)
Put(column, key, value) == [k \in {<<column, key>>} |-> value]
f ++ g == [k \in DOMAIN f \cup DOMAIN g |-> IF k \in DOMAIN f THEN f[k] ELSE g[k]]
Nothing == [k \in {} |-> k]

-----------------------------------------------------------------------------
(* PostgreSQL: row locks, statements, commit and rollback                  *)

ForUpdate(table, id) == [row |-> <<table, id>>, mode |-> "update"]
Updated(table, id) == [row |-> <<table, id>>, mode |-> "no key update"]
Referenced(table, id) == [row |-> <<table, id>>, mode |-> "key share"]

Conflict(m, n) == "update" \in {m, n} \/ "key share" \notin {m, n}

Blockers(a, lock) ==
  {b \in Actor \ {a} :
     \E h \in held[b] : h.row = lock.row /\ Conflict(h.mode, lock.mode)}

Free(a, lock) == Blockers(a, lock) = {}

(* A statement locks a row and writes columns, if the status of the row    *)
(* fits its where clause; if not, as many of the following ones are        *)
(* skipped as belong to it.                                                *)
Always(lock, columns) == [lock |-> lock, where |-> {}, columns |-> columns, skip |-> 0]
If(status, lock, columns, skip) ==
  [lock |-> lock, where |-> status, columns |-> columns, skip |-> skip]

Matches(s) ==
  \/ s.where = {}
  \/ s.lock.row[1] = "task" /\ taskStatus[s.lock.row[2]] \in s.where
  \/ s.lock.row[1] = "execution" /\ execStatus[s.lock.row[2]] \in s.where

(* The transaction begins, and takes the locks of its first statement.     *)
Open(a, x, locks, plan, columns) ==
  /\ Idle(a)
  /\ \A lock \in locks : Free(a, lock)
  /\ txn' = [txn EXCEPT ![a] = x]
  /\ held' = [held EXCEPT ![a] = locks]
  /\ todo' = [todo EXCEPT ![a] = plan]
  /\ draft' = [draft EXCEPT ![a] = columns]
  /\ UNCHANGED vars

(* It goes on, with a lock more, when the row it read decides how.         *)
GoOn(a, x, locks, plan, columns) ==
  /\ \A lock \in locks : Free(a, lock)
  /\ txn' = [txn EXCEPT ![a] = x]
  /\ held' = [held EXCEPT ![a] = @ \cup locks]
  /\ todo' = [todo EXCEPT ![a] = plan]
  /\ draft' = [draft EXCEPT ![a] = columns ++ @]
  /\ UNCHANGED vars

Close(a) ==
  /\ txn' = [txn EXCEPT ![a] = NoTxn]
  /\ todo' = [todo EXCEPT ![a] = << >>]
  /\ draft' = [draft EXCEPT ![a] = Nothing]
  /\ held' = [held EXCEPT ![a] = {}]

(* A decide that waits for its request, a nextCall that has not looked at  *)
(* the call and a claim without a slot have not settled what they do.      *)
Settled(a) == txn[a].kind \in {"write", "cancel"}

Statement(a) ==
  /\ todo[a] # << >>
  /\ txn[a].kind \notin {"decide", "claim"}
  /\ LET s == Head(todo[a]) IN
       IF Matches(s)
       THEN GoOn(a, txn[a], {s.lock}, Tail(todo[a]), s.columns)
       ELSE /\ todo' = [todo EXCEPT ![a] = SubSeq(@, 2 + s.skip, Len(@))]
            /\ UNCHANGED <<txn, held, draft, vars>>

(* The table as the transaction of a leaves it. *)
Written(a, column, old) ==
  [k \in DOMAIN old |->
     IF <<column, k>> \in DOMAIN draft[a] THEN draft[a][<<column, k>>] ELSE old[k]]

Commit(a) ==
  /\ Settled(a)
  /\ todo[a] = << >>
  /\ taskStatus' = Written(a, "task", taskStatus)
  /\ execStatus' = Written(a, "execution", execStatus)
  /\ execSlot' = Written(a, "slot_id", execSlot)
  /\ callIndex' = Written(a, "current_call_index", callIndex)
  /\ lease' = Written(a, "lease", lease)
  /\ slotStatus' = Written(a, "slot", slotStatus)
  /\ callStatus' = Written(a, "call", callStatus)
  /\ reqStatus' = Written(a, "request", reqStatus)
  /\ reqStep' = Written(a, "current_step_order", reqStep)
  /\ decisions' = [c \in Call |-> decisions[c] \o
                     Written(a, "decisions", [d \in Call |-> << >>])[c]]
  /\ usage' = Written(a, "usage", usage)
  /\ journal' = Written(a, "journal", journal)
  /\ pc' = Written(a, "pc", pc)
  /\ claimed' = Written(a, "claimed", claimed)
  /\ calling' = Written(a, "calling", calling)
  /\ Close(a)
  /\ UNCHANGED <<overdue, crashes>>

-----------------------------------------------------------------------------
(* What the goroutine goes on with once the transaction has committed.     *)

Goes(w, step) == Put("pc", w, step)
Gives(w) == Goes(w, "resumable") ++ Put("claimed", w, NoTask) ++ Put("calling", w, NoCall)

Logs(entity, id, from, to) == Put("journal", <<entity, id>>, Row(from, to))

UpdateCall(c, from, to) ==
  Always(Updated("call", c), Put("call", c, to) ++ Logs("tool_call", c, from, to))

UpdateTask(t, from, to) ==
  Always(Updated("task", t), Put("task", t, to) ++ Logs("task", t, from, to))

ReleaseSlot(s) == Always(Updated("slot", s), Put("slot", s, "available"))

-----------------------------------------------------------------------------
(* Workers                                                                 *)

(* Mutant: select without for update. *)
LockExecutionNot(t) == {}

LockExecution(t) == {ForUpdate("execution", t)}

ExecutionFree(w, t) == \A lock \in LockExecution(t) : Free(w, lock)

(* claimQueued picks a task that has a free slot and is not locked, ...    *)
PickQueued(w, t) ==
  /\ pc[w] = "queue"
  /\ taskStatus[t] = "queued"
  /\ \E s \in Slot : Suits(s, t)
  /\ Open(w, [kind |-> "claim", task |-> t], {ForUpdate("task", t)},
          <<Always(ForUpdate("subscription", TaskOrg[t]), Nothing)>>, Nothing)

(* ... and when it has the subscription, a slot that is not locked.  With  *)
(* none, or at the plan's limit, it rolls back and the task stays queued.  *)
SeatColumns(w, t, s) ==
  Put("slot", s, "busy") ++ Put("slot_id", t, s)
    ++ Put("execution", t, "running") ++ Put("task", t, "running")
    ++ Put("lease", t, "live") ++ Put("current_call_index", t, 0)
    ++ Logs("task", t, "queued", "running")
    ++ Logs("execution", t, "none", "running")
    ++ Goes(w, "step") ++ Put("claimed", w, t)

SeatPicked(w, s) ==
  LET t == txn[w].task IN
    /\ txn[w].kind = "claim"
    /\ UnderLimit(TaskOrg[t])
    /\ Suits(s, t)
    /\ GoOn(w, [kind |-> "write"],
            {ForUpdate("subscription", TaskOrg[t]), ForUpdate("slot", s)}, << >>,
            SeatColumns(w, t, s))

(* nextCall, while the execution runs: the lease first, ...                *)
RenewLease(t) == Always(Updated("execution", t), Put("lease", t, "live"))

LookAtCall(w) ==
  LET t == claimed[w] IN
    /\ pc[w] = "step"
    /\ StillRunning(t)
    /\ Open(w, [kind |-> "look", task |-> t, index |-> callIndex[t]],
            LockExecution(t), <<RenewLease(t)>>, Nothing)

(* ... then the call at the index and its request, ...                     *)
CallsAt(t, i) == {c \in Call : TaskOf[c] = t /\ OrderIndex[c] = i}

(* ... there is none, or it is done, or its request is not approved, ...   *)
PassColumns(w, t, i) ==
  IF CallsAt(t, i) = {} THEN Goes(w, "finish_completed")
  ELSE IF \A c \in CallsAt(t, i) : Verdict(c) = "skip"
  THEN Put("current_call_index", t, i + 1)
  ELSE Gives(w)

PassCall(w) ==
  LET x == txn[w] IN
    /\ x.kind = "look" /\ todo[w] = << >>
    /\ \A c \in CallsAt(x.task, x.index) : Verdict(c) \in {"skip", "stop"}
    /\ GoOn(w, [kind |-> "write"], {}, << >>, PassColumns(w, x.task, x.index))

(* ... it is started, ...                                                  *)
StartColumns(w, c) == Goes(w, "tool") ++ Put("calling", w, c)

StartCall(w) ==
  LET x == txn[w] IN
    /\ x.kind = "look" /\ todo[w] = << >>
    /\ \E c \in CallsAt(x.task, x.index) :
         /\ Verdict(c) = "run"
         /\ GoOn(w, [kind |-> "write"], {},
                 <<UpdateCall(c, callStatus[c], "executing")>>,
                 StartColumns(w, c))

(* ... or raiseApproval inserts its request.                               *)
RaiseColumns(w, t, c) ==
  Put("request", c, "pending") ++ Put("current_step_order", c, 1)
    ++ Put("execution", t, "awaiting_approval")
    ++ Logs("execution", t, "running", "awaiting_approval") ++ Gives(w)

RaiseCall(w) ==
  LET x == txn[w]
      t == x.task IN
    /\ x.kind = "look" /\ todo[w] = << >>
    /\ \E c \in CallsAt(t, x.index) :
         /\ Verdict(c) = "raise"
         /\ GoOn(w, [kind |-> "write"], {},
                 <<UpdateCall(c, callStatus[c], "awaiting_approval"),
                   UpdateTask(t, "running", "awaiting_approval")>>,
                 RaiseColumns(w, t, c))

(* recordCall.  The usage record refers to its task by a foreign key.      *)
AddUsage(t, c) == Always(Referenced("task", t), Put("usage", c, 1))
MoveIndex(t, i) == Always(Updated("execution", t), Put("current_call_index", t, i))

RecordPlan(t, c, outcome) ==
  IF outcome = "completed"
  THEN <<UpdateCall(c, "executing", outcome), AddUsage(t, c), MoveIndex(t, callIndex[t] + 1)>>
  ELSE <<UpdateCall(c, "executing", outcome)>>

RecordColumns(w, outcome) ==
  Goes(w, IF outcome = "completed" THEN "step" ELSE "finish_failed")
    ++ Put("calling", w, NoCall)

RecordOutcome(w, outcome) ==
  LET t == claimed[w] IN
    /\ pc[w] = "tool"
    /\ StillRunning(t)
    /\ Open(w, [kind |-> "write"], LockExecution(t),
            RecordPlan(t, calling[w], outcome), RecordColumns(w, outcome))

(* finish, when the update of the execution found it running.              *)
CloseColumns(w, t) ==
  Put("execution", t, Outcome(w))
    ++ Logs("execution", t, "running", Outcome(w)) ++ Gives(w)

CloseTask(w) ==
  LET t == claimed[w] IN
    /\ Finishing(w)
    /\ StillRunning(t)
    /\ Open(w, [kind |-> "write"], {Updated("execution", t)},
            <<ReleaseSlot(execSlot[t]), UpdateTask(t, "running", Outcome(w))>>,
            CloseColumns(w, t))

(* The worker's transactions that lock the execution and no other row.     *)
ShortOfWorker(w) ==
  /\ Idle(w)
  /\ \/ \E t \in Task : Free(w, ForUpdate("execution", t)) /\ ClaimResumable(w, t)
     \/ ClaimResumableMiss(w) \/ ClaimQueuedMiss(w)
     \/ /\ pc[w] \in {"step", "tool"}
        /\ ExecutionFree(w, claimed[w])
        /\ ~StillRunning(claimed[w])
        /\ NextCallLeaves(w) \/ RecordAbandoned(w)
     \/ FinishAbandoned(w)
  /\ UNCHANGED lockVars

-----------------------------------------------------------------------------
(* Approvers and the sweeper                                               *)

(* decide waits for the request with the chain step of its snapshot in     *)
(* hand.  Requests that are not pending then are refused in any case.      *)
AskRequest(k, c, role, approve) ==
  /\ reqStatus[c] = "pending"
  /\ Open(k, [kind |-> "decide", call |-> c, step |-> reqStep[c], role |-> role,
              approve |-> approve],
          {}, <<Always(ForUpdate("request", c), Nothing)>>, Nothing)

Decided(c, role, decision) ==
  Put("decisions", c, <<[step |-> reqStep[c], role |-> role, decision |-> decision]>>)

(* resumeFlow *)
ResumeExecution(t) ==
  If({"awaiting_approval"}, Updated("execution", t),
     Put("execution", t, "running") ++ Put("lease", t, "expired")
       ++ Logs("execution", t, "awaiting_approval", "running"), 1)

ResumeTask(t) ==
  If({"awaiting_approval"}, Updated("task", t),
     Put("task", t, "running") ++ Logs("task", t, "awaiting_approval", "running"), 0)

Resumption(t) == <<ResumeExecution(t), ResumeTask(t)>>

(* rejectFlow, whose row about the task is written whatever it finds.      *)
FailExecution(t) ==
  If({"awaiting_approval"}, ForUpdate("execution", t),
     Put("execution", t, "failed")
       ++ Logs("execution", t, "awaiting_approval", "failed"), 1)

FailTask(t) ==
  If({"awaiting_approval"}, Updated("task", t), Put("task", t, "failed"), 0)

Rejection(c, t) ==
  <<UpdateCall(c, "awaiting_approval", "rejected"), FailExecution(t),
    ReleaseSlot(execSlot[t]), FailTask(t)>>

ApprovalColumns(c, role) == Put("request", c, "approved") ++ Decided(c, role, "approved")

RejectionColumns(c, role, decision) ==
  Put("request", c, "rejected") ++ Logs("task", TaskOf[c], "awaiting_approval", "failed")
    ++ Decided(c, role, decision)

(* A request that moved to another step while decide waited for it is not  *)
(* found: the join with the chain still has the step of the snapshot.      *)
StillAsked(k) == LET x == txn[k] IN x.step = reqStep[x.call] /\ MayDecide(x.call, x.role)

DecideAsked(k) ==
  LET x == txn[k]
      c == x.call IN
    /\ x.kind = "decide"
    /\ StillAsked(k)
    /\ \/ /\ ~x.approve
          /\ GoOn(k, [kind |-> "write"], {ForUpdate("request", c)},
                  Rejection(c, TaskOf[c]), RejectionColumns(c, x.role, "rejected"))
       \/ /\ x.approve /\ ~HasNext(c)
          /\ GoOn(k, [kind |-> "write"], {ForUpdate("request", c)},
                  Resumption(TaskOf[c]), ApprovalColumns(c, x.role))
       \/ /\ x.approve
          /\ Free(k, ForUpdate("request", c))
          /\ ApproveStep(c, x.role)
          /\ Close(k)

(* ErrNotFound, ErrNotActionable, ErrWrongRole *)
RefuseAsked(k) ==
  /\ txn[k].kind = "decide"
  /\ Free(k, ForUpdate("request", txn[k].call))
  /\ ~StillAsked(k)
  /\ Close(k)
  /\ UNCHANGED vars

(* sweepOne passes over requests that are locked. *)
SweepAsked(k, c) ==
  /\ Expired(c)
  /\ \/ /\ ~Escalates(c)
        /\ Open(k, [kind |-> "write"], {ForUpdate("request", c)},
                Rejection(c, TaskOf[c]), RejectionColumns(c, "system", "timeout_rejected"))
     \/ /\ Idle(k)
        /\ Free(k, ForUpdate("request", c))
        /\ SweepEscalate(c)
        /\ UNCHANGED lockVars

(* Cancel locks the task first; a terminal one it only looks at. *)
CancelExecution(t) ==
  If({"running", "awaiting_approval"}, ForUpdate("execution", t),
     Put("execution", t, "cancelled")
       ++ Logs("execution", t, "running", "cancelled"), 1)

CancelTask(k, t) ==
  /\ ~IsTerminal(taskStatus[t])
  /\ Open(k, [kind |-> "cancel"], {ForUpdate("task", t)},
          <<CancelExecution(t), ReleaseSlot(execSlot[t]),
            UpdateTask(t, taskStatus[t], "cancelled")>>, Nothing)

-----------------------------------------------------------------------------
(* Failures and deadlocks                                                  *)

(* An error, the end of the process or of the request, or PostgreSQL's     *)
(* deadlock detector: nothing is written, a worker gives its task up.      *)
Rollback(a) ==
  /\ ~Idle(a)
  /\ IF a \in Client THEN UNCHANGED workerVars
     ELSE IF claimed[a] = NoTask
     THEN GoTo(a, "resumable") /\ UNCHANGED <<claimed, calling, crashes>>
     ELSE /\ crashes < MaxCrashes
          /\ crashes' = crashes + 1
          /\ GoTo(a, "resumable")
          /\ claimed' = [claimed EXCEPT ![a] = NoTask]
          /\ calling' = [calling EXCEPT ![a] = NoCall]
  /\ Close(a)
  /\ UNCHANGED <<taskStatus, execVars, slotStatus, callStatus, reqVars, usage, journal>>

(* a waits for a lock that b holds. *)
WaitsFor(a, b) ==
  /\ todo[a] # << >>
  /\ Matches(Head(todo[a]))
  /\ b \in Blockers(a, Head(todo[a]).lock)

Deadlocked(D) == D # {} /\ \A a \in D : \E b \in D : WaitsFor(a, b)

-----------------------------------------------------------------------------
WorkerStatement(w) ==
  \/ \E t \in Task : PickQueued(w, t)
  \/ \E s \in Slot : SeatPicked(w, s)
  \/ LookAtCall(w) \/ PassCall(w) \/ StartCall(w) \/ RaiseCall(w)
  \/ \E outcome \in {"completed", "failed"} : RecordOutcome(w, outcome)
  \/ CloseTask(w)
  \/ ShortOfWorker(w)

ClientStatement(k) ==
  \/ \E c \in Call, role \in Role, approve \in BOOLEAN : AskRequest(k, c, role, approve)
  \/ DecideAsked(k) \/ RefuseAsked(k)
  \/ \E c \in Call : SweepAsked(k, c)
  \/ \E t \in Task : CancelTask(k, t)

LockNext ==
  \/ \E w \in Worker :
       \/ WorkerStatement(w)
       \/ Idle(w) /\ Drop(w) /\ UNCHANGED lockVars
  \/ \E k \in Client : ClientStatement(k)
  \/ \E a \in Actor : Statement(a) \/ Commit(a) \/ Rollback(a)
  \/ \E t \in Task : LeaseExpires(t) /\ UNCHANGED lockVars
  \/ \E c \in Call : DeadlinePasses(c) /\ UNCHANGED lockVars

LockInit ==
  /\ Init
  /\ txn = [a \in Actor |-> NoTxn]
  /\ todo = [a \in Actor |-> << >>]
  /\ held = [a \in Actor |-> {}]
  /\ draft = [a \in Actor |-> Nothing]

LockSpec == LockInit /\ [][LockNext]_<<vars, lockVars>>

-----------------------------------------------------------------------------
(* The row locks make the transactions atomic: what is committed moves as  *)
(* the transactions of AgentHub do, each in one step.                      *)
HubSpec == Spec

(* Every deadlock has a cancellation in it: worker, approval and sweeper   *)
(* transactions alone always take their locks in an order that cannot     *)
(* close a cycle.                                                          *)
OnlyCancelDeadlocks ==
  \A D \in SUBSET Actor : Deadlocked(D) => \E a \in D : txn[a].kind = "cancel"
=============================================================================
