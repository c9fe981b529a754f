------------------------------ MODULE LockPlans -----------------------------
(***************************************************************************)
(* What is known of the open transactions of RowLocks: which statements of *)
(* its handler each has done, and what of the committed rows it goes by    *)
(* and no other transaction changes meanwhile.                             *)
(***************************************************************************)
EXTENDS RowLocks

(* Which transaction a has open, what of it is done, and what it goes by.  *)
Working(a, locks, plan, columns) ==
  held[a] = locks /\ todo[a] = plan /\ draft[a] = columns

Writing(a) == txn[a] = [kind |-> "write"]

Resting(a) == Idle(a) /\ Working(a, {}, << >>, Nothing)

LockSubscription(t) == Always(ForUpdate("subscription", TaskOrg[t]), Nothing)

-----------------------------------------------------------------------------
(* Worker transactions.  Each definition lists the statements done so far: *)
(* the locks taken, the statements to come, and the columns written.       *)

(* claimQueued, before and after it has the subscription and a slot        *)
Picking(a, t) ==
  /\ pc[a] = "queue" /\ taskStatus[t] = "queued"
  /\ txn[a] = [kind |-> "claim", task |-> t]
  /\ Working(a, {ForUpdate("task", t)}, <<LockSubscription(t)>>, Nothing)

Seating(a, t, s) ==
  /\ pc[a] = "queue" /\ taskStatus[t] = "queued"
  /\ UnderLimit(TaskOrg[t]) /\ Suits(s, t)
  /\ Writing(a)
  /\ Working(a, {ForUpdate("task", t), ForUpdate("subscription", TaskOrg[t]),
                 ForUpdate("slot", s)},
             << >>, SeatColumns(a, t, s) ++ Nothing)

(* nextCall before it looks at its call, ... *)
AtStep(a, t) == pc[a] = "step" /\ claimed[a] = t /\ StillRunning(t)

Leased(t) == RenewLease(t).columns ++ Nothing
OwnLocks(t) == {ForUpdate("execution", t), Updated("execution", t)}

Looking(a, t) ==
  /\ AtStep(a, t)
  /\ txn[a] = [kind |-> "look", task |-> t, index |-> callIndex[t]]
  /\ \/ Working(a, LockExecution(t), <<RenewLease(t)>>, Nothing)
     \/ Working(a, OwnLocks(t), << >>, Leased(t))

(* ... and once it has: it leaves the call, starts it or raises its request. *)
Passing(a, t) ==
  /\ AtStep(a, t)
  /\ \A c \in Current(t) : Verdict(c) \in {"skip", "stop"}
  /\ Writing(a)
  /\ Working(a, OwnLocks(t), << >>, PassColumns(a, t, callIndex[t]) ++ Leased(t))

Starting(a, t, c) ==
  LET mark == UpdateCall(c, callStatus[c], "executing")
      base == StartColumns(a, c) ++ Leased(t) IN
    /\ AtStep(a, t) /\ c \in Current(t) /\ Verdict(c) = "run"
    /\ Writing(a)
    /\ \/ Working(a, OwnLocks(t), <<mark>>, base)
       \/ Working(a, OwnLocks(t) \cup {Updated("call", c)}, << >>, mark.columns ++ base)

Raising(a, t, c) ==
  LET mark == UpdateCall(c, callStatus[c], "awaiting_approval")
      park == UpdateTask(t, "running", "awaiting_approval")
      base == RaiseColumns(a, t, c) ++ Leased(t) IN
    /\ AtStep(a, t) /\ c \in Current(t) /\ Verdict(c) = "raise"
    /\ Writing(a)
    /\ \/ Working(a, OwnLocks(t), <<mark, park>>, base)
       \/ Working(a, OwnLocks(t) \cup {Updated("call", c)}, <<park>>, mark.columns ++ base)
       \/ Working(a, OwnLocks(t) \cup {Updated("call", c), Updated("task", t)}, << >>,
                  park.columns ++ (mark.columns ++ base))

(* recordCall *)
Recording(a, t, c, outcome) ==
  LET mark == UpdateCall(c, "executing", outcome)
      add == AddUsage(t, c)
      move == MoveIndex(t, callIndex[t] + 1)
      base == RecordColumns(a, outcome)
      marked == mark.columns ++ base
      called == LockExecution(t) \cup {Updated("call", c)}
      charged == called \cup {Referenced("task", t)} IN
    /\ pc[a] = "tool" /\ claimed[a] = t /\ calling[a] = c /\ StillRunning(t)
    /\ Writing(a)
    /\ \/ Working(a, LockExecution(t), RecordPlan(t, c, outcome), base)
       \/ outcome = "failed" /\ Working(a, called, << >>, marked)
       \/ /\ outcome = "completed"
          /\ \/ Working(a, called, <<add, move>>, marked)
             \/ Working(a, charged, <<move>>, add.columns ++ marked)
             \/ Working(a, charged \cup {Updated("execution", t)}, << >>,
                        move.columns ++ (add.columns ++ marked))

(* finish *)
Closing(a, t) ==
  LET free == ReleaseSlot(execSlot[t])
      close == UpdateTask(t, "running", Outcome(a))
      base == CloseColumns(a, t)
      first == {Updated("execution", t)}
      second == first \cup {Updated("slot", execSlot[t])} IN
    /\ Finishing(a) /\ claimed[a] = t /\ StillRunning(t)
    /\ Writing(a)
    /\ \/ Working(a, first, <<free, close>>, base)
       \/ Working(a, second, <<close>>, free.columns ++ base)
       \/ Working(a, second \cup {Updated("task", t)}, << >>,
                  close.columns ++ (free.columns ++ base))

-----------------------------------------------------------------------------
(* Transactions of approvers, the sweeper and cancellation                 *)

(* decide before it has its request, ... *)
Asking(a, x) ==
  /\ x.kind = "decide" /\ x.call \in Call /\ x.role \in Role /\ x.approve \in BOOLEAN
  /\ txn[a] = x
  /\ Working(a, {}, <<Always(ForUpdate("request", x.call), Nothing)>>, Nothing)

(* ... on its way into resumeFlow, ... *)
Resuming(a, c, role) ==
  LET t == TaskOf[c]
      resume == ResumeExecution(t)
      run == ResumeTask(t)
      base == ApprovalColumns(c, role) ++ Nothing
      first == {ForUpdate("request", c)}
      second == first \cup {Updated("execution", t)} IN
    /\ MayDecide(c, role) /\ ~HasNext(c)
    /\ Writing(a)
    /\ \/ Working(a, first, <<resume, run>>, base)
       \/ execStatus[t] = "cancelled" /\ Working(a, first, << >>, base)
       \/ /\ execStatus[t] = "awaiting_approval"
          /\ \/ Working(a, second, <<run>>, resume.columns ++ base)
             \/ Working(a, second \cup {Updated("task", t)}, << >>,
                        run.columns ++ (resume.columns ++ base))

(* ... and into rejectFlow, where the sweeper arrives too *)
MayReject(c, role, decision) ==
  \/ decision = "rejected" /\ role \in Role /\ MayDecide(c, role)
  \/ /\ decision = "timeout_rejected" /\ role = "system"
     /\ Expired(c) /\ ~Escalates(c)

Rejecting(a, c, role, decision) ==
  LET t == TaskOf[c]
      mark == UpdateCall(c, "awaiting_approval", "rejected")
      fail == FailExecution(t)
      free == ReleaseSlot(execSlot[t])
      end == FailTask(t)
      base == RejectionColumns(c, role, decision)
      marked == mark.columns ++ base
      freed == free.columns ++ (fail.columns ++ marked)
      first == {ForUpdate("request", c)}
      second == first \cup {Updated("call", c)}
      third == second \cup {ForUpdate("execution", t)}
      fourth == third \cup {Updated("slot", execSlot[t])} IN
    /\ MayReject(c, role, decision)
    /\ Writing(a)
    /\ \/ Working(a, first, <<mark, fail, free, end>>, base)
       \/ Working(a, second, <<fail, free, end>>, marked)
       \/ /\ execStatus[t] = "cancelled"
          /\ Working(a, second, <<end>>, marked) \/ Working(a, second, << >>, marked)
       \/ /\ execStatus[t] = "awaiting_approval"
          /\ \/ Working(a, third, <<free, end>>, fail.columns ++ marked)
             \/ Working(a, fourth, <<end>>, freed)
             \/ Working(a, fourth \cup {Updated("task", t)}, << >>, end.columns ++ freed)

(* Cancel *)
Cancelling(a, t) ==
  LET leave == CancelExecution(t)
      free == ReleaseSlot(execSlot[t])
      cancel == UpdateTask(t, taskStatus[t], "cancelled")
      left == leave.columns ++ Nothing
      first == {ForUpdate("task", t)}
      second == first \cup {ForUpdate("execution", t)}
      third == second \cup {Updated("slot", execSlot[t])} IN
    /\ ~IsTerminal(taskStatus[t])
    /\ txn[a] = [kind |-> "cancel"]
    /\ \/ Working(a, first, <<leave, free, cancel>>, Nothing)
       \/ /\ execStatus[t] = "none"
          /\ \/ Working(a, first, <<cancel>>, Nothing)
             \/ Working(a, first \cup {Updated("task", t)}, << >>, cancel.columns ++ Nothing)
       \/ /\ Active(t)
          /\ \/ Working(a, second, <<free, cancel>>, left)
             \/ Working(a, third, <<cancel>>, free.columns ++ left)
             \/ Working(a, third \cup {Updated("task", t)}, << >>,
                        cancel.columns ++ (free.columns ++ left))

-----------------------------------------------------------------------------
WorkerPlan(a) ==
  \/ \E t \in Task :
       \/ Picking(a, t) \/ Looking(a, t) \/ Passing(a, t) \/ Closing(a, t)
       \/ \E s \in Slot : Seating(a, t, s)
       \/ \E c \in Call : Starting(a, t, c) \/ Raising(a, t, c)
       \/ \E c \in Call, outcome \in {"completed", "failed"} : Recording(a, t, c, outcome)

ClientPlan(a) ==
  \/ Asking(a, txn[a])
  \/ \E t \in Task : Cancelling(a, t)
  \/ \E c \in Call :
       \/ \E role \in Role : Resuming(a, c, role)
       \/ \E role \in Role \cup {"system"}, decision \in {"rejected", "timeout_rejected"} :
            Rejecting(a, c, role, decision)

Planned(a) ==
  \/ Resting(a)
  \/ a \in Worker /\ WorkerPlan(a)
  \/ a \in Client /\ ClientPlan(a)

(* No two transactions hold locks on a row that conflict.                  *)
Exclusive ==
  \A a, b \in Actor : a # b =>
    \A h \in held[a], g \in held[b] : h.row = g.row => ~Conflict(h.mode, g.mode)

(* Every actor has one transaction, plan, set of locks and draft.          *)
OnActors(f) == f = [a \in Actor |-> f[a]]

LocksTyped == OnActors(txn) /\ OnActors(todo) /\ OnActors(held) /\ OnActors(draft)

(* Every open transaction is at some point of its handler's plan, goes by  *)
(* rows that no other one has changed since it read them, and shares no    *)
(* lock that excludes another: what a transaction has read and written in  *)
(* its earlier statements is still so when it does the next.               *)
LockInv ==
  /\ LocksTyped
  /\ Exclusive
  /\ \A a \in Actor : Planned(a)
=============================================================================
