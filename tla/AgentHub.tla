------------------------------ MODULE AgentHub ------------------------------
(***************************************************************************)
(* The system: any number of worker goroutines, API requests that cancel a *)
(* task or decide on an approval, and the sweeper, all of them talking     *)
(* through the tables only.                                                *)
(***************************************************************************)
EXTENDS WorkerLoop, Approvals, Cancellation

-----------------------------------------------------------------------------
Next ==
  \/ \E w \in Worker : WorkerMoves(w) \/ Drop(w)
  \/ \E t \in Task : LeaseExpires(t) \/ Cancel(t)
  \/ \E c \in Call, role \in Role :
       ApproveStep(c, role) \/ ApproveLast(c, role) \/ Reject(c, role)
  \/ \E c \in Call : DeadlinePasses(c) \/ SweepOne(c)

Spec == Init /\ [][Next]_vars

(* Workers poll every two seconds, time passes, and the sweeper runs every *)
(* five seconds.  A task that is resumable or claimable again and again is *)
(* claimed some time: claimResumable takes the oldest lease first, and     *)
(* within one organization only tasks ahead in the queue delay a claim.    *)
(* Nothing is assumed of people: they need not decide, nor cancel.         *)
Fairness ==
  /\ \A w \in Worker : WF_vars(WorkerMoves(w))
  /\ \A t \in Task :
       /\ SF_vars(\E w \in Worker : ClaimResumable(w, t))
       /\ SF_vars(\E w \in Worker, s \in Slot : ClaimQueued(w, t, s))
       /\ WF_vars(LeaseExpires(t))
  /\ \A c \in Call : WF_vars(DeadlinePasses(c)) /\ WF_vars(SweepOne(c))

FairSpec == Spec /\ Fairness

-----------------------------------------------------------------------------
(* Slots                                                                   *)

(* A slot is busy exactly while one running or parked execution sits on it *)
(* (ReserveSlot against the four places that free a slot): no slot leaks,  *)
(* none is shared, whoever ends the task and whenever.                     *)
SlotsMatchExecutions ==
  /\ \A s \in Slot :
       slotStatus[s] = "busy" <=> \E t \in Task : Active(t) /\ execSlot[t] = s
  /\ \A t, u \in Task :
       Active(t) /\ Active(u) /\ execSlot[t] = execSlot[u] => t = u

(* max_concurrent_slots of the plan is never exceeded (ReserveSlot counts  *)
(* under the subscription's lock; parked tasks count).                     *)
PlanLimitHeld ==
  \A o \in Org : Cardinality(BusySlots(o)) <= MaxConcurrentSlots[o]

Holder(s) ==
  IF \E t \in Task : Active(t) /\ execSlot[t] = s
  THEN CHOOSE t \in Task : Active(t) /\ execSlot[t] = s
  ELSE NoTask

HolderOf == [s \in Slot |-> Holder(s)]
Served == {t \in Task : execStatus[t] # "none"}

FittingSlots ==
  {p \in Slot \X Task :
     SlotOrg[p[1]] = TaskOrg[p[2]] /\ SlotType[p[1]] = RequiredSlotType[p[2]]}

Pool == INSTANCE SlotPool WITH
          Nobody <- NoTask, Fitting <- FittingSlots, Owner <- SlotOrg,
          Limit <- MaxConcurrentSlots,
          holder <- HolderOf, served <- Served

(* The tables implement the pool: every reservation takes a free, fitting  *)
(* slot within the limit, for a task that never had one.                   *)
PoolSpec == Pool!Spec

-----------------------------------------------------------------------------
(* Tasks and executions                                                    *)

(* A task and its execution row never disagree, although six transactions  *)
(* in three packages write both.                                           *)
StatusesAgree ==
  \A t \in Task :
    IF execStatus[t] = "none" THEN taskStatus[t] \in {"queued", "cancelled"}
                              ELSE taskStatus[t] = execStatus[t]

SeatOf(t) == IF Active(t) THEN execSlot[t] ELSE NoSlot
Seated == [t \in Task |-> SeatOf(t)]

Life == INSTANCE TaskLife WITH status <- taskStatus, seat <- Seated

(* Whatever workers, approvers, the sweeper and cancellations do to tasks  *)
(* and executions in three packages is a step in the life of one task.     *)
LifeSpec == Life!Spec

(* A task that has ended stays as it ended: no late worker, approver or    *)
(* sweeper brings it back or gives it another outcome.                     *)
TaskEndIsFinal ==
  [][\A t \in Task : taskStatus[t] \in Terminal => taskStatus'[t] = taskStatus[t]]_vars

(* Calls are started, finished and billed only while their task runs: a    *)
(* worker that comes back from its tool after a cancellation, a rejection  *)
(* or a parking writes nothing.                                            *)
Works(c) ==
  \/ callStatus'[c] # callStatus[c]
     /\ callStatus'[c] \in {"executing", "completed", "failed"}
  \/ usage'[c] # usage[c]

WorkOnlyWhileRunning ==
  [][\A c \in Call : Works(c) => taskStatus[TaskOf[c]] = "running"]_vars

-----------------------------------------------------------------------------
(* The inductive invariant of the proofs                                   *)

(* A request stands at a step of its chain. *)
RequestsInChain ==
  \A c \in Call : reqStatus[c] # "none" => reqStep[c] \in 1 .. Len(ChainOf(c))

(* A goroutine past its claim knows its task, and in a tool its call.      *)
WorkersKnow ==
  \A w \in Worker :
    /\ pc[w] \notin {"resumable", "queue"} => claimed[w] \in Task
    /\ pc[w] = "tool" => calling[w] \in Call /\ TaskOf[calling[w]] = claimed[w]

(* slot_id is not null. *)
ActiveHaveSlots == \A t \in Task : Active(t) => execSlot[t] \in Slot

(* That the slots match the executions, the tasks agree with them and the  *)
(* plan's limit holds is preserved by every transaction only because of    *)
(* what goroutines remember and what rows refer to: finish frees the slot  *)
(* of the task it remembers.                                               *)
IInv ==
  /\ TypeOK
  /\ RequestsInChain
  /\ WorkersKnow
  /\ ActiveHaveSlots
  /\ SlotsMatchExecutions
  /\ StatusesAgree
  /\ PlanLimitHeld

-----------------------------------------------------------------------------
(* Approvals                                                               *)

Gated(c) == NeedsApproval(c) /\ ChainOf(c) # << >>

(* The first n steps of the chain were each approved by their own role, or *)
(* escalated at their timeout where the step allows that; the last one     *)
(* cannot be escalated.                                                    *)
DecidedWell(c, i) ==
  LET d == decisions[c][i]
      step == ChainOf(c)[i] IN
    /\ d.step = i
    /\ \/ d.decision = "approved" /\ d.role = step.role
       \/ /\ d.decision = "timeout_escalated" /\ d.role = "system"
          /\ step.onTimeout = "escalate" /\ i < Len(ChainOf(c))

Walked(c, n) == Len(decisions[c]) = n /\ \A i \in 1 .. n : DecidedWell(c, i)

Granted(c) == reqStatus[c] = "approved" /\ Walked(c, Len(ChainOf(c)))

Started(c) == callStatus[c] \in {"executing", "completed", "failed"}

(* No tool call that needs approval is started before its whole chain has  *)
(* said yes, not even when a crash, a resume or a late worker intervenes.  *)
ApprovalGate ==
  \A c \in Call : Gated(c) /\ Started(c) => Granted(c)

(* A parked task waits for exactly one pending request, that of the call   *)
(* it stands at: nobody decides or resolves it and leaves the task behind. *)
PendingOf(t) == {c \in Call : TaskOf[c] = t /\ reqStatus[c] = "pending"}

ParkedOnOneRequest ==
  \A t \in Task :
    taskStatus[t] = "awaiting_approval" =>
      Current(t) = PendingOf(t) /\ Current(t) # {}

(* Why the gate holds.  A request is raised for a pending call, and its    *)
(* task then stands at this call, parked, until the request is decided or  *)
(* the task cancelled; a rejected call belongs to a task that will never   *)
(* run again; and whoever comes back from a tool was let in before.        *)
CallAwaitsRequest(c) ==
  /\ callStatus[c] = "pending" => reqStatus[c] = "none"
  /\ reqStatus[c] = "pending" => callStatus[c] = "awaiting_approval"
  /\ Gated(c) /\ Started(c) => reqStatus[c] = "approved"
  /\ callStatus[c] = "rejected" => execStatus[TaskOf[c]] \in {"failed", "cancelled"}

ChainIsWalked(c) ==
  /\ reqStatus[c] = "none" => decisions[c] = << >>
  /\ reqStatus[c] = "pending" => Walked(c, reqStep[c] - 1)
  /\ reqStatus[c] = "approved" => Granted(c)

TaskAwaitsRequest(t) ==
  /\ \A c \in PendingOf(t) :
       \/ execStatus[t] = "awaiting_approval" /\ OrderIndex[c] = callIndex[t]
       \/ execStatus[t] = "cancelled"
  /\ execStatus[t] = "awaiting_approval" => PendingOf(t) # {}

GateInv ==
  /\ \A c \in Call : CallAwaitsRequest(c) /\ ChainIsWalked(c)
  /\ \A t \in Task : TaskAwaitsRequest(t)
  /\ \A w \in Worker : pc[w] = "tool" => Started(calling[w])

(* A decided request stays decided: of an approver, another approver and a *)
(* sweeper that race, one wins and the others leave no decision behind.    *)
DecisionIsFinal ==
  [][\A c \in Call : reqStatus[c] \in {"approved", "rejected"} =>
       reqStatus'[c] = reqStatus[c] /\ decisions'[c] = decisions[c]]_vars

-----------------------------------------------------------------------------
(* Calls and billing                                                       *)

(* No tool call is ever charged twice, even when two workers finish it.    *)
BilledAtMostOnce == \A c \in Call : usage[c] <= 1

(* One goroutine at a time works on a task.                                *)
OneRunner ==
  \A v, w \in Worker : claimed[v] = claimed[w] /\ claimed[v] # NoTask => v = w

(* The calls of a task run strictly one after the other, in order.         *)
CallsInOrder ==
  \A c, d \in Call :
    TaskOf[c] = TaskOf[d] /\ OrderIndex[d] < OrderIndex[c]
      /\ callStatus[c] # "pending" => callStatus[d] = "completed"

(* A task reported completed has completed every call, none skipped.       *)
CompletedMeansAllDone ==
  \A c \in Call : taskStatus[TaskOf[c]] = "completed" => callStatus[c] = "completed"

(* Usage is charged for exactly the calls that completed.                  *)
BilledIffCompleted ==
  \A c \in Call : usage[c] = 1 <=> callStatus[c] = "completed"

(* A completed call is never run again nor given another outcome.          *)
CompletedCallStays ==
  [][\A c \in Call : callStatus[c] = "completed" => callStatus'[c] = "completed"]_vars

(* Why calls run in order where no lease runs out under a goroutine.  The  *)
(* lease of a claimed task is live, so nobody else may claim it, and its   *)
(* index moves only with the call that stands at it.                       *)
LeaseHeld ==
  \A w \in Worker : claimed[w] \in Task =>
    /\ lease[claimed[w]] = "live"
    /\ execStatus[claimed[w]] \notin {"none", "awaiting_approval"}

CallStandsInOrder(c) ==
  LET t == TaskOf[c] IN
    /\ callStatus[c] = "completed" <=> OrderIndex[c] < callIndex[t]
    /\ OrderIndex[c] > callIndex[t] => callStatus[c] = "pending"
    /\ execStatus[t] = "none" => callStatus[c] = "pending"
    /\ usage[c] = IF callStatus[c] = "completed" THEN 1 ELSE 0

WorkerStandsAt(w) ==
  /\ pc[w] = "tool" => OrderIndex[calling[w]] = callIndex[claimed[w]]
  /\ pc[w] = "finish_completed" => Current(claimed[w]) = {}

(* The call whose tool runs is marked executing until its goroutine        *)
(* records it.                                                             *)
ToolsExecute ==
  \A w \in Worker : pc[w] = "tool" => callStatus[calling[w]] = "executing"

OrderInv ==
  /\ OneRunner
  /\ LeaseHeld
  /\ \A c \in Call : CallStandsInOrder(c)
  /\ \A w \in Worker : WorkerStandsAt(w)
  /\ \A t \in Task : execStatus[t] = "completed" => Current(t) = {}
  /\ ToolsExecute

-----------------------------------------------------------------------------
(* The journal                                                             *)

(* Whenever a task, a call or an execution changes its status, the same    *)
(* transaction leaves a row that says from which status to which.  Of an   *)
(* execution that is cancelled while it is parked this claims the row and  *)
(* the new status only: the former one, as the row names it, is wrong.     *)
CancelledParked(t) ==
  execStatus[t] = "awaiting_approval" /\ execStatus'[t] = "cancelled"

ChangesAreJournalled ==
  [][/\ \A t \in Task : taskStatus'[t] # taskStatus[t] =>
          journal'[<<"task", t>>] = Row(taskStatus[t], taskStatus'[t])
     /\ \A c \in Call : callStatus'[c] # callStatus[c] =>
          journal'[<<"tool_call", c>>] = Row(callStatus[c], callStatus'[c])
     /\ \A t \in Task : execStatus'[t] # execStatus[t] /\ ~CancelledParked(t) =>
          journal'[<<"execution", t>>] = Row(execStatus[t], execStatus'[t])
     /\ \A t \in Task : CancelledParked(t) =>
          journal'[<<"execution", t>>].to = "cancelled"]_vars

-----------------------------------------------------------------------------
(* Progress                                                                *)

(* Every task ends, if nobody decides and nobody cancels too: leases and   *)
(* deadlines run out, and someone takes over.                              *)
EveryTaskEnds == \A t \in Task : <>(taskStatus[t] \in Terminal)

(* Every request is resolved in the end, be it by the sweeper.             *)
RequestsAreResolved ==
  \A c \in Call : reqStatus[c] = "pending" ~> reqStatus[c] # "pending"

-----------------------------------------------------------------------------
(* What the documents say and the code does not do                         *)

(* README.md: every transition of a task is in state_transitions, so the   *)
(* last row about a task shows the status it has.                          *)
LastRowIsTaskStatus ==
  \A t \in Task : journal[<<"task", t>>].to = taskStatus[t]

(* ADR.md: a failed call is not retried, its task has failed.              *)
FailedCallIsNotRetried ==
  [][\A c \in Call : callStatus[c] = "failed" => callStatus'[c] = "failed"]_vars
=============================================================================
