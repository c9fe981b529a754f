--------------------------- MODULE AgentHubProofs ---------------------------
(***************************************************************************)
(* Theorems about AgentHub that hold for every set of organizations,       *)
(* tasks, calls, slots and workers, every plan and every approval chain,   *)
(* with leases that may run out under a working goroutine or not.          *)
(***************************************************************************)
EXTENDS AgentHub, FiniteSetTheorems, TLAPS

-----------------------------------------------------------------------------
(* Type correctness, one lemma per component                               *)

LEMMA TypeInit == Init => TypeOK /\ RequestsInChain
  BY ColumnTypes, NullValues
     DEF Init, TypeOK, RequestsInChain, TaskStatus, ExecStatus, CallStatus,
         RequestStatus, Status, Entity, Row, NoRow, WorkerStep

LEMMA TypeWorker ==
  ASSUME TypeOK, WorkersKnow, NEW w \in Worker, WorkerMoves(w)
  PROVE  TypeOK'
<1> USE ColumnTypes, NullValues DEF TypeOK, TaskStatus, ExecStatus, WorkerStep
<1>1. ASSUME NEW t \in Task, ClaimResumable(w, t) PROVE TypeOK'
  BY <1>1 DEF ClaimResumable, Renew, Take, GoTo, reqVars
<1>2. ASSUME ClaimResumableMiss(w) PROVE TypeOK'
  BY <1>2 DEF ClaimResumableMiss, GoTo, reqVars, execVars
<1>3. ASSUME NEW t \in Task, NEW s \in Slot, ClaimQueued(w, t, s) PROVE TypeOK'
  BY <1>3 DEF ClaimQueued, ReserveSlot, Renew, Take, GoTo, reqVars, Row, Entity, Status
<1>4. ASSUME ClaimQueuedMiss(w) PROVE TypeOK'
  BY <1>4 DEF ClaimQueuedMiss, GoTo, reqVars, execVars
<1>5. ASSUME NextCallLeaves(w) PROVE TypeOK'
  BY <1>5 DEF NextCallLeaves, GiveUp, GoTo, reqVars
<1>6. ASSUME NextCallPasses(w) PROVE TypeOK'
  <2> DEFINE t == claimed[w]
             done == Current(t) = {}
  <2>1. callIndex' \in [Task -> Nat]
    <3>1. t \in Task
      BY <1>6 DEF NextCallPasses, WorkersKnow
    <3>2. callIndex' = [callIndex EXCEPT ![t] = IF done THEN @ ELSE @ + 1]
      BY <1>6 DEF NextCallPasses
    <3>3. (IF done THEN callIndex[t] ELSE callIndex[t] + 1) \in Nat
      BY <3>1
    <3>4. QED
      BY <3>1, <3>2, <3>3
  <2>2. lease' \in [Task -> {"live", "expired"}] /\ pc' \in [Worker -> WorkerStep]
    BY <1>6 DEF NextCallPasses, Renew, GoTo
  <2>3. QED
    BY <1>6, <2>1, <2>2 DEF NextCallPasses, reqVars
<1>7. ASSUME NextCallRaise(w) PROVE TypeOK'
  <2>1. PICK c \in Current(claimed[w]) :
          /\ reqStatus' = [reqStatus EXCEPT ![c] = "pending"]
          /\ reqStep' = [reqStep EXCEPT ![c] = 1]
          /\ callStatus' = [callStatus EXCEPT ![c] = "awaiting_approval"]
          /\ journal' = [journal EXCEPT
               ![<<"tool_call", c>>] = Row(callStatus[c], "awaiting_approval"),
               ![<<"task", claimed[w]>>] = Row("running", "awaiting_approval"),
               ![<<"execution", claimed[w]>>] = Row("running", "awaiting_approval")]
    BY <1>7 DEF NextCallRaise
  <2>2. c \in Call
    BY DEF Current
  <2>3. /\ reqStatus' \in [Call -> RequestStatus]
        /\ reqStep' \in [Call -> Nat]
        /\ callStatus' \in [Call -> CallStatus]
    BY <2>1, <2>2 DEF RequestStatus, CallStatus
  <2>4. journal' \in [Entity -> [from : Status, to : Status]]
    <3>1. /\ Row(callStatus[c], "awaiting_approval") \in [from : Status, to : Status]
          /\ Row("running", "awaiting_approval") \in [from : Status, to : Status]
      BY <2>2 DEF Row, Status, CallStatus
    <3>2. QED
      BY <2>1, <3>1
  <2>5. QED
    BY <1>7, <2>3, <2>4 DEF NextCallRaise, Renew, GiveUp, GoTo
<1>8. ASSUME NextCallRun(w) PROVE TypeOK'
  BY <1>8 DEF NextCallRun, Renew, GoTo, reqVars, Current, Row, Entity, Status,
              CallStatus
<1>9. ASSUME RecordAbandoned(w) PROVE TypeOK'
  BY <1>9 DEF RecordAbandoned, GiveUp, GoTo, reqVars, execVars
<1>10. ASSUME RecordSuccess(w) PROVE TypeOK'
  <2>1. usage' \in [Call -> Nat]
    BY <1>10 DEF RecordSuccess, Charge
  <2>2. callIndex' \in [Task -> Nat]
    BY <1>10 DEF RecordSuccess, Advance, WorkersKnow
  <2>3. /\ callStatus' \in [Call -> CallStatus]
        /\ journal' \in [Entity -> [from : Status, to : Status]]
    BY <1>10 DEF RecordSuccess, Row, Status, CallStatus
  <2>4. QED
    BY <1>10, <2>1, <2>2, <2>3 DEF RecordSuccess, GoTo, reqVars
<1>11. ASSUME RecordFailure(w) PROVE TypeOK'
  BY <1>11 DEF RecordFailure, GoTo, reqVars, execVars, Row, Entity, Status, CallStatus
<1>12. ASSUME FinishAbandoned(w) PROVE TypeOK'
  BY <1>12 DEF FinishAbandoned, GiveUp, GoTo, reqVars, execVars
<1>13. ASSUME Finish(w) PROVE TypeOK'
  BY <1>13 DEF Finish, Outcome, FreeSlot, GiveUp, GoTo, reqVars, Row, Entity, Status
<1>14. QED
  BY <1>1, <1>2, <1>3, <1>4, <1>5, <1>6, <1>7, <1>8, <1>9, <1>10, <1>11, <1>12,
     <1>13 DEF WorkerMoves

LEMMA ChainType ==
  ASSUME NEW c \in Call
  PROVE  ChainOf(c) \in Seq(ChainStep) /\ Len(ChainOf(c)) \in Nat
<1>1. TaskOrg[TaskOf[c]] \in Org /\ RiskLevel[c] \in Risk
  BY ColumnTypes
<1>2. ChainOf(c) \in Seq(ChainStep)
  BY <1>1, ColumnTypes DEF ChainOf
<1>3. QED
  BY <1>2

(* Who decides on a request, in which role, at the step it stands at.      *)
LEMMA TypeDecide ==
  ASSUME TypeOK, RequestsInChain, NEW c \in Call, reqStatus[c] = "pending",
         NEW role \in Role \cup {"system"},
         NEW d \in {"approved", "rejected", "timeout_escalated", "timeout_rejected"},
         Decide(c, role, d)
  PROVE  decisions' \in [Call -> Seq(Decision)]
<1>1. reqStep[c] \in Nat \ {0}
  BY ChainType DEF RequestsInChain
<1>2. [step |-> reqStep[c], role |-> role, decision |-> d] \in Decision
  BY <1>1 DEF Decision
<1>3. decisions[c] \in Seq(Decision)
  BY DEF TypeOK
<1>4. Append(decisions[c], [step |-> reqStep[c], role |-> role, decision |-> d])
        \in Seq(Decision)
  BY <1>2, <1>3
<1>5. QED
  BY <1>4 DEF Decide, TypeOK

LEMMA TypeRejectFlow ==
  ASSUME TypeOK, NEW c \in Call, RejectFlow(c), decisions' \in [Call -> Seq(Decision)]
  PROVE  TypeOK'
<1>1. TaskOf[c] \in Task
  BY ColumnTypes
<1>2. /\ reqStatus' \in [Call -> RequestStatus]
      /\ callStatus' \in [Call -> CallStatus]
      /\ taskStatus' \in [Task -> TaskStatus]
  BY <1>1 DEF RejectFlow, CloseRequest, TypeOK, RequestStatus, CallStatus, TaskStatus
<1>3. /\ execStatus' \in [Task -> ExecStatus]
      /\ slotStatus' \in [Slot -> {"available", "busy"}]
  <2>1. CASE execStatus[TaskOf[c]] = "awaiting_approval"
    <3>1. /\ execStatus' = [execStatus EXCEPT ![TaskOf[c]] = "failed"]
          /\ slotStatus' = [slotStatus EXCEPT ![execSlot[TaskOf[c]]] = "available"]
      BY <2>1 DEF RejectFlow, FreeSlot
    <3>2. QED
      BY <1>1, <3>1 DEF TypeOK, ExecStatus, TaskStatus
  <2>2. CASE execStatus[TaskOf[c]] # "awaiting_approval"
    BY <2>2 DEF RejectFlow, TypeOK
  <2>3. QED
    BY <2>1, <2>2
<1>4. journal' \in [Entity -> [from : Status, to : Status]]
  <2>1. /\ Row("awaiting_approval", "rejected") \in [from : Status, to : Status]
        /\ Row("awaiting_approval", "failed") \in [from : Status, to : Status]
    BY DEF Row, Status, TaskStatus, CallStatus
  <2>2. <<"execution", TaskOf[c]>> \in Entity
    BY <1>1 DEF Entity
  <2>3. journal[<<"execution", TaskOf[c]>>] \in [from : Status, to : Status]
    BY <2>2 DEF TypeOK
  <2>4. CASE execStatus[TaskOf[c]] = "awaiting_approval"
    BY <2>1, <2>4 DEF RejectFlow, TypeOK
  <2>5. CASE execStatus[TaskOf[c]] # "awaiting_approval"
    BY <2>1, <2>3, <2>5 DEF RejectFlow, TypeOK
  <2>6. QED
    BY <2>4, <2>5
<1>5. QED
  BY <1>2, <1>3, <1>4 DEF RejectFlow, TypeOK, workerVars

LEMMA TypeNextStep ==
  ASSUME TypeOK, NEW c \in Call, NextStep(c)
  PROVE  reqStep' \in [Call -> Nat] /\ overdue' \in [Call -> BOOLEAN]
BY DEF NextStep, TypeOK

LEMMA TypeApprovals ==
  ASSUME TypeOK, RequestsInChain, NEW c \in Call,
         \/ \E role \in Role : ApproveStep(c, role) \/ ApproveLast(c, role) \/ Reject(c, role)
         \/ DeadlinePasses(c) \/ SweepOne(c)
  PROVE  TypeOK'
<1>1. ASSUME NEW role \in Role, ApproveStep(c, role) PROVE TypeOK'
  <2>1. decisions' \in [Call -> Seq(Decision)]
    BY <1>1, TypeDecide DEF ApproveStep, MayDecide
  <2>2. QED
    BY <1>1, <2>1, TypeNextStep DEF ApproveStep, TypeOK, execVars, workerVars
<1>2. ASSUME NEW role \in Role, ApproveLast(c, role) PROVE TypeOK'
  <2>1. decisions' \in [Call -> Seq(Decision)]
    BY <1>2, TypeDecide DEF ApproveLast, MayDecide
  <2>2. ResumeFlow(c) /\ TaskOf[c] \in Task
    BY <1>2, ColumnTypes DEF ApproveLast
  <2>3. reqStatus' \in [Call -> RequestStatus]
    BY <2>2 DEF ResumeFlow, CloseRequest, TypeOK, RequestStatus
  <2>4. /\ execStatus' \in [Task -> ExecStatus]
        /\ lease' \in [Task -> {"live", "expired"}]
        /\ taskStatus' \in [Task -> TaskStatus]
        /\ journal' \in [Entity -> [from : Status, to : Status]]
    <3>1. CASE execStatus[TaskOf[c]] = "awaiting_approval"
      <4>1. Row("awaiting_approval", "running") \in [from : Status, to : Status]
        BY DEF Row, Status, TaskStatus
      <4>2. journal' \in [Entity -> [from : Status, to : Status]]
        BY <2>2, <3>1, <4>1 DEF ResumeFlow, TypeOK
      <4>3. QED
        BY <2>2, <3>1, <4>2 DEF ResumeFlow, TypeOK, ExecStatus, TaskStatus
    <3>2. CASE execStatus[TaskOf[c]] # "awaiting_approval"
      BY <2>2, <3>2 DEF ResumeFlow, TypeOK
    <3>3. QED
      BY <3>1, <3>2
  <2>5. QED
    BY <2>1, <2>2, <2>3, <2>4 DEF ResumeFlow, TypeOK, workerVars
<1>3. ASSUME NEW role \in Role, Reject(c, role) PROVE TypeOK'
  <2>1. decisions' \in [Call -> Seq(Decision)]
    BY <1>3, TypeDecide DEF Reject, MayDecide
  <2>2. QED
    BY <1>3, <2>1, TypeRejectFlow DEF Reject
<1>4. ASSUME DeadlinePasses(c) PROVE TypeOK'
  BY <1>4 DEF DeadlinePasses, TypeOK, execVars, workerVars
<1>5. ASSUME SweepEscalate(c) PROVE TypeOK'
  <2>1. decisions' \in [Call -> Seq(Decision)]
    BY <1>5, TypeDecide DEF SweepEscalate, Expired
  <2>2. QED
    BY <1>5, <2>1, TypeNextStep DEF SweepEscalate, TypeOK, execVars, workerVars
<1>6. ASSUME SweepReject(c) PROVE TypeOK'
  <2>1. decisions' \in [Call -> Seq(Decision)]
    BY <1>6, TypeDecide DEF SweepReject, Expired
  <2>2. QED
    BY <1>6, <2>1, TypeRejectFlow DEF SweepReject
<1>7. QED
  BY <1>1, <1>2, <1>3, <1>4, <1>5, <1>6 DEF SweepOne

LEMMA TypeCancel ==
  ASSUME TypeOK, NEW t \in Task, Cancel(t)
  PROVE  TypeOK'
<1>1. /\ taskStatus' \in [Task -> TaskStatus]
      /\ execStatus' \in [Task -> ExecStatus]
      /\ slotStatus' \in [Slot -> {"available", "busy"}]
  BY DEF Cancel, ReleaseExecution, FreeSlot, TypeOK, TaskStatus, ExecStatus
<1>2. journal' \in [Entity -> [from : Status, to : Status]]
  <2>1. /\ CancelRow(t) \in [from : Status, to : Status]
        /\ Row("running", "cancelled") \in [from : Status, to : Status]
    BY DEF CancelRow, Row, TypeOK, Status, TaskStatus
  <2>2. journal[<<"execution", t>>] \in [from : Status, to : Status]
    BY DEF TypeOK, Entity
  <2>3. CASE Active(t)
    BY <2>1, <2>3 DEF Cancel, TypeOK
  <2>4. CASE ~Active(t)
    BY <2>1, <2>2, <2>4 DEF Cancel, TypeOK
  <2>5. QED
    BY <2>3, <2>4
<1>3. QED
  BY <1>1, <1>2 DEF Cancel, TypeOK, reqVars, workerVars

LEMMA TypeFailures ==
  ASSUME TypeOK,
         (\E w \in Worker : Drop(w)) \/ (\E t \in Task : LeaseExpires(t))
  PROVE  TypeOK'
<1>1. ASSUME NEW w \in Worker, Drop(w) PROVE TypeOK'
  BY <1>1 DEF Drop, GoTo, TypeOK, WorkerStep, execVars, reqVars
<1>2. ASSUME NEW t \in Task, LeaseExpires(t) PROVE TypeOK'
  BY <1>2 DEF LeaseExpires, TypeOK, reqVars, workerVars
<1>3. QED
  BY <1>1, <1>2

LEMMA TypeStep ==
  ASSUME TypeOK, RequestsInChain, WorkersKnow, [Next]_vars
  PROVE  TypeOK'
<1>1. CASE UNCHANGED vars
  BY <1>1 DEF vars, execVars, reqVars, workerVars, TypeOK
<1>2. CASE Next
  BY <1>2, TypeWorker, TypeApprovals, TypeCancel, TypeFailures DEF Next
<1>3. QED
  BY <1>1, <1>2

-----------------------------------------------------------------------------
(* Requests and goroutines                                                 *)

LEMMA RequestsStep ==
  ASSUME TypeOK, RequestsInChain, WorkersKnow, [Next]_vars
  PROVE  RequestsInChain'
<1> USE DEF RequestsInChain
<1>1. ASSUME NEW w \in Worker, NextCallRaise(w) PROVE RequestsInChain'
  <2>1. PICK c \in Current(claimed[w]) :
          /\ Verdict(c) = "raise"
          /\ reqStatus' = [reqStatus EXCEPT ![c] = "pending"]
          /\ reqStep' = [reqStep EXCEPT ![c] = 1]
    BY <1>1 DEF NextCallRaise
  <2>2. c \in Call /\ ChainOf(c) # << >>
    BY <2>1 DEF Current, Verdict
  <2>3. 1 \in 1 .. Len(ChainOf(c))
    BY <2>2, ChainType
  <2>4. QED
    BY <2>1, <2>2, <2>3 DEF TypeOK
<1>2. ASSUME NEW c \in Call, NextStep(c), HasNext(c), UNCHANGED reqStatus,
             reqStatus[c] = "pending"
      PROVE  RequestsInChain'
  <2>1. reqStep[c] + 1 \in 1 .. Len(ChainOf(c))
    BY <1>2, ChainType DEF HasNext, TypeOK
  <2>2. QED
    BY <1>2, <2>1 DEF NextStep, TypeOK
<1>3. ASSUME NEW c \in Call, reqStatus[c] = "pending", NEW s, CloseRequest(c, s),
             UNCHANGED reqStep
      PROVE  RequestsInChain'
  BY <1>3 DEF CloseRequest, TypeOK
<1>4. ASSUME UNCHANGED <<reqStatus, reqStep>> PROVE RequestsInChain'
  BY <1>4
<1>5. ASSUME NEW w \in Worker, WorkerMoves(w) PROVE RequestsInChain'
  <2>1. NextCallRaise(w) \/ UNCHANGED reqVars
    BY <1>5 DEF WorkerMoves, ClaimResumable, ClaimResumableMiss, ClaimQueued,
         ClaimQueuedMiss, NextCallLeaves, NextCallPasses, NextCallRun,
         RecordAbandoned, RecordSuccess, RecordFailure, FinishAbandoned, Finish
  <2>2. QED
    BY <1>1, <1>4, <2>1 DEF reqVars
<1>6. ASSUME NEW c \in Call,
             \/ \E role \in Role :
                  ApproveStep(c, role) \/ ApproveLast(c, role) \/ Reject(c, role)
             \/ DeadlinePasses(c) \/ SweepOne(c)
      PROVE  RequestsInChain'
  BY <1>2, <1>3, <1>4, <1>6 DEF ApproveStep, ApproveLast, Reject, DeadlinePasses,
     SweepOne, SweepEscalate, SweepReject, MayDecide, Expired, Escalates,
     ResumeFlow, RejectFlow
<1>7. ASSUME (\E w \in Worker : Drop(w)) \/ (\E t \in Task : LeaseExpires(t) \/ Cancel(t))
      PROVE  RequestsInChain'
  BY <1>4, <1>7 DEF Drop, LeaseExpires, Cancel, reqVars
<1>8. CASE UNCHANGED vars
  BY <1>4, <1>8 DEF vars, reqVars
<1>9. QED
  BY <1>5, <1>6, <1>7, <1>8 DEF Next

LEMMA WorkersStep ==
  ASSUME TypeOK, WorkersKnow, [Next]_vars
  PROVE  WorkersKnow'
<1> USE DEF WorkersKnow
<1>1. ASSUME NEW w \in Worker, NEW t \in Task, Take(w, t) PROVE WorkersKnow'
  BY <1>1 DEF Take, GoTo, TypeOK
<1>2. ASSUME NEW w \in Worker, GiveUp(w) PROVE WorkersKnow'
  BY <1>2 DEF GiveUp, GoTo, TypeOK
<1>3. ASSUME NEW w \in Worker, NEW step \in {"resumable", "queue"}, GoTo(w, step),
             UNCHANGED <<claimed, calling>>
      PROVE  WorkersKnow'
  BY <1>3 DEF GoTo, TypeOK
<1>4. ASSUME NEW w \in Worker, NEW step \in WorkerStep \ {"tool"}, GoTo(w, step),
             pc[w] \notin {"resumable", "queue"}, UNCHANGED claimed,
             \A v \in Worker \ {w} : calling'[v] = calling[v]
      PROVE  WorkersKnow'
  BY <1>4 DEF GoTo, TypeOK
<1>5. ASSUME UNCHANGED <<pc, claimed, calling>> PROVE WorkersKnow'
  BY <1>5
<1>6. ASSUME NEW w \in Worker, NextCallRun(w) PROVE WorkersKnow'
  <2>1. PICK c \in Current(claimed[w]) : calling' = [calling EXCEPT ![w] = c]
    BY <1>6 DEF NextCallRun
  <2>2. c \in Call /\ TaskOf[c] = claimed[w]
    BY DEF Current
  <2>3. QED
    BY <1>6, <2>1, <2>2 DEF NextCallRun, GoTo, TypeOK
<1>7. ASSUME NEW w \in Worker, WorkerMoves(w) PROVE WorkersKnow'
  <2>1. CASE \/ \E t \in Task : ClaimResumable(w, t)
             \/ \E t \in Task, s \in Slot : ClaimQueued(w, t, s)
    BY <1>1, <2>1 DEF ClaimResumable, ClaimQueued
  <2>2. CASE ClaimResumableMiss(w) \/ ClaimQueuedMiss(w)
    BY <1>3, <2>2 DEF ClaimResumableMiss, ClaimQueuedMiss
  <2>3. CASE \/ NextCallLeaves(w) \/ NextCallRaise(w) \/ RecordAbandoned(w)
             \/ FinishAbandoned(w) \/ Finish(w)
    BY <1>2, <2>3 DEF NextCallLeaves, NextCallRaise, RecordAbandoned,
                      FinishAbandoned, Finish
  <2>4. CASE NextCallPasses(w) \/ RecordSuccess(w) \/ RecordFailure(w)
    BY <1>4, <2>4 DEF NextCallPasses, RecordSuccess, RecordFailure, WorkerStep, TypeOK
  <2>5. QED
    BY <1>6, <1>7, <2>1, <2>2, <2>3, <2>4 DEF WorkerMoves
<1>8. ASSUME NEW w \in Worker, Drop(w) PROVE WorkersKnow'
  BY <1>8 DEF Drop, GoTo, TypeOK
<1>9. ASSUME \/ UNCHANGED vars
             \/ \E t \in Task : LeaseExpires(t) \/ Cancel(t)
             \/ \E c \in Call, role \in Role :
                  ApproveStep(c, role) \/ ApproveLast(c, role) \/ Reject(c, role)
             \/ \E c \in Call : DeadlinePasses(c) \/ SweepOne(c)
      PROVE  WorkersKnow'
  <2>1. UNCHANGED workerVars
    BY <1>9 DEF vars, LeaseExpires, Cancel, ApproveStep, ApproveLast, Reject,
         DeadlinePasses, SweepOne, SweepEscalate, SweepReject, ResumeFlow, RejectFlow
  <2>2. QED
    BY <1>5, <2>1 DEF workerVars
<1>10. QED
  BY <1>7, <1>8, <1>9 DEF Next

(* Every reachable state is well typed: no transaction writes a status     *)
(* that its column does not know.                                          *)
THEOREM TypeCorrect == Spec => []TypeOK
<1>1. Init => TypeOK /\ RequestsInChain /\ WorkersKnow
  BY TypeInit DEF Init, WorkersKnow
<1>2. TypeOK /\ RequestsInChain /\ WorkersKnow /\ [Next]_vars
        => (TypeOK /\ RequestsInChain /\ WorkersKnow)'
  BY TypeStep, RequestsStep, WorkersStep
<1>3. QED
  BY <1>1, <1>2, PTL DEF Spec

-----------------------------------------------------------------------------
(* The five effects a transaction can have on tasks, executions and slots. *)

Stays == UNCHANGED <<taskStatus, execStatus, execSlot, slotStatus>>

(* Task t leaves the queue and takes slot s. *)
Seats(t, s) ==
  /\ taskStatus[t] = "queued" /\ execStatus[t] = "none"
  /\ UnderLimit(TaskOrg[t])
  /\ Suits(s, t)
  /\ taskStatus' = [taskStatus EXCEPT ![t] = "running"]
  /\ execStatus' = [execStatus EXCEPT ![t] = "running"]
  /\ execSlot' = [execSlot EXCEPT ![t] = s]
  /\ slotStatus' = [slotStatus EXCEPT ![s] = "busy"]

(* Task t is parked or resumed, and keeps its slot. *)
Moves(t, status) ==
  /\ Active(t)
  /\ status \in {"running", "awaiting_approval"}
  /\ taskStatus' = [taskStatus EXCEPT ![t] = status]
  /\ execStatus' = [execStatus EXCEPT ![t] = status]
  /\ UNCHANGED <<execSlot, slotStatus>>

(* Task t ends, completed only if it was running, and gives its slot back. *)
Ends(t, status) ==
  /\ Active(t)
  /\ status \in Terminal
  /\ status = "completed" => taskStatus[t] = "running"
  /\ taskStatus' = [taskStatus EXCEPT ![t] = status]
  /\ execStatus' = [execStatus EXCEPT ![t] = status]
  /\ slotStatus' = [slotStatus EXCEPT ![execSlot[t]] = "available"]
  /\ UNCHANGED execSlot

(* Task t is cancelled in the queue. *)
NeverRuns(t) ==
  /\ taskStatus[t] = "queued" /\ execStatus[t] = "none"
  /\ taskStatus' = [taskStatus EXCEPT ![t] = "cancelled"]
  /\ UNCHANGED <<execStatus, execSlot, slotStatus>>

Effect ==
  \/ Stays
  \/ \E t \in Task, s \in Slot : Seats(t, s)
  \/ \E t \in Task, status \in TaskStatus : Moves(t, status) \/ Ends(t, status)
  \/ \E t \in Task : NeverRuns(t)

LEMMA QueuedHasNoExecution ==
  ASSUME TypeOK, StatusesAgree, NEW t \in Task, taskStatus[t] = "queued"
  PROVE  execStatus[t] = "none"
BY DEF TypeOK, StatusesAgree, ExecStatus

LEMMA WorkerEffect ==
  ASSUME TypeOK, WorkersKnow, StatusesAgree, NEW w \in Worker, WorkerMoves(w)
  PROVE  Effect
<1>1. ASSUME NEW t \in Task, NEW s \in Slot, ClaimQueued(w, t, s) PROVE Effect
  BY <1>1, QueuedHasNoExecution DEF ClaimQueued, ReserveSlot, Seats, Effect
<1>2. ASSUME NextCallRaise(w) PROVE Effect
  <2>1. claimed[w] \in Task
    BY <1>2 DEF NextCallRaise, WorkersKnow
  <2>2. Moves(claimed[w], "awaiting_approval")
    BY <1>2 DEF NextCallRaise, Moves, Active, StillRunning
  <2>3. QED
    BY <2>1, <2>2 DEF Effect, TaskStatus
<1>3. ASSUME Finish(w) PROVE Effect
  <2>1. claimed[w] \in Task
    BY <1>3 DEF Finish, Finishing, WorkersKnow
  <2>2. Ends(claimed[w], Outcome(w)) /\ Outcome(w) \in TaskStatus
    BY <1>3 DEF Finish, Finishing, Ends, Active, StillRunning, Outcome, Terminal, FreeSlot,
         TaskStatus, StatusesAgree, WorkersKnow
  <2>3. QED
    BY <2>1, <2>2 DEF Effect
<1>4. CASE \/ \E t \in Task : ClaimResumable(w, t)
           \/ ClaimResumableMiss(w) \/ ClaimQueuedMiss(w)
           \/ NextCallLeaves(w) \/ NextCallPasses(w) \/ NextCallRun(w)
           \/ RecordAbandoned(w) \/ RecordSuccess(w) \/ RecordFailure(w)
           \/ FinishAbandoned(w)
  BY <1>4 DEF Effect, Stays, ClaimResumable, ClaimResumableMiss, ClaimQueuedMiss,
     NextCallLeaves, NextCallPasses, NextCallRun, RecordAbandoned, RecordSuccess,
     RecordFailure, FinishAbandoned, execVars
<1>5. QED
  BY <1>1, <1>2, <1>3, <1>4 DEF WorkerMoves

LEMMA ApprovalEffect ==
  ASSUME TypeOK, StatusesAgree, NEW c \in Call,
         \/ \E role \in Role : ApproveStep(c, role) \/ ApproveLast(c, role) \/ Reject(c, role)
         \/ DeadlinePasses(c) \/ SweepOne(c)
  PROVE  Effect
<1> DEFINE t == TaskOf[c]
           parked == execStatus[t] = "awaiting_approval"
<1>1. t \in Task
  BY ColumnTypes
<1>2. parked <=> taskStatus[t] = "awaiting_approval"
  BY <1>1 DEF StatusesAgree
<1>3. ASSUME ResumeFlow(c) PROVE Effect
  <2>1. CASE parked
    <3>1. Moves(t, "running")
      BY <1>1, <1>2, <1>3, <2>1 DEF ResumeFlow, Moves, Active
    <3>2. QED
      BY <1>1, <3>1 DEF Effect, TaskStatus
  <2>2. CASE ~parked
    BY <1>3, <2>2 DEF ResumeFlow, Effect, Stays
  <2>3. QED
    BY <2>1, <2>2
<1>4. ASSUME RejectFlow(c) PROVE Effect
  <2>1. CASE parked
    <3>1. Ends(t, "failed")
      BY <1>1, <1>2, <1>4, <2>1 DEF RejectFlow, Ends, Active, Terminal, FreeSlot
    <3>2. QED
      BY <1>1, <3>1 DEF Effect, TaskStatus
  <2>2. CASE ~parked
    <3>1. taskStatus' = taskStatus
      BY <1>1, <1>2, <1>4, <2>2 DEF RejectFlow, TypeOK
    <3>2. QED
      BY <1>4, <2>2, <3>1 DEF RejectFlow, Effect, Stays
  <2>3. QED
    BY <2>1, <2>2
<1>5. CASE \/ DeadlinePasses(c) \/ SweepEscalate(c)
           \/ \E role \in Role : ApproveStep(c, role)
  BY <1>5 DEF DeadlinePasses, SweepEscalate, ApproveStep, execVars, Effect, Stays
<1>6. QED
  BY <1>3, <1>4, <1>5 DEF ApproveLast, Reject, SweepOne, SweepReject

LEMMA CancelEffect ==
  ASSUME TypeOK, StatusesAgree, NEW t \in Task, Cancel(t)
  PROVE  Effect
<1>1. CASE Active(t)
  <2>1. Ends(t, "cancelled")
    BY <1>1 DEF Cancel, ReleaseExecution, FreeSlot, Ends, Terminal
  <2>2. QED
    BY <2>1 DEF Effect, TaskStatus
<1>2. CASE ~Active(t)
  <2>1. taskStatus[t] = "queued" /\ execStatus[t] = "none"
    BY <1>2, QueuedHasNoExecution
       DEF Cancel, IsTerminal, Terminal, StatusesAgree, Active, TypeOK, ExecStatus,
           TaskStatus
  <2>2. NeverRuns(t)
    BY <1>2, <2>1 DEF Cancel, ReleaseExecution, NeverRuns
  <2>3. QED
    BY <2>2 DEF Effect
<1>3. QED
  BY <1>1, <1>2

LEMMA EveryStepHasAnEffect ==
  ASSUME TypeOK, WorkersKnow, StatusesAgree, [Next]_vars
  PROVE  Effect
<1>1. CASE UNCHANGED vars \/ (\E w \in Worker : Drop(w)) \/ (\E t \in Task : LeaseExpires(t))
  BY <1>1 DEF vars, Drop, LeaseExpires, execVars, Effect, Stays
<1>2. QED
  BY <1>1, WorkerEffect, ApprovalEffect, CancelEffect DEF Next

-----------------------------------------------------------------------------
(* Each effect preserves what ties tasks, executions and slots together    *)

LEMMA StatusesStep ==
  ASSUME TypeOK, StatusesAgree, Effect
  PROVE  StatusesAgree'
<1> USE DEF StatusesAgree
<1>1. CASE Stays
  BY <1>1 DEF Stays
<1>2. ASSUME NEW t \in Task, NEW s \in Slot, Seats(t, s) PROVE StatusesAgree'
  BY <1>2 DEF Seats, TypeOK
<1>3. ASSUME NEW t \in Task, NEW status \in TaskStatus, Moves(t, status)
      PROVE  StatusesAgree'
  BY <1>3 DEF Moves, TypeOK
<1>4. ASSUME NEW t \in Task, NEW status \in TaskStatus, Ends(t, status)
      PROVE  StatusesAgree'
  BY <1>4 DEF Ends, TypeOK, Terminal
<1>5. ASSUME NEW t \in Task, NeverRuns(t) PROVE StatusesAgree'
  BY <1>5 DEF NeverRuns, TypeOK
<1>6. QED
  BY <1>1, <1>2, <1>3, <1>4, <1>5 DEF Effect

LEMMA SlotsStep ==
  ASSUME TypeOK, ActiveHaveSlots, SlotsMatchExecutions, Effect
  PROVE  ActiveHaveSlots' /\ SlotsMatchExecutions'
<1> USE DEF TypeOK, ActiveHaveSlots, SlotsMatchExecutions, Active
<1> DEFINE Goal == ActiveHaveSlots' /\ SlotsMatchExecutions'
<1>1. ASSUME UNCHANGED <<execSlot, slotStatus>>,
             \A t \in Task : Active(t)' <=> Active(t)
      PROVE  Goal
  BY <1>1
<1>2. CASE Stays \/ \E t \in Task : NeverRuns(t)
  BY <1>1, <1>2 DEF Stays, NeverRuns
<1>3. ASSUME NEW t \in Task, NEW s \in Slot, Seats(t, s) PROVE Goal
  <2>1. \A u \in Task : Active(u) => execSlot[u] # s
    BY <1>3 DEF Seats, Suits
  <2>2. /\ Active(t)' /\ execSlot'[t] = s
        /\ \A u \in Task \ {t} : (Active(u)' <=> Active(u)) /\ execSlot'[u] = execSlot[u]
    BY <1>3 DEF Seats
  <2>3. ~Active(t)
    BY <1>3 DEF Seats
  <2>4. slotStatus'[s] = "busy" /\ \A r \in Slot \ {s} : slotStatus'[r] = slotStatus[r]
    BY <1>3 DEF Seats
  <2>5. ActiveHaveSlots'
    BY <2>2
  <2>6. ASSUME NEW r \in Slot
        PROVE  slotStatus'[r] = "busy" <=> \E u \in Task : Active(u)' /\ execSlot'[u] = r
    <3>1. CASE r = s
      BY <2>2, <2>4, <3>1
    <3>2. CASE r # s
      <4>1. slotStatus'[r] = "busy" <=> \E u \in Task : Active(u) /\ execSlot[u] = r
        BY <2>4, <3>2
      <4>2. ASSUME NEW u \in Task
            PROVE  (Active(u) /\ execSlot[u] = r) <=> (Active(u)' /\ execSlot'[u] = r)
        BY <2>2, <2>3, <3>2
      <4>3. QED
        BY <4>1, <4>2
    <3>3. QED
      BY <3>1, <3>2
  <2>7. ASSUME NEW u \in Task, NEW v \in Task, Active(u)', Active(v)',
               execSlot'[u] = execSlot'[v]
        PROVE  u = v
    <3>1. CASE u = t \/ v = t
      BY <2>1, <2>2, <2>7, <3>1
    <3>2. CASE u # t /\ v # t
      <4>1. Active(u) /\ Active(v) /\ execSlot[u] = execSlot[v]
        BY <2>2, <2>7, <3>2
      <4>2. QED
        BY <4>1
    <3>3. QED
      BY <3>1, <3>2
  <2>8. QED
    BY <2>5, <2>6, <2>7
<1>4. ASSUME NEW t \in Task, NEW status \in TaskStatus, Moves(t, status) PROVE Goal
  BY <1>1, <1>4 DEF Moves
<1>5. ASSUME NEW t \in Task, NEW status \in TaskStatus, Ends(t, status) PROVE Goal
  <2>1. /\ Active(t) /\ ~Active(t)'
        /\ \A u \in Task \ {t} : Active(u)' <=> Active(u)
        /\ execSlot' = execSlot
    BY <1>5 DEF Ends, Terminal
  <2>2. /\ slotStatus'[execSlot[t]] = "available"
        /\ \A r \in Slot \ {execSlot[t]} : slotStatus'[r] = slotStatus[r]
    BY <1>5 DEF Ends
  <2>3. ActiveHaveSlots'
    BY <2>1
  <2>4. ASSUME NEW r \in Slot
        PROVE  slotStatus'[r] = "busy" <=> \E u \in Task : Active(u)' /\ execSlot'[u] = r
    <3>1. CASE r = execSlot[t]
      <4>1. ASSUME NEW u \in Task, Active(u)' PROVE execSlot'[u] # r
        <5>1. u # t
          BY <2>1, <4>1
        <5>2. Active(u) /\ Active(t)
          BY <2>1, <4>1, <5>1
        <5>3. QED
          BY <2>1, <3>1, <5>1, <5>2
      <4>2. QED
        BY <2>2, <3>1, <4>1
    <3>2. CASE r # execSlot[t]
      <4>1. slotStatus'[r] = "busy" <=> \E u \in Task : Active(u) /\ execSlot[u] = r
        BY <2>2, <3>2
      <4>2. ASSUME NEW u \in Task
            PROVE  (Active(u) /\ execSlot[u] = r) <=> (Active(u)' /\ execSlot'[u] = r)
        BY <2>1, <3>2
      <4>3. QED
        BY <4>1, <4>2
    <3>3. QED
      BY <3>1, <3>2
  <2>5. ASSUME NEW u \in Task, NEW v \in Task, Active(u)', Active(v)',
               execSlot'[u] = execSlot'[v]
        PROVE  u = v
    <3>1. u # t /\ v # t
      BY <2>1, <2>5
    <3>2. Active(u) /\ Active(v) /\ execSlot[u] = execSlot[v]
      BY <2>1, <2>5, <3>1
    <3>3. QED
      BY <3>2
  <2>6. QED
    BY <2>3, <2>4, <2>5
<1>6. QED
  BY <1>2, <1>3, <1>4, <1>5 DEF Effect

LEMMA BusyFinite ==
  ASSUME NEW o \in Org
  PROVE  IsFiniteSet(BusySlots(o)) /\ Cardinality(BusySlots(o)) \in Nat
BY SlotsFinite, FS_Subset, FS_CardinalityType DEF BusySlots

LEMMA PlanLimitStep ==
  ASSUME TypeOK, ActiveHaveSlots, PlanLimitHeld, Effect
  PROVE  PlanLimitHeld'
<1>1. SUFFICES ASSUME NEW o \in Org
               PROVE  Cardinality(BusySlots(o)') <= MaxConcurrentSlots[o]
  BY DEF PlanLimitHeld, BusySlots
<1> DEFINE Before == BusySlots(o)
           After  == BusySlots(o)'
<1>2. /\ IsFiniteSet(Before) /\ Cardinality(Before) \in Nat
      /\ Cardinality(Before) <= MaxConcurrentSlots[o]
      /\ MaxConcurrentSlots[o] \in Nat
  BY BusyFinite, ColumnTypes DEF PlanLimitHeld
<1>3. ASSUME After \subseteq Before
      PROVE  Cardinality(After) <= MaxConcurrentSlots[o]
  <2>1. Cardinality(After) <= Cardinality(Before) /\ IsFiniteSet(After)
    BY <1>2, <1>3, FS_Subset
  <2>2. Cardinality(After) \in Nat
    BY <2>1, FS_CardinalityType
  <2>3. QED
    BY <1>2, <2>1, <2>2
<1>4. ASSUME NEW t \in Task, NEW s \in Slot, Seats(t, s)
      PROVE  Cardinality(After) <= MaxConcurrentSlots[o]
  <2>1. CASE SlotOrg[s] # o
    <3>1. After \subseteq Before
      BY <1>4, <2>1 DEF Seats, BusySlots, TypeOK
    <3>2. QED
      BY <1>3, <3>1
  <2>2. CASE SlotOrg[s] = o
    <3>1. After = Before \cup {s} /\ s \notin Before
      BY <1>4, <2>2 DEF Seats, Suits, BusySlots, TypeOK
    <3>2. Cardinality(After) = Cardinality(Before) + 1
      BY <1>2, <3>1, FS_AddElement
    <3>3. Cardinality(Before) < MaxConcurrentSlots[o]
      BY <1>4, <2>2 DEF Seats, Suits, UnderLimit
    <3>4. QED
      BY <1>2, <3>2, <3>3
  <2>3. QED
    BY <2>1, <2>2
<1>5. CASE \/ Stays \/ \E t \in Task : NeverRuns(t)
           \/ \E t \in Task, status \in TaskStatus : Moves(t, status) \/ Ends(t, status)
  <2>1. After \subseteq Before
    BY <1>5 DEF Stays, NeverRuns, Moves, Ends, BusySlots, TypeOK, ActiveHaveSlots
  <2>2. QED
    BY <1>3, <2>1
<1>6. QED
  BY <1>4, <1>5 DEF Effect

LEMMA InductiveInit == Init => IInv
<1> SUFFICES ASSUME Init PROVE IInv
  OBVIOUS
<1>1. TypeOK /\ RequestsInChain
  BY TypeInit
<1>2. WorkersKnow /\ StatusesAgree /\ ActiveHaveSlots /\ SlotsMatchExecutions
  BY DEF Init, WorkersKnow, StatusesAgree, ActiveHaveSlots, SlotsMatchExecutions, Active
<1>3. PlanLimitHeld
  <2>1. \A o \in Org : BusySlots(o) = {}
    BY DEF Init, BusySlots
  <2>2. \A o \in Org : 0 <= MaxConcurrentSlots[o]
    BY ColumnTypes
  <2>3. Cardinality({}) = 0
    BY FS_EmptySet
  <2>4. QED
    BY <2>1, <2>2, <2>3, Zenon DEF PlanLimitHeld
<1>4. QED
  BY <1>1, <1>2, <1>3 DEF IInv

LEMMA InductiveStep == IInv /\ [Next]_vars => IInv'
<1> SUFFICES ASSUME IInv, [Next]_vars PROVE IInv'
  OBVIOUS
<1>1. TypeOK' /\ RequestsInChain' /\ WorkersKnow'
  BY TypeStep, RequestsStep, WorkersStep DEF IInv
<1>2. Effect
  BY EveryStepHasAnEffect DEF IInv
<1>3. StatusesAgree' /\ ActiveHaveSlots' /\ SlotsMatchExecutions' /\ PlanLimitHeld'
  BY <1>2, StatusesStep, SlotsStep, PlanLimitStep DEF IInv
<1>4. QED
  BY <1>1, <1>3 DEF IInv

LEMMA Invariance == Spec => []IInv
  BY InductiveInit, InductiveStep, PTL DEF Spec

(* No slot leaks and none is shared, however many workers, cancellations,  *)
(* decisions, timeouts, crashes and expired leases interleave.             *)
THEOREM SlotsAreSafe == Spec => []SlotsMatchExecutions
<1>1. IInv => SlotsMatchExecutions
  BY DEF IInv
<1>2. QED
  BY <1>1, Invariance, PTL

(* No organization ever has more busy slots than its plan allows.          *)
THEOREM PlanLimitIsSafe == Spec => []PlanLimitHeld
<1>1. IInv => PlanLimitHeld
  BY DEF IInv
<1>2. QED
  BY <1>1, Invariance, PTL

(* tasks.status and task_executions.status agree in every reachable state. *)
THEOREM StatusesAlwaysAgree == Spec => []StatusesAgree
<1>1. IInv => StatusesAgree
  BY DEF IInv
<1>2. QED
  BY <1>1, Invariance, PTL

LEMMA EndedTasksStay ==
  ASSUME IInv, [Next]_vars, NEW t \in Task, taskStatus[t] \in Terminal
  PROVE  taskStatus'[t] = taskStatus[t]
<1>1. ~Active(t) /\ taskStatus[t] # "queued"
  BY DEF IInv, StatusesAgree, Active, Terminal
<1>2. Effect
  BY EveryStepHasAnEffect DEF IInv
<1>3. QED
  BY <1>1, <1>2 DEF Effect, Stays, Seats, Moves, Ends, NeverRuns, IInv, TypeOK

(* A completed, failed or cancelled task keeps that status for ever.       *)
THEOREM EndsAreFinal == Spec => TaskEndIsFinal
<1> DEFINE Final == \A t \in Task :
                      taskStatus[t] \in Terminal => taskStatus'[t] = taskStatus[t]
<1>1. IInv /\ [Next]_vars => [Final]_vars
  BY EndedTasksStay
<1>2. QED
  BY <1>1, Invariance, PTL DEF Spec, TaskEndIsFinal

-----------------------------------------------------------------------------
(* AgentHub implements SlotPool                                            *)

HolderKnown ==
  /\ \A t \in Task : Active(t) => Holder(execSlot[t]) = t
  /\ \A s \in Slot : Holder(s) # NoTask =>
       Holder(s) \in Task /\ Active(Holder(s)) /\ execSlot[Holder(s)] = s
  /\ \A s \in Slot : slotStatus[s] = "busy" <=> Holder(s) # NoTask

LEMMA HolderIsKnown == IInv => HolderKnown
<1> SUFFICES ASSUME IInv PROVE HolderKnown
  OBVIOUS
<1> USE NullValues DEF IInv
<1>1. ASSUME NEW s \in Slot, \E t \in Task : Active(t) /\ execSlot[t] = s
      PROVE  Holder(s) \in Task /\ Active(Holder(s)) /\ execSlot[Holder(s)] = s
  BY <1>1 DEF Holder
<1>2. ASSUME NEW s \in Slot, ~ \E t \in Task : Active(t) /\ execSlot[t] = s
      PROVE  Holder(s) = NoTask
  BY <1>2 DEF Holder
<1>3. ASSUME NEW t \in Task, Active(t) PROVE Holder(execSlot[t]) = t
  <2>1. execSlot[t] \in Slot
    BY <1>3 DEF ActiveHaveSlots
  <2>2. /\ Holder(execSlot[t]) \in Task /\ Active(Holder(execSlot[t]))
        /\ execSlot[Holder(execSlot[t])] = execSlot[t]
    BY <1>1, <1>3, <2>1
  <2>3. QED
    BY <1>3, <2>2 DEF SlotsMatchExecutions
<1>4. QED
  BY <1>1, <1>2, <1>3 DEF HolderKnown, SlotsMatchExecutions

LEMMA PoolInit == Init => Pool!Init
<1> SUFFICES ASSUME Init PROVE Pool!Init
  OBVIOUS
<1>1. \A s \in Slot : Holder(s) = NoTask
  BY DEF Holder, Init, Active
<1>2. Served = {}
  BY DEF Served, Init
<1>3. QED
  BY <1>1, <1>2 DEF Pool!Init, HolderOf

LEMMA PoolStep ==
  ASSUME IInv, IInv', HolderKnown, HolderKnown', Effect
  PROVE  Pool!Next \/ UNCHANGED <<HolderOf, Served>>
<1> USE NullValues DEF IInv, TypeOK
<1>1. ASSUME \A t \in Task : Active(t)' <=> Active(t),
             \A t \in Task : execStatus'[t] = "none" <=> execStatus[t] = "none",
             UNCHANGED <<execSlot, slotStatus>>
      PROVE  UNCHANGED <<HolderOf, Served>>
  <2>1. ASSUME NEW s \in Slot PROVE Holder(s)' = Holder(s)
    <3>1. CASE Holder(s) # NoTask
      <4>1. PICK t \in Task : t = Holder(s) /\ Active(t) /\ execSlot[t] = s
        BY <3>1 DEF HolderKnown
      <4>2. Active(t)' /\ execSlot'[t] = s
        BY <1>1, <4>1
      <4>3. QED
        BY <4>1, <4>2 DEF HolderKnown
    <3>2. CASE Holder(s) = NoTask
      BY <1>1, <3>2 DEF HolderKnown
    <3>3. QED
      BY <3>1, <3>2
  <2>2. QED
    BY <1>1, <2>1 DEF HolderOf, Served
<1>2. CASE Stays \/ \E t \in Task : NeverRuns(t)
  BY <1>1, <1>2 DEF Stays, NeverRuns, Active
<1>3. ASSUME NEW t \in Task, NEW status \in TaskStatus, Moves(t, status)
      PROVE  UNCHANGED <<HolderOf, Served>>
  BY <1>1, <1>3 DEF Moves, Active
<1>4. ASSUME NEW t \in Task, NEW s \in Slot, Seats(t, s) PROVE Pool!Next
  <2>1. Holder(s) = NoTask /\ t \notin Served /\ <<s, t>> \in FittingSlots
    BY <1>4 DEF Seats, Suits, HolderKnown, Served, FittingSlots
  <2>2. Cardinality(Pool!Held(SlotOrg[s])) < MaxConcurrentSlots[SlotOrg[s]]
    <3>1. Pool!Held(SlotOrg[s]) = BusySlots(SlotOrg[s])
      BY DEF Pool!Held, HolderOf, HolderKnown, BusySlots
    <3>2. QED
      BY <1>4, <3>1 DEF Seats, Suits, UnderLimit
  <2>3. Holder(s)' = t
    BY <1>4 DEF Seats, Active, HolderKnown
  <2>4. ASSUME NEW r \in Slot, r # s PROVE Holder(r)' = Holder(r)
    <3>1. CASE Holder(r) # NoTask
      <4>1. PICK u \in Task : u = Holder(r) /\ u # t /\ Active(u) /\ execSlot[u] = r
        BY <1>4, <3>1 DEF HolderKnown, Seats, Active
      <4>2. Active(u)' /\ execSlot'[u] = r
        BY <1>4, <4>1 DEF Seats, Active
      <4>3. QED
        BY <4>1, <4>2 DEF HolderKnown
    <3>2. CASE Holder(r) = NoTask
      BY <1>4, <2>4, <3>2 DEF HolderKnown, Seats
    <3>3. QED
      BY <3>1, <3>2
  <2>5. HolderOf' = [HolderOf EXCEPT ![s] = t]
    BY <2>3, <2>4 DEF HolderOf
  <2>6. Served' = Served \cup {t}
    BY <1>4 DEF Served, Seats
  <2>7. HolderOf[s] = NoTask
    BY <2>1 DEF HolderOf
  <2>8. Pool!Reserve(s, t)
    <3>1. \A S : Pool!Cardinality(S) = Cardinality(S)
      BY DEF Pool!Cardinality, Cardinality
    <3>2. QED
      BY <2>1, <2>2, <2>5, <2>6, <2>7, <3>1 DEF Pool!Reserve
  <2>9. QED
    BY <2>8 DEF Pool!Next
<1>5. ASSUME NEW t \in Task, NEW status \in TaskStatus, Ends(t, status)
      PROVE  Pool!Next
  <2>1. PICK s \in Slot : s = execSlot[t] /\ Holder(s) = t
    BY <1>5 DEF Ends, ActiveHaveSlots, HolderKnown
  <2>2. Holder(s)' = NoTask
    BY <1>5, <2>1 DEF Ends, HolderKnown
  <2>3. ASSUME NEW r \in Slot, r # s PROVE Holder(r)' = Holder(r)
    <3>1. CASE Holder(r) # NoTask
      <4>1. PICK u \in Task : u = Holder(r) /\ u # t /\ Active(u) /\ execSlot[u] = r
        BY <2>1, <2>3, <3>1 DEF HolderKnown
      <4>2. Active(u)' /\ execSlot'[u] = r
        BY <1>5, <4>1 DEF Ends, Active
      <4>3. QED
        BY <4>1, <4>2 DEF HolderKnown
    <3>2. CASE Holder(r) = NoTask
      BY <1>5, <2>3, <3>2 DEF HolderKnown, Ends
    <3>3. QED
      BY <3>1, <3>2
  <2>4. HolderOf' = [HolderOf EXCEPT ![s] = NoTask]
    BY <2>1, <2>2, <2>3 DEF HolderOf
  <2>5. Served' = Served
    BY <1>5 DEF Served, Ends, Active, Terminal
  <2>6. HolderOf[s] # NoTask
    BY <2>1 DEF HolderOf
  <2>7. Pool!Release(s)
    BY <2>4, <2>5, <2>6 DEF Pool!Release
  <2>8. QED
    BY <2>1, <2>7 DEF Pool!Next
<1>6. QED
  BY <1>2, <1>3, <1>4, <1>5 DEF Effect

(* AgentHub implements SlotPool: every transaction reserves a free, fitting*)
(* slot within the plan's limit for a task that never had one, releases a  *)
(* slot, or leaves the pool alone.                                         *)
THEOREM ImplementsPool == Spec => PoolSpec
<1>1. IInv /\ HolderKnown /\ IInv' /\ HolderKnown' /\ [Next]_vars
        => [Pool!Next]_<<HolderOf, Served>>
  BY EveryStepHasAnEffect, PoolStep DEF IInv
<1>2. QED
  BY <1>1, PoolInit, HolderIsKnown, Invariance, PTL DEF Spec, PoolSpec, Pool!Spec
-----------------------------------------------------------------------------
(* AgentHub implements TaskLife                                            *)

LEMMA LifeInit == Init => Life!Init
  BY DEF Init, Life!Init, Seated, SeatOf, Active

LEMMA LifeStep ==
  ASSUME IInv, IInv', Effect
  PROVE  Life!Next \/ UNCHANGED <<taskStatus, Seated>>
<1> USE NullValues DEF IInv, TypeOK
<1>1. ASSUME NEW t \in Task,
             \A u \in Task \ {t} : execStatus'[u] = execStatus[u] /\ execSlot'[u] = execSlot[u]
      PROVE  Seated' = [Seated EXCEPT ![t] = SeatOf(t)']
  BY <1>1 DEF Seated, SeatOf, Active
<1>2. CASE Stays
  BY <1>2 DEF Stays, Seated, SeatOf, Active
<1>3. ASSUME NEW t \in Task, NEW s \in Slot, Seats(t, s) PROVE Life!Next
  <2>1. \A u \in Task : Seated[u] # s
    <3>1. ~ \E u \in Task : Active(u) /\ execSlot[u] = s
      BY <1>3 DEF Seats, Suits, SlotsMatchExecutions
    <3>2. QED
      BY <3>1 DEF Seated, SeatOf
  <2>2. SeatOf(t)' = s
    BY <1>3 DEF Seats, SeatOf, Active
  <2>3. Seated' = [Seated EXCEPT ![t] = s]
    BY <1>1, <1>3, <2>2 DEF Seats
  <2>4. Life!Start(t, s)
    BY <1>3, <2>1, <2>3 DEF Seats, Life!Start, Life!Become
  <2>5. QED
    BY <2>4 DEF Life!Next
<1>4. ASSUME NEW t \in Task, NEW status \in TaskStatus, Moves(t, status)
      PROVE  Life!Next \/ UNCHANGED <<taskStatus, Seated>>
  <2>1. UNCHANGED Seated
    BY <1>4 DEF Moves, Seated, SeatOf, Active
  <2>2. taskStatus[t] = execStatus[t]
    BY <1>4 DEF Moves, Active, StatusesAgree
  <2>3. CASE taskStatus[t] = status
    BY <1>4, <2>1, <2>3 DEF Moves
  <2>4. CASE taskStatus[t] # status
    <3>1. Life!Park(t) \/ Life!Resume(t)
      BY <1>4, <2>1, <2>2, <2>4 DEF Moves, Active, Life!Park, Life!Resume, Life!Become
    <3>2. QED
      BY <3>1 DEF Life!Next
  <2>5. QED
    BY <2>3, <2>4
<1>5. ASSUME NEW t \in Task, NEW status \in TaskStatus, Ends(t, status) PROVE Life!Next
  <2>1. SeatOf(t)' = NoSlot
    BY <1>5 DEF Ends, SeatOf, Active, Terminal
  <2>2. Seated' = [Seated EXCEPT ![t] = NoSlot]
    BY <1>1, <1>5, <2>1 DEF Ends
  <2>3. taskStatus[t] \in {"running", "awaiting_approval"}
    BY <1>5 DEF Ends, Active, StatusesAgree
  <2>4. Life!Complete(t) \/ Life!Fail(t) \/ Life!Cancel(t)
    BY <1>5, <2>2, <2>3
       DEF Ends, Terminal, Life!Complete, Life!Fail, Life!Cancel, Life!Become, Life!Leave
  <2>5. QED
    BY <2>4 DEF Life!Next
<1>6. ASSUME NEW t \in Task, NeverRuns(t) PROVE Life!Next
  <2>1. Seated' = [Seated EXCEPT ![t] = NoSlot]
    BY <1>1, <1>6 DEF NeverRuns, SeatOf, Active
  <2>2. Life!Cancel(t)
    BY <1>6, <2>1 DEF NeverRuns, Life!Cancel, Life!Become, Life!Leave
  <2>3. QED
    BY <2>2 DEF Life!Next
<1>7. QED
  BY <1>2, <1>3, <1>4, <1>5, <1>6 DEF Effect

(* AgentHub implements TaskLife: every transaction is one step in the life *)
(* of one task, or none that its client could see.                         *)
THEOREM ImplementsTaskLife == Spec => LifeSpec
<1>1. IInv /\ IInv' /\ [Next]_vars => [Life!Next]_<<taskStatus, Seated>>
  BY EveryStepHasAnEffect, LifeStep DEF IInv
<1>2. QED
  BY <1>1, LifeInit, Invariance, PTL DEF Spec, LifeSpec, Life!Spec
=============================================================================
