------------------------------ MODULE CallProofs ------------------------------
(***************************************************************************)
(* The calls of a task and their approval, proved for every set of tasks,  *)
(* calls and workers and every approval chain.                             *)
(*                                                                         *)
(* First the gate, with leases that may run out under a working goroutine  *)
(* or not: GateInv and IInv together are inductive, because each           *)
(* transaction has one of six effects on calls and requests, and each      *)
(* effect preserves GateInv.                                               *)
(*                                                                         *)
(* Then what holds where two minutes suffice from one renewal of a lease   *)
(* to the next (StepsFitLease): one goroutine works on a task, its calls   *)
(* run in order, exactly the completed ones are billed, and the journal    *)
(* tells every change.  The argument is OrderInv, on top of the former.    *)
(***************************************************************************)
EXTENDS AgentHubProofs

-----------------------------------------------------------------------------
(* The effects                                                             *)

ToolsStay ==
  \A w \in Worker : pc'[w] = "tool" => pc[w] = "tool" /\ calling'[w] = calling[w]

(* Nothing happens to calls and requests; a parked task stays parked where *)
(* it is or is cancelled, and a failed or cancelled one stays as it is.    *)
Idles ==
  /\ UNCHANGED <<callStatus, reqStatus, reqStep, decisions>>
  /\ ToolsStay
  /\ \A t \in Task :
       /\ execStatus[t] = "awaiting_approval" =>
            execStatus'[t] \in {"awaiting_approval", "cancelled"}
       /\ execStatus[t] \in {"failed", "cancelled"} => execStatus'[t] = execStatus[t]
       /\ execStatus'[t] = "awaiting_approval" =>
            execStatus[t] = "awaiting_approval" /\ callIndex'[t] = callIndex[t]

(* A call that is let in is started, completes or fails. *)
Runs(c, status) ==
  /\ status \in {"executing", "completed", "failed"}
  /\ execStatus[TaskOf[c]] = "running"
  /\ reqStatus[c] # "pending"
  /\ Gated(c) => reqStatus[c] = "approved"
  /\ callStatus' = [callStatus EXCEPT ![c] = status]
  /\ UNCHANGED <<execStatus, reqStatus, reqStep, decisions>>
  /\ \A t \in Task : execStatus[t] # "running" => callIndex'[t] = callIndex[t]
  /\ \A w \in Worker : pc'[w] = "tool" =>
       calling'[w] = c \/ (pc[w] = "tool" /\ calling'[w] = calling[w])

(* The request of a call is raised and its task parked. *)
Raises(c) ==
  /\ execStatus[TaskOf[c]] = "running"
  /\ OrderIndex[c] = callIndex[TaskOf[c]]
  /\ callStatus[c] = "pending"
  /\ callStatus' = [callStatus EXCEPT ![c] = "awaiting_approval"]
  /\ reqStatus' = [reqStatus EXCEPT ![c] = "pending"]
  /\ reqStep' = [reqStep EXCEPT ![c] = 1]
  /\ execStatus' = [execStatus EXCEPT ![TaskOf[c]] = "awaiting_approval"]
  /\ UNCHANGED <<decisions, callIndex>>
  /\ ToolsStay

Answer(c, role, decision) == [step |-> reqStep[c], role |-> role, decision |-> decision]

(* The step of a request is approved or escalated, and another one follows.*)
Advances(c, role, decision) ==
  /\ reqStatus[c] = "pending"
  /\ HasNext(c)
  /\ \/ decision = "approved" /\ role = StepOf(c).role
     \/ decision = "timeout_escalated" /\ role = "system" /\ StepOf(c).onTimeout = "escalate"
  /\ decisions' = [decisions EXCEPT ![c] = Append(@, Answer(c, role, decision))]
  /\ reqStep' = [reqStep EXCEPT ![c] = @ + 1]
  /\ UNCHANGED <<callStatus, reqStatus, execStatus, callIndex, pc, calling>>

(* A parked task leaves its wait with the given status; any other stays.   *)
Leaves(t, status) ==
  execStatus' = IF execStatus[t] = "awaiting_approval"
                THEN [execStatus EXCEPT ![t] = status] ELSE execStatus

(* The last step is approved. *)
Approves(c, role) ==
  /\ reqStatus[c] = "pending"
  /\ ~HasNext(c)
  /\ role = StepOf(c).role
  /\ decisions' = [decisions EXCEPT ![c] = Append(@, Answer(c, role, "approved"))]
  /\ reqStatus' = [reqStatus EXCEPT ![c] = "approved"]
  /\ Leaves(TaskOf[c], "running")
  /\ UNCHANGED <<callStatus, reqStep, callIndex, pc, calling>>

(* The request is rejected, by a person or at its timeout. *)
Rejects(c, role, decision) ==
  /\ reqStatus[c] = "pending"
  /\ decisions' = [decisions EXCEPT ![c] = Append(@, Answer(c, role, decision))]
  /\ reqStatus' = [reqStatus EXCEPT ![c] = "rejected"]
  /\ callStatus' = [callStatus EXCEPT ![c] = "rejected"]
  /\ Leaves(TaskOf[c], "failed")
  /\ UNCHANGED <<reqStep, callIndex, pc, calling>>

GateEffect ==
  \/ Idles
  \/ \E c \in Call, status \in CallStatus : Runs(c, status)
  \/ \E c \in Call : Raises(c)
  \/ \E c \in Call, role \in Role \cup {"system"},
        d \in {"approved", "rejected", "timeout_escalated", "timeout_rejected"} :
       Advances(c, role, d) \/ Approves(c, role) \/ Rejects(c, role, d)

-----------------------------------------------------------------------------
(* Every step has one of the effects                                       *)

LEMMA ToolEntered ==
  ASSUME pc \in [Worker -> WorkerStep], calling \in [Worker -> Call \cup {NoCall}],
         NEW w \in Worker, NEW c \in Call,
         pc' = [pc EXCEPT ![w] = "tool"], calling' = [calling EXCEPT ![w] = c]
  PROVE  \A v \in Worker : pc'[v] = "tool" =>
           calling'[v] = c \/ (pc[v] = "tool" /\ calling'[v] = calling[v])
OBVIOUS

LEMMA WorkerGateEffect ==
  ASSUME IInv, GateInv, NEW w \in Worker, WorkerMoves(w)
  PROVE  GateEffect
<1> USE DEF IInv, TypeOK
<1>1. ASSUME NEW c \in Call, NEW status \in {"executing", "completed", "failed"},
             Runs(c, status)
      PROVE  GateEffect
  BY <1>1 DEF GateEffect, CallStatus
<1>2. ASSUME NextCallRaise(w) PROVE GateEffect
  <2>1. PICK c \in Current(claimed[w]) :
          /\ Verdict(c) = "raise"
          /\ reqStatus' = [reqStatus EXCEPT ![c] = "pending"]
          /\ reqStep' = [reqStep EXCEPT ![c] = 1]
          /\ callStatus' = [callStatus EXCEPT ![c] = "awaiting_approval"]
    BY <1>2 DEF NextCallRaise
  <2>2. c \in Call /\ TaskOf[c] = claimed[w] /\ OrderIndex[c] = callIndex[claimed[w]]
    BY DEF Current
  <2>3. callStatus[c] = "pending"
    BY <2>1, <2>2 DEF Verdict
  <2>4. /\ execStatus[claimed[w]] = "running"
        /\ execStatus' = [execStatus EXCEPT ![claimed[w]] = "awaiting_approval"]
        /\ UNCHANGED <<decisions, callIndex>>
    BY <1>2 DEF NextCallRaise, StillRunning
  <2>5. ToolsStay
    BY <1>2 DEF NextCallRaise, ToolsStay, GiveUp, GoTo
  <2>6. Raises(c)
    BY <2>1, <2>2, <2>3, <2>4, <2>5 DEF Raises
  <2>7. QED
    BY <2>2, <2>6 DEF GateEffect
<1>3. ASSUME NextCallRun(w) PROVE GateEffect
  <2>1. PICK c \in Current(claimed[w]) :
          /\ Verdict(c) = "run"
          /\ callStatus' = [callStatus EXCEPT ![c] = "executing"]
          /\ calling' = [calling EXCEPT ![w] = c]
    BY <1>3 DEF NextCallRun
  <2>2. c \in Call /\ TaskOf[c] = claimed[w] /\ execStatus[TaskOf[c]] = "running"
    BY <1>3 DEF Current, NextCallRun, StillRunning
  <2>3. CallAwaitsRequest(c)
    BY <2>2 DEF GateInv
  <2>4. callStatus[c] # "completed" /\ callStatus[c] # "rejected"
    BY <2>1, <2>2, <2>3 DEF Verdict, CallAwaitsRequest
  <2>5. reqStatus[c] # "pending" /\ (Gated(c) => reqStatus[c] = "approved")
    <3>1. CASE callStatus[c] = "awaiting_approval"
      BY <2>1, <3>1 DEF Verdict
    <3>2. CASE callStatus[c] = "pending"
      BY <2>1, <2>3, <3>2 DEF Verdict, CallAwaitsRequest, Gated
    <3>3. CASE Started(c)
      BY <2>3, <3>3 DEF CallAwaitsRequest, Started
    <3>4. QED
      BY <2>2, <2>4, <3>1, <3>2, <3>3 DEF Started, CallStatus
  <2>6. UNCHANGED <<execStatus, callIndex, reqStatus, reqStep, decisions>>
    BY <1>3 DEF NextCallRun, reqVars
  <2>7. \A v \in Worker : pc'[v] = "tool" =>
          calling'[v] = c \/ (pc[v] = "tool" /\ calling'[v] = calling[v])
    <3>1. pc \in [Worker -> WorkerStep] /\ calling \in [Worker -> Call \cup {NoCall}]
      OBVIOUS
    <3>2. pc' = [pc EXCEPT ![w] = "tool"] /\ calling' = [calling EXCEPT ![w] = c]
      BY <1>3, <2>1 DEF NextCallRun, GoTo
    <3>3. QED
      BY <3>1, <3>2, ToolEntered
  <2>8. Runs(c, "executing")
    BY <2>1, <2>2, <2>5, <2>6, <2>7 DEF Runs
  <2>9. QED
    BY <1>1, <2>2, <2>8
<1>4. ASSUME NEW status \in {"completed", "failed"}, pc[w] = "tool",
             StillRunning(claimed[w]),
             callStatus' = [callStatus EXCEPT ![calling[w]] = status],
             UNCHANGED <<execStatus, reqVars>>,
             \A t \in Task \ {claimed[w]} : callIndex'[t] = callIndex[t],
             \A v \in Worker : pc'[v] = "tool" => pc[v] = "tool" /\ calling'[v] = calling[v]
      PROVE  GateEffect
  <2>1. calling[w] \in Call /\ TaskOf[calling[w]] = claimed[w] /\ Started(calling[w])
    BY <1>4 DEF WorkersKnow, GateInv
  <2>2. CallAwaitsRequest(calling[w])
    BY <2>1 DEF GateInv
  <2>3. Runs(calling[w], status)
    BY <1>4, <2>1, <2>2 DEF Runs, StillRunning, Started, CallAwaitsRequest, reqVars
  <2>4. QED
    BY <1>1, <2>1, <2>3
<1>5. ASSUME RecordSuccess(w) PROVE GateEffect
  <2>1. pc[w] = "tool" /\ StillRunning(claimed[w]) /\ claimed[w] \in Task
    BY <1>5 DEF RecordSuccess, WorkersKnow
  <2>2. /\ callStatus' = [callStatus EXCEPT ![calling[w]] = "completed"]
        /\ UNCHANGED <<execStatus, reqVars>>
    BY <1>5 DEF RecordSuccess
  <2>3. \A t \in Task \ {claimed[w]} : callIndex'[t] = callIndex[t]
    BY <1>5, <2>1 DEF RecordSuccess, Advance
  <2>4. \A v \in Worker : pc'[v] = "tool" => pc[v] = "tool" /\ calling'[v] = calling[v]
    BY <1>5 DEF RecordSuccess, GoTo
  <2>5. QED
    BY <1>4, <2>1, <2>2, <2>3, <2>4
<1>6. ASSUME RecordFailure(w) PROVE GateEffect
  <2>1. /\ pc[w] = "tool" /\ StillRunning(claimed[w])
        /\ callStatus' = [callStatus EXCEPT ![calling[w]] = "failed"]
        /\ UNCHANGED <<execStatus, callIndex, reqVars>>
    BY <1>6 DEF RecordFailure, execVars
  <2>2. \A v \in Worker : pc'[v] = "tool" => pc[v] = "tool" /\ calling'[v] = calling[v]
    BY <1>6 DEF RecordFailure, GoTo
  <2>3. QED
    BY <1>4, <2>1, <2>2
<1>7. ASSUME NEW t \in Task, NEW s \in Slot, ClaimQueued(w, t, s) PROVE GateEffect
  <2>1. execStatus[t] = "none"
    BY <1>7, QueuedHasNoExecution DEF ClaimQueued
  <2>2. Idles
    BY <1>7, <2>1 DEF ClaimQueued, Idles, ToolsStay, Take, GoTo, reqVars
  <2>3. QED
    BY <2>2 DEF GateEffect
<1>8. ASSUME NextCallPasses(w) PROVE GateEffect
  <2>1. claimed[w] \in Task /\ execStatus[claimed[w]] = "running"
    BY <1>8 DEF NextCallPasses, WorkersKnow, StillRunning
  <2>2. \A t \in Task \ {claimed[w]} : callIndex'[t] = callIndex[t]
    BY <1>8, <2>1 DEF NextCallPasses
  <2>3. ToolsStay
    BY <1>8 DEF NextCallPasses, GoTo, ToolsStay
  <2>4. Idles
    BY <1>8, <2>1, <2>2, <2>3 DEF NextCallPasses, Idles, reqVars
  <2>5. QED
    BY <2>4 DEF GateEffect
<1>9. ASSUME Finish(w) PROVE GateEffect
  <2>1. claimed[w] \in Task /\ execStatus[claimed[w]] = "running"
    BY <1>9 DEF Finish, Finishing, WorkersKnow, StillRunning
  <2>2. /\ execStatus' = [execStatus EXCEPT ![claimed[w]] = Outcome(w)]
        /\ Outcome(w) # "awaiting_approval"
    BY <1>9 DEF Finish, Outcome
  <2>3. ToolsStay /\ UNCHANGED <<callStatus, callIndex, reqVars>>
    BY <1>9 DEF Finish, GiveUp, GoTo, ToolsStay
  <2>4. Idles
    BY <2>1, <2>2, <2>3 DEF Idles, reqVars
  <2>5. QED
    BY <2>4 DEF GateEffect
<1>10. CASE \/ \E t \in Task : ClaimResumable(w, t)
            \/ ClaimResumableMiss(w) \/ ClaimQueuedMiss(w) \/ NextCallLeaves(w)
            \/ RecordAbandoned(w) \/ FinishAbandoned(w)
  <2>1. /\ UNCHANGED <<callStatus, reqVars, execStatus, callIndex>>
        /\ ToolsStay
    BY <1>10 DEF ClaimResumable, ClaimResumableMiss, ClaimQueuedMiss, NextCallLeaves,
       RecordAbandoned, FinishAbandoned, Take, GiveUp, GoTo, ToolsStay, execVars
  <2>2. QED
    BY <2>1 DEF Idles, reqVars, GateEffect
<1>11. QED
  BY <1>2, <1>3, <1>5, <1>6, <1>7, <1>8, <1>9, <1>10 DEF WorkerMoves

LEMMA ApprovalGateEffect ==
  ASSUME IInv, NEW c \in Call,
         \/ \E role \in Role : ApproveStep(c, role) \/ ApproveLast(c, role) \/ Reject(c, role)
         \/ DeadlinePasses(c) \/ SweepOne(c)
  PROVE  GateEffect
<1> USE DEF workerVars, execVars, Answer
<1>1. ASSUME NEW role \in Role \cup {"system"},
             NEW d \in {"approved", "rejected", "timeout_escalated", "timeout_rejected"},
             Advances(c, role, d) \/ Approves(c, role) \/ Rejects(c, role, d)
      PROVE  GateEffect
  BY <1>1 DEF GateEffect
<1>2. ASSUME NEW role \in Role, ApproveStep(c, role) PROVE GateEffect
  <2>1. Advances(c, role, "approved")
    BY <1>2 DEF ApproveStep, MayDecide, Decide, NextStep, Advances
  <2>2. QED
    BY <1>1, <2>1
<1>3. ASSUME NEW role \in Role, ApproveLast(c, role) PROVE GateEffect
  <2>1. Leaves(TaskOf[c], "running")
    BY <1>3 DEF ApproveLast, ResumeFlow, Leaves
  <2>2. Approves(c, role)
    BY <1>3, <2>1 DEF ApproveLast, MayDecide, Decide, ResumeFlow, CloseRequest, Approves
  <2>3. QED
    BY <1>1, <2>2
<1>4. ASSUME RejectFlow(c) PROVE Leaves(TaskOf[c], "failed")
  BY <1>4 DEF RejectFlow, Leaves
<1>5. ASSUME NEW role \in Role, Reject(c, role) PROVE GateEffect
  <2>1. Rejects(c, role, "rejected")
    BY <1>4, <1>5 DEF Reject, MayDecide, Decide, RejectFlow, CloseRequest, Rejects
  <2>2. QED
    BY <1>1, <2>1
<1>6. CASE SweepEscalate(c)
  <2>1. Advances(c, "system", "timeout_escalated")
    BY <1>6 DEF SweepEscalate, Expired, Escalates, Decide, NextStep, Advances
  <2>2. QED
    BY <1>1, <2>1
<1>7. CASE SweepReject(c)
  <2>1. Rejects(c, "system", "timeout_rejected")
    BY <1>4, <1>7 DEF SweepReject, Expired, Decide, RejectFlow, CloseRequest, Rejects
  <2>2. QED
    BY <1>1, <2>1
<1>8. CASE DeadlinePasses(c)
  BY <1>8 DEF DeadlinePasses, Idles, ToolsStay, GateEffect
<1>9. QED
  BY <1>2, <1>3, <1>5, <1>6, <1>7, <1>8 DEF SweepOne

LEMMA EveryStepHasAGateEffect ==
  ASSUME IInv, GateInv, [Next]_vars
  PROVE  GateEffect
<1> USE DEF IInv, TypeOK
<1>1. CASE UNCHANGED vars \/ \E t \in Task : LeaseExpires(t)
  BY <1>1 DEF vars, execVars, reqVars, workerVars, LeaseExpires, Idles, ToolsStay, GateEffect
<1>2. ASSUME NEW w \in Worker, Drop(w) PROVE GateEffect
  BY <1>2 DEF Drop, execVars, reqVars, GoTo, Idles, ToolsStay, GateEffect
<1>3. ASSUME NEW t \in Task, Cancel(t) PROVE GateEffect
  <2>1. UNCHANGED <<callStatus, reqVars, callIndex, pc, calling>>
    BY <1>3 DEF Cancel, workerVars
  <2>2. execStatus' = IF Active(t) THEN [execStatus EXCEPT ![t] = "cancelled"] ELSE execStatus
    BY <1>3 DEF Cancel, ReleaseExecution
  <2>3. Idles
    BY <2>1, <2>2 DEF Idles, ToolsStay, reqVars, Active
  <2>4. QED
    BY <2>3 DEF GateEffect
<1>4. QED
  BY <1>1, <1>2, <1>3, WorkerGateEffect, ApprovalGateEffect DEF Next

-----------------------------------------------------------------------------
(* Each effect preserves the gate                                          *)

LEMMA GateInit == Init => GateInv
<1> SUFFICES ASSUME Init PROVE GateInv
  OBVIOUS
<1>1. \A c \in Call : CallAwaitsRequest(c) /\ ChainIsWalked(c)
  BY DEF Init, CallAwaitsRequest, ChainIsWalked, Started
<1>2. \A t \in Task : TaskAwaitsRequest(t)
  BY DEF Init, TaskAwaitsRequest, PendingOf
<1>3. \A w \in Worker : pc[w] # "tool"
  BY DEF Init
<1>4. QED
  BY <1>1, <1>2, <1>3 DEF GateInv

LEMMA IdlesKeepsGate ==
  ASSUME TypeOK, WorkersKnow, GateInv, Idles
  PROVE  GateInv'
<1>1. ASSUME NEW c \in Call PROVE CallAwaitsRequest(c)'
  <2>1. CallAwaitsRequest(c) /\ TaskOf[c] \in Task
    BY ColumnTypes DEF GateInv
  <2>2. QED
    BY <2>1 DEF Idles, CallAwaitsRequest, Started
<1>2. ASSUME NEW c \in Call PROVE ChainIsWalked(c)'
  <2>1. ChainIsWalked(c)
    BY DEF GateInv
  <2>2. QED
    BY <2>1 DEF Idles, ChainIsWalked, Granted, Walked, DecidedWell
<1>3. ASSUME NEW t \in Task PROVE TaskAwaitsRequest(t)'
  <2>1. TaskAwaitsRequest(t)
    BY DEF GateInv
  <2>2. PendingOf(t)' = PendingOf(t)
    BY DEF Idles, PendingOf
  <2>3. QED
    BY <2>1, <2>2 DEF Idles, TaskAwaitsRequest
<1>4. \A w \in Worker : pc'[w] = "tool" => Started(calling[w])'
  BY DEF GateInv, Idles, ToolsStay, Started
<1>5. QED
  BY <1>1, <1>2, <1>3, <1>4 DEF GateInv, Started

LEMMA RunsKeepsGate ==
  ASSUME TypeOK, WorkersKnow, GateInv,
         NEW c \in Call, NEW status \in CallStatus, Runs(c, status)
  PROVE  GateInv'
<1>1. ASSUME NEW d \in Call PROVE CallAwaitsRequest(d)'
  <2>1. CallAwaitsRequest(d)
    BY DEF GateInv
  <2>2. CASE d = c
    BY <2>2 DEF TypeOK, Runs, CallAwaitsRequest
  <2>3. CASE d # c
    BY <2>1, <2>3 DEF TypeOK, Runs, CallAwaitsRequest, Started
  <2>4. QED
    BY <2>2, <2>3
<1>2. ASSUME NEW d \in Call PROVE ChainIsWalked(d)'
  <2>1. ChainIsWalked(d)
    BY DEF GateInv
  <2>2. QED
    BY <2>1 DEF Runs, ChainIsWalked, Granted, Walked, DecidedWell
<1>3. ASSUME NEW t \in Task PROVE TaskAwaitsRequest(t)'
  <2>1. TaskAwaitsRequest(t)
    BY DEF GateInv
  <2>2. PendingOf(t)' = PendingOf(t)
    BY DEF Runs, PendingOf
  <2>3. QED
    BY <2>1, <2>2 DEF Runs, TaskAwaitsRequest
<1>4. ASSUME NEW w \in Worker, pc'[w] = "tool" PROVE Started(calling[w])'
  <2>1. calling'[w] = c \/ (calling'[w] \in Call /\ Started(calling'[w]))
    BY <1>4 DEF Runs, GateInv, WorkersKnow
  <2>2. callStatus'[c] = status /\ \A d \in Call \ {c} : callStatus'[d] = callStatus[d]
    BY DEF Runs, TypeOK
  <2>3. QED
    BY <2>1, <2>2 DEF Runs, Started
<1>5. QED
  BY <1>1, <1>2, <1>3, <1>4 DEF GateInv

LEMMA RaisesKeepsGate ==
  ASSUME TypeOK, WorkersKnow, GateInv, NEW c \in Call, Raises(c)
  PROVE  GateInv'
<1> DEFINE u == TaskOf[c]
<1>1. /\ u \in Task /\ reqStatus[c] = "none" /\ decisions[c] = << >>
      /\ execStatus[u] = "running" /\ PendingOf(u) = {}
  <2>1. u \in Task
    BY ColumnTypes
  <2>2. CallAwaitsRequest(c) /\ ChainIsWalked(c) /\ TaskAwaitsRequest(u)
    BY <2>1 DEF GateInv
  <2>3. QED
    BY <2>1, <2>2 DEF Raises, CallAwaitsRequest, ChainIsWalked, TaskAwaitsRequest
<1>2. /\ callStatus'[c] = "awaiting_approval" /\ reqStatus'[c] = "pending" /\ reqStep'[c] = 1
      /\ \A d \in Call \ {c} : /\ callStatus'[d] = callStatus[d]
                               /\ reqStatus'[d] = reqStatus[d] /\ reqStep'[d] = reqStep[d]
      /\ execStatus'[u] = "awaiting_approval"
      /\ \A t \in Task \ {u} : execStatus'[t] = execStatus[t]
  BY <1>1 DEF Raises, TypeOK
<1>3. ASSUME NEW d \in Call PROVE CallAwaitsRequest(d)'
  <2>1. CallAwaitsRequest(d) /\ TaskOf[d] \in Task
    BY ColumnTypes DEF GateInv
  <2>2. QED
    BY <1>1, <1>2, <2>1 DEF CallAwaitsRequest, Started
<1>4. ASSUME NEW d \in Call PROVE ChainIsWalked(d)'
  <2>1. ChainIsWalked(d) /\ decisions' = decisions
    BY DEF GateInv, Raises
  <2>2. CASE d = c
    BY <1>1, <1>2, <2>1, <2>2 DEF ChainIsWalked, Walked
  <2>3. CASE d # c
    BY <1>2, <2>1, <2>3 DEF ChainIsWalked, Granted, Walked, DecidedWell
  <2>4. QED
    BY <2>2, <2>3
<1>5. ASSUME NEW t \in Task PROVE TaskAwaitsRequest(t)'
  <2>1. TaskAwaitsRequest(t)
    BY DEF GateInv
  <2>2. CASE t = u
    <3>1. PendingOf(u)' = {c}
      BY <1>1, <1>2 DEF PendingOf
    <3>2. QED
      BY <1>2, <2>2, <3>1 DEF Raises, TaskAwaitsRequest
  <2>3. CASE t # u
    <3>1. PendingOf(t)' = PendingOf(t)
      BY <1>2, <2>3 DEF PendingOf
    <3>2. QED
      BY <1>2, <2>1, <2>3, <3>1 DEF Raises, TaskAwaitsRequest
  <2>4. QED
    BY <2>2, <2>3
<1>6. ASSUME NEW w \in Worker, pc'[w] = "tool" PROVE Started(calling[w])'
  <2>1. calling'[w] \in Call /\ Started(calling'[w])
    BY <1>6 DEF Raises, ToolsStay, GateInv, WorkersKnow
  <2>2. QED
    BY <1>2, <2>1 DEF Raises, Started
<1>7. QED
  BY <1>3, <1>4, <1>5, <1>6 DEF GateInv

(* A decision at step n takes the walk along the chain to step n.          *)
LEMMA WalkedOn ==
  ASSUME TypeOK, RequestsInChain, NEW c \in Call, reqStatus[c] = "pending",
         Walked(c, reqStep[c] - 1), NEW role, NEW decision,
         \/ decision = "approved" /\ role = StepOf(c).role
         \/ /\ decision = "timeout_escalated" /\ role = "system"
            /\ StepOf(c).onTimeout = "escalate" /\ HasNext(c),
         decisions' = [decisions EXCEPT ![c] = Append(@, Answer(c, role, decision))],
         NEW n, n = reqStep[c]
  PROVE  Walked(c, n)'
<1>1. n \in 1 .. Len(ChainOf(c)) /\ Len(ChainOf(c)) \in Nat
  BY ChainType DEF RequestsInChain
<1>2. decisions[c] \in Seq(Decision) /\ Len(decisions[c]) = n - 1
  BY DEF TypeOK, Walked
<1>3. decisions'[c] = Append(decisions[c], Answer(c, role, decision))
  BY DEF TypeOK
<1>4. Len(decisions'[c]) = n /\ decisions'[c][n] = Answer(c, role, decision)
  BY <1>1, <1>2, <1>3
<1>5. \A i \in 1 .. n - 1 : decisions'[c][i] = decisions[c][i]
  BY <1>1, <1>2, <1>3
<1>6. ASSUME NEW i \in 1 .. n PROVE DecidedWell(c, i)'
  <2>1. CASE i = n
    BY <1>1, <1>4, <2>1 DEF DecidedWell, Answer, StepOf, HasNext
  <2>2. CASE i # n
    <3>1. i \in 1 .. n - 1
      BY <1>1, <2>2
    <3>2. DecidedWell(c, i)
      BY <3>1 DEF Walked
    <3>3. QED
      BY <1>5, <3>1, <3>2 DEF DecidedWell
  <2>3. QED
    BY <2>1, <2>2
<1>7. QED
  BY <1>4, <1>6 DEF Walked

LEMMA OtherWalksStay ==
  ASSUME TypeOK, GateInv, NEW c \in Call, NEW d \in Call, d # c, NEW answer,
         decisions' = [decisions EXCEPT ![c] = Append(@, answer)],
         reqStatus'[d] = reqStatus[d], reqStep'[d] = reqStep[d]
  PROVE  ChainIsWalked(d)'
<1>1. ChainIsWalked(d)
  BY DEF GateInv
<1>2. decisions'[d] = decisions[d]
  BY DEF TypeOK
<1>3. QED
  BY <1>1, <1>2 DEF ChainIsWalked, Granted, Walked, DecidedWell

LEMMA AdvancesKeepsGate ==
  ASSUME TypeOK, RequestsInChain, GateInv, NEW c \in Call, NEW role, NEW decision,
         Advances(c, role, decision)
  PROVE  GateInv'
<1>1. ASSUME NEW d \in Call PROVE CallAwaitsRequest(d)'
  BY DEF GateInv, Advances, CallAwaitsRequest, Started
<1>2. /\ reqStep[c] \in Nat /\ reqStep'[c] = reqStep[c] + 1 /\ reqStatus'[c] = "pending"
      /\ \A d \in Call \ {c} : reqStep'[d] = reqStep[d] /\ reqStatus'[d] = reqStatus[d]
  BY DEF Advances, TypeOK
<1>3. ChainIsWalked(c)'
  <2>1. Walked(c, reqStep[c] - 1)
    BY DEF GateInv, ChainIsWalked, Advances
  <2>2. \A n : n = reqStep[c] => Walked(c, n)'
    BY <2>1, WalkedOn DEF Advances
  <2>3. (reqStep[c] - 1)' = reqStep[c]
    BY <1>2
  <2>4. QED
    BY <1>2, <2>2, <2>3 DEF ChainIsWalked
<1>4. ASSUME NEW d \in Call, d # c PROVE ChainIsWalked(d)'
  BY <1>2, <1>4, OtherWalksStay DEF Advances
<1>5. ASSUME NEW t \in Task PROVE TaskAwaitsRequest(t)'
  <2>1. PendingOf(t)' = PendingOf(t)
    BY DEF Advances, PendingOf
  <2>2. QED
    BY <2>1 DEF GateInv, Advances, TaskAwaitsRequest
<1>6. \A w \in Worker : pc'[w] = "tool" => Started(calling[w])'
  BY DEF GateInv, Advances, Started
<1>7. QED
  BY <1>1, <1>3, <1>4, <1>5, <1>6 DEF GateInv

(* The last decision takes the task out of its wait, and no other request  *)
(* of the task is pending: it would be that of the same call.              *)
LEMMA LeavingKeepsTasks ==
  ASSUME TypeOK, GateInv, NEW c \in Call, reqStatus[c] = "pending",
         NEW status \in {"running", "failed"}, Leaves(TaskOf[c], status),
         NEW answer \in {"approved", "rejected"},
         reqStatus' = [reqStatus EXCEPT ![c] = answer],
         callIndex' = callIndex, NEW t \in Task
  PROVE  TaskAwaitsRequest(t)'
<1> DEFINE u == TaskOf[c]
<1>1. u \in Task /\ TaskAwaitsRequest(u) /\ TaskAwaitsRequest(t)
  BY ColumnTypes DEF GateInv
<1>2. c \in PendingOf(u)
  BY DEF PendingOf
<1>3. PendingOf(t)' = PendingOf(t) \ {c}
  BY DEF PendingOf, TypeOK
<1>4. CASE t = u /\ execStatus[u] = "awaiting_approval"
  <2>1. \A d \in PendingOf(u) : OrderIndex[d] = callIndex[u] /\ d \in Call /\ TaskOf[d] = u
    BY <1>1, <1>4 DEF TaskAwaitsRequest, PendingOf
  <2>2. PendingOf(u) = {c}
    BY <1>2, <2>1, CallsNumbered
  <2>3. execStatus'[t] = status
    BY <1>1, <1>4 DEF Leaves, TypeOK
  <2>4. QED
    BY <1>3, <1>4, <2>2, <2>3 DEF TaskAwaitsRequest
<1>5. CASE ~(t = u /\ execStatus[u] = "awaiting_approval")
  <2>1. execStatus'[t] = execStatus[t]
    BY <1>1, <1>5 DEF Leaves, TypeOK
  <2>2. c \in PendingOf(t) => execStatus[t] = "cancelled"
    BY <1>1, <1>5 DEF TaskAwaitsRequest, PendingOf
  <2>3. QED
    BY <1>1, <1>3, <2>1, <2>2 DEF TaskAwaitsRequest
<1>6. QED
  BY <1>4, <1>5

LEMMA LeavingKeepsEnds ==
  ASSUME TypeOK, NEW c \in Call, NEW status \in {"running", "failed"},
         Leaves(TaskOf[c], status), NEW t \in Task,
         execStatus[t] \in {"failed", "cancelled"}
  PROVE  execStatus'[t] = execStatus[t]
BY ColumnTypes DEF Leaves, TypeOK

LEMMA ApprovesKeepsGate ==
  ASSUME TypeOK, RequestsInChain, GateInv, NEW c \in Call, NEW role, Approves(c, role)
  PROVE  GateInv'
<1>1. /\ reqStatus'[c] = "approved"
      /\ \A d \in Call \ {c} : reqStatus'[d] = reqStatus[d]
  BY DEF Approves, TypeOK
<1>2. ASSUME NEW d \in Call PROVE CallAwaitsRequest(d)'
  <2>1. CallAwaitsRequest(d) /\ CallAwaitsRequest(c) /\ TaskOf[d] \in Task
    BY ColumnTypes DEF GateInv
  <2>2. callStatus[d] = "rejected" => execStatus'[TaskOf[d]] \in {"failed", "cancelled"}
    BY <2>1, LeavingKeepsEnds DEF CallAwaitsRequest, Approves
  <2>3. QED
    BY <1>1, <2>1, <2>2 DEF Approves, CallAwaitsRequest, Started
<1>3. ChainIsWalked(c)'
  <2>1. Walked(c, reqStep[c] - 1)
    BY DEF GateInv, ChainIsWalked, Approves
  <2>2. \A n : n = reqStep[c] => Walked(c, n)'
    BY <2>1, WalkedOn DEF Approves
  <2>3. reqStep[c] = Len(ChainOf(c))
    <3>1. reqStep[c] \in 1 .. Len(ChainOf(c)) /\ ~(reqStep[c] < Len(ChainOf(c)))
      BY DEF RequestsInChain, Approves, HasNext
    <3>2. Len(ChainOf(c)) \in Nat
      BY ChainType
    <3>3. QED
      BY <3>1, <3>2
  <2>4. QED
    BY <1>1, <2>2, <2>3 DEF ChainIsWalked, Granted
<1>4. ASSUME NEW d \in Call, d # c PROVE ChainIsWalked(d)'
  BY <1>1, <1>4, OtherWalksStay DEF Approves
<1>5. ASSUME NEW t \in Task PROVE TaskAwaitsRequest(t)'
  BY LeavingKeepsTasks DEF Approves
<1>6. \A w \in Worker : pc'[w] = "tool" => Started(calling[w])'
  BY DEF GateInv, Approves, Started
<1>7. QED
  BY <1>2, <1>3, <1>4, <1>5, <1>6 DEF GateInv

LEMMA RejectsKeepsGate ==
  ASSUME TypeOK, RequestsInChain, WorkersKnow, GateInv, NEW c \in Call,
         NEW role, NEW decision, Rejects(c, role, decision)
  PROVE  GateInv'
<1> DEFINE u == TaskOf[c]
<1>1. /\ reqStatus'[c] = "rejected" /\ callStatus'[c] = "rejected"
      /\ \A d \in Call \ {c} :
           reqStatus'[d] = reqStatus[d] /\ callStatus'[d] = callStatus[d]
  BY DEF Rejects, TypeOK
<1>2. u \in Task /\ CallAwaitsRequest(c) /\ TaskAwaitsRequest(u)
  BY ColumnTypes DEF GateInv
<1>3. execStatus'[u] \in {"failed", "cancelled"}
  BY <1>2 DEF Rejects, Leaves, TaskAwaitsRequest, PendingOf, TypeOK
<1>4. ASSUME NEW d \in Call PROVE CallAwaitsRequest(d)'
  <2>1. CallAwaitsRequest(d) /\ TaskOf[d] \in Task
    BY ColumnTypes DEF GateInv
  <2>2. CASE d = c
    BY <1>1, <1>2, <1>3, <2>2 DEF Rejects, CallAwaitsRequest, Started
  <2>3. CASE d # c
    <3>1. callStatus[d] = "rejected" => execStatus'[TaskOf[d]] \in {"failed", "cancelled"}
      BY <2>1, LeavingKeepsEnds DEF CallAwaitsRequest, Rejects
    <3>2. QED
      BY <1>1, <2>1, <2>3, <3>1 DEF CallAwaitsRequest, Started
  <2>4. QED
    BY <2>2, <2>3
<1>5. ChainIsWalked(c)'
  BY <1>1 DEF ChainIsWalked
<1>6. ASSUME NEW d \in Call, d # c PROVE ChainIsWalked(d)'
  BY <1>1, <1>6, OtherWalksStay DEF Rejects
<1>7. ASSUME NEW t \in Task PROVE TaskAwaitsRequest(t)'
  BY LeavingKeepsTasks DEF Rejects
<1>8. ASSUME NEW w \in Worker, pc'[w] = "tool" PROVE Started(calling[w])'
  <2>1. calling'[w] \in Call /\ Started(calling'[w])
    BY <1>8 DEF Rejects, GateInv, WorkersKnow
  <2>2. calling'[w] # c
    BY <1>2, <2>1 DEF Rejects, CallAwaitsRequest, Started
  <2>3. QED
    BY <1>1, <2>1, <2>2 DEF Started
<1>9. QED
  BY <1>4, <1>5, <1>6, <1>7, <1>8 DEF GateInv

LEMMA GateStep == IInv /\ GateInv /\ [Next]_vars => GateInv'
<1> SUFFICES ASSUME IInv, GateInv, [Next]_vars PROVE GateInv'
  OBVIOUS
<1>1. TypeOK /\ RequestsInChain /\ WorkersKnow
  BY DEF IInv
<1>2. GateEffect
  BY EveryStepHasAGateEffect
<1>3. ASSUME NEW c \in Call, NEW role, NEW d,
             Advances(c, role, d) \/ Approves(c, role) \/ Rejects(c, role, d)
      PROVE  GateInv'
  BY <1>1, <1>3, AdvancesKeepsGate, ApprovesKeepsGate, RejectsKeepsGate
<1>4. QED
  BY <1>1, <1>2, <1>3, IdlesKeepsGate, RunsKeepsGate, RaisesKeepsGate DEF GateEffect

(* GateInv alone is not inductive: it needs what IInv knows of goroutines, *)
(* and that no queued task has an execution.                               *)
LEMMA GateInvariance == Spec => [](IInv /\ GateInv)
<1>1. Init => IInv /\ GateInv
  BY InductiveInit, GateInit
<1>2. IInv /\ GateInv /\ [Next]_vars => (IInv /\ GateInv)'
  BY InductiveStep, GateStep
<1>3. QED
  BY <1>1, <1>2, PTL DEF Spec

-----------------------------------------------------------------------------
(* What follows                                                            *)

(* What calls, requests and parked tasks have to do with each other holds  *)
(* in every state.                                                         *)
THEOREM GateInvHolds == Spec => []GateInv
  BY GateInvariance, PTL

(* No call that needs approval is ever started before every step of its    *)
(* chain was approved by its role or escalated where that is allowed: no   *)
(* crash, resume, late goroutine or race of approvers gets around it.      *)
THEOREM GateIsSafe == Spec => []ApprovalGate
<1>1. GateInv => ApprovalGate
  BY DEF GateInv, ApprovalGate, CallAwaitsRequest, ChainIsWalked
<1>2. QED
  BY <1>1, GateInvariance, PTL

(* A parked task always waits for exactly one pending request, that of the *)
(* call it stands at.                                                      *)
THEOREM ParkedTasksAwaitOne == Spec => []ParkedOnOneRequest
<1>1. ASSUME IInv, GateInv PROVE ParkedOnOneRequest
  <2>1. ASSUME NEW t \in Task, taskStatus[t] = "awaiting_approval"
        PROVE  Current(t) = PendingOf(t) /\ Current(t) # {}
    <3>1. execStatus[t] = "awaiting_approval"
      BY <1>1, <2>1 DEF IInv, StatusesAgree
    <3>2. TaskAwaitsRequest(t)
      BY <1>1 DEF GateInv
    <3>3. PendingOf(t) # {} /\ \A c \in PendingOf(t) : c \in Current(t)
      BY <3>1, <3>2 DEF TaskAwaitsRequest, PendingOf, Current
    <3>4. \A c, d \in Current(t) : c = d
      BY CallsNumbered DEF Current
    <3>5. QED
      BY <3>3, <3>4
  <2>2. QED
    BY <2>1 DEF ParkedOnOneRequest
<1>2. IInv /\ GateInv => ParkedOnOneRequest
  BY <1>1
<1>3. QED
  BY <1>2, GateInvariance, PTL

(* What a request was decided to be, and the decisions behind it, stay.    *)
THEOREM DecisionsAreFinal == Spec => DecisionIsFinal
<1> DEFINE Final == \A c \in Call : reqStatus[c] \in {"approved", "rejected"} =>
                      reqStatus'[c] = reqStatus[c] /\ decisions'[c] = decisions[c]
<1>1. IInv /\ GateInv /\ [Next]_vars => [Final]_vars
  <2> SUFFICES ASSUME IInv, GateInv, [Next]_vars, NEW c \in Call,
                      reqStatus[c] \in {"approved", "rejected"}
               PROVE  reqStatus'[c] = reqStatus[c] /\ decisions'[c] = decisions[c]
    OBVIOUS
  <2>1. GateEffect
    BY EveryStepHasAGateEffect
  <2> USE DEF IInv, TypeOK
  <2>2. CASE Idles
    BY <2>2 DEF Idles
  <2>3. ASSUME NEW d \in Call, NEW status \in CallStatus, Runs(d, status)
        PROVE  reqStatus'[c] = reqStatus[c] /\ decisions'[c] = decisions[c]
    BY <2>3 DEF Runs
  <2>4. ASSUME NEW d \in Call, Raises(d)
        PROVE  reqStatus'[c] = reqStatus[c] /\ decisions'[c] = decisions[c]
    <3>1. reqStatus[d] = "none"
      BY <2>4 DEF Raises, GateInv, CallAwaitsRequest
    <3>2. QED
      BY <2>4, <3>1 DEF Raises
  <2>5. ASSUME NEW d \in Call, NEW role, NEW a,
               Advances(d, role, a) \/ Approves(d, role) \/ Rejects(d, role, a)
        PROVE  reqStatus'[c] = reqStatus[c] /\ decisions'[c] = decisions[c]
    <3>1. d # c
      BY <2>5 DEF Advances, Approves, Rejects
    <3>2. reqStatus'[c] = reqStatus[c]
      BY <2>5, <3>1 DEF Advances, Approves, Rejects
    <3>3. decisions'[c] = decisions[c]
      BY <2>5, <3>1 DEF Advances, Approves, Rejects
    <3>4. QED
      BY <3>2, <3>3
  <2>6. QED
    BY <2>1, <2>2, <2>3, <2>4, <2>5 DEF GateEffect
<1>2. QED
  BY <1>1, GateInvariance, PTL DEF Spec, DecisionIsFinal

(* A call is charged once, while its task runs.                            *)
LEMMA ChargedOnceWhileRunning ==
  ASSUME IInv, [Next]_vars, NEW c \in Call
  PROVE  \/ usage'[c] = usage[c]
         \/ usage[c] = 0 /\ usage'[c] = 1 /\ execStatus[TaskOf[c]] = "running"
<1>1. ASSUME NEW w \in Worker, RecordSuccess(w)
      PROVE  \/ usage'[c] = usage[c]
             \/ usage[c] = 0 /\ usage'[c] = 1 /\ execStatus[TaskOf[c]] = "running"
  <2>1. TaskOf[calling[w]] = claimed[w] /\ execStatus[claimed[w]] = "running"
    BY <1>1 DEF RecordSuccess, StillRunning, IInv, WorkersKnow
  <2>2. usage' = [usage EXCEPT ![calling[w]] = IF @ = 0 THEN 1 ELSE @]
    BY <1>1 DEF RecordSuccess, Charge
  <2>3. QED
    BY <2>1, <2>2 DEF IInv, TypeOK
<1>2. ASSUME NEW w \in Worker, WorkerMoves(w), ~RecordSuccess(w) PROVE UNCHANGED usage
  BY <1>2 DEF WorkerMoves, ClaimResumable, ClaimResumableMiss, ClaimQueued, ClaimQueuedMiss,
     NextCallLeaves, NextCallPasses, NextCallRaise, NextCallRun, RecordAbandoned,
     RecordFailure, FinishAbandoned, Finish
<1>3. CASE \/ UNCHANGED vars \/ \E w \in Worker : Drop(w)
           \/ \E t \in Task : LeaseExpires(t) \/ Cancel(t)
  BY <1>3 DEF vars, Drop, LeaseExpires, Cancel
<1>4. ASSUME NEW d \in Call,
             \/ \E role \in Role : ApproveStep(d, role) \/ ApproveLast(d, role) \/ Reject(d, role)
             \/ DeadlinePasses(d) \/ SweepOne(d)
      PROVE  UNCHANGED usage
  BY <1>4 DEF ApproveStep, ApproveLast, ResumeFlow, Reject, RejectFlow, DeadlinePasses,
     SweepOne, SweepEscalate, SweepReject
<1>5. QED
  BY <1>1, <1>2, <1>3, <1>4 DEF Next

(* Nothing is charged twice, not even where two goroutines record the same *)
(* call because a lease ran out under the first.                           *)
THEOREM NothingIsBilledTwice == Spec => []BilledAtMostOnce
<1>1. Init => BilledAtMostOnce
  BY DEF Init, BilledAtMostOnce
<1>2. IInv /\ BilledAtMostOnce /\ [Next]_vars => BilledAtMostOnce'
  <2> SUFFICES ASSUME IInv, BilledAtMostOnce, [Next]_vars, NEW c \in Call
               PROVE  usage'[c] <= 1
    BY DEF BilledAtMostOnce
  <2>1. usage[c] <= 1
    BY DEF BilledAtMostOnce
  <2>2. QED
    BY <2>1, ChargedOnceWhileRunning
<1>3. QED
  BY <1>1, <1>2, Invariance, PTL DEF Spec

(* Work on a call is written only while its task runs, whatever goroutines *)
(* come back late.                                                         *)
THEOREM WorkNeedsARunningTask == Spec => WorkOnlyWhileRunning
<1> DEFINE Guarded == \A c \in Call : Works(c) => taskStatus[TaskOf[c]] = "running"
<1>1. IInv /\ GateInv /\ [Next]_vars => [Guarded]_vars
  <2> SUFFICES ASSUME IInv, GateInv, [Next]_vars, NEW c \in Call, Works(c)
               PROVE  taskStatus[TaskOf[c]] = "running"
    OBVIOUS
  <2>1. execStatus[TaskOf[c]] = "running"
    <3>1. CASE usage'[c] # usage[c]
      BY <3>1, ChargedOnceWhileRunning
    <3>2. CASE callStatus'[c] # callStatus[c] /\ callStatus'[c] \in {"executing", "completed", "failed"}
      <4>1. GateEffect
        BY EveryStepHasAGateEffect
      <4>2. ASSUME NEW d \in Call, NEW status \in CallStatus, Runs(d, status)
            PROVE  execStatus[TaskOf[c]] = "running"
        BY <3>2, <4>2 DEF Runs, IInv, TypeOK
      <4>3. ASSUME NEW d \in Call, NEW role, NEW a,
                   Raises(d) \/ Advances(d, role, a) \/ Approves(d, role) \/ Rejects(d, role, a)
            PROVE  FALSE
        BY <3>2, <4>3 DEF Raises, Advances, Approves, Rejects, IInv, TypeOK
      <4>4. QED
        BY <3>2, <4>1, <4>2, <4>3 DEF GateEffect, Idles
    <3>3. QED
      BY <3>1, <3>2 DEF Works
  <2>2. QED
    BY <2>1, ColumnTypes DEF IInv, StatusesAgree
<1>2. QED
  BY <1>1, GateInvariance, PTL DEF Spec, WorkOnlyWhileRunning

-----------------------------------------------------------------------------
(* What leases that are long enough give                                   *)

(* The lease keeps others away                                             *)

Held == OneRunner /\ LeaseHeld

(* A goroutine takes a task that nobody holds; what it finds or makes of   *)
(* the execution is running, with a live lease.                            *)
LEMMA TakingKeepsHeld ==
  ASSUME TypeOK, Held, NEW w \in Worker, NEW t \in Task, Take(w, t), Renew(t),
         \A v \in Worker : claimed[v] # t,
         execStatus'[t] = "running",
         \A u \in Task \ {t} : execStatus'[u] = execStatus[u]
  PROVE  Held'
<1>1. claimed' = [claimed EXCEPT ![w] = t] /\ lease' = [lease EXCEPT ![t] = "live"]
  BY DEF Take, Renew
<1>2. /\ claimed'[w] = t /\ \A v \in Worker \ {w} : claimed'[v] = claimed[v]
      /\ lease'[t] = "live" /\ \A u \in Task \ {t} : lease'[u] = lease[u]
  BY <1>1 DEF TypeOK
<1>3. OneRunner'
  BY <1>2 DEF Held, OneRunner
<1>4. LeaseHeld'
  BY <1>2 DEF Held, LeaseHeld
<1>5. QED
  BY <1>3, <1>4 DEF Held

(* Whoever holds a task afterwards held it before, and neither its lease   *)
(* nor its status gives it away.                                           *)
LEMMA HoldingKeepsHeld ==
  ASSUME TypeOK, Held,
         \A w \in Worker : claimed'[w] = claimed[w] \/ claimed'[w] = NoTask,
         \A t \in Task, w \in Worker : claimed'[w] = t =>
           /\ lease'[t] \in {lease[t], "live"}
           /\ execStatus'[t] = execStatus[t]
                \/ execStatus'[t] \notin {"none", "awaiting_approval"}
  PROVE  Held'
<1>1. OneRunner'
  BY DEF Held, OneRunner
<1>2. LeaseHeld'
  <2> SUFFICES ASSUME NEW w \in Worker, claimed'[w] \in Task
               PROVE  /\ lease'[claimed'[w]] = "live"
                      /\ execStatus'[claimed'[w]] \notin {"none", "awaiting_approval"}
    BY DEF LeaseHeld
  <2>1. claimed'[w] = claimed[w]
    BY NullValues
  <2>2. lease[claimed[w]] = "live" /\ execStatus[claimed[w]] \notin {"none", "awaiting_approval"}
    BY <2>1 DEF Held, LeaseHeld
  <2>3. QED
    BY <2>1, <2>2
<1>3. QED
  BY <1>1, <1>2 DEF Held

LEMMA WorkerKeepsHeld ==
  ASSUME IInv, Held, NEW w \in Worker, WorkerMoves(w)
  PROVE  Held'
<1>1. TypeOK /\ WorkersKnow
  BY DEF IInv
<1>2. ASSUME NEW t \in Task, NEW s \in Slot, ClaimQueued(w, t, s) PROVE Held'
  <2>1. execStatus[t] = "none"
    BY <1>2, QueuedHasNoExecution DEF ClaimQueued, IInv
  <2>2. \A v \in Worker : claimed[v] # t
    BY <2>1 DEF Held, LeaseHeld
  <2>3. execStatus' = [execStatus EXCEPT ![t] = "running"] /\ Renew(t) /\ Take(w, t)
    BY <1>2 DEF ClaimQueued
  <2>4. execStatus'[t] = "running" /\ \A u \in Task \ {t} : execStatus'[u] = execStatus[u]
    BY <1>1, <2>3 DEF TypeOK
  <2>5. QED
    BY <1>1, <2>2, <2>3, <2>4, TakingKeepsHeld
<1>3. ASSUME NEW t \in Task, ClaimResumable(w, t) PROVE Held'
  <2>1. \A v \in Worker : claimed[v] # t
    BY <1>3 DEF ClaimResumable, Resumable, Held, LeaseHeld
  <2>2. execStatus[t] = "running" /\ execStatus' = execStatus /\ Renew(t) /\ Take(w, t)
    BY <1>3 DEF ClaimResumable, Resumable
  <2>3. QED
    BY <1>1, <2>1, <2>2, TakingKeepsHeld
<1>4. ASSUME claimed' = [claimed EXCEPT ![w] = NoTask],
             \A t \in Task : lease'[t] \in {lease[t], "live"},
             \A t \in Task \ {claimed[w]} : execStatus'[t] = execStatus[t]
      PROVE  Held'
  <2>1. claimed'[w] = NoTask /\ \A v \in Worker \ {w} : claimed'[v] = claimed[v]
    BY <1>1, <1>4 DEF TypeOK
  <2>2. ASSUME NEW t \in Task, NEW v \in Worker, claimed'[v] = t
        PROVE  lease'[t] \in {lease[t], "live"} /\ execStatus'[t] = execStatus[t]
    <3>1. v # w /\ claimed[v] = t
      BY <2>1, <2>2, NullValues
    <3>2. t # claimed[w]
      BY <3>1, NullValues DEF Held, OneRunner
    <3>3. QED
      BY <1>4, <3>2
  <2>3. QED
    BY <1>1, <2>1, <2>2, HoldingKeepsHeld
<1>5. CASE NextCallRaise(w) \/ Finish(w) \/ NextCallLeaves(w) \/ RecordAbandoned(w) \/ FinishAbandoned(w)
  <2>1. claimed' = [claimed EXCEPT ![w] = NoTask]
    BY <1>5 DEF NextCallRaise, Finish, NextCallLeaves, RecordAbandoned, FinishAbandoned, GiveUp
  <2>2. \A t \in Task : lease'[t] \in {lease[t], "live"}
    BY <1>1, <1>5 DEF NextCallRaise, Finish, NextCallLeaves, RecordAbandoned, FinishAbandoned,
       Renew, execVars, TypeOK
  <2>3. \A t \in Task \ {claimed[w]} : execStatus'[t] = execStatus[t]
    BY <1>1, <1>5 DEF NextCallRaise, Finish, NextCallLeaves, RecordAbandoned, FinishAbandoned,
       execVars, TypeOK
  <2>4. QED
    BY <1>4, <2>1, <2>2, <2>3
<1>6. CASE \/ NextCallPasses(w) \/ NextCallRun(w) \/ RecordSuccess(w) \/ RecordFailure(w)
           \/ ClaimResumableMiss(w) \/ ClaimQueuedMiss(w)
  <2>1. UNCHANGED <<claimed, execStatus>>
    BY <1>6 DEF NextCallPasses, NextCallRun, RecordSuccess, RecordFailure,
       ClaimResumableMiss, ClaimQueuedMiss, execVars
  <2>2. \A t \in Task : lease'[t] \in {lease[t], "live"}
    BY <1>1, <1>6 DEF NextCallPasses, NextCallRun, RecordSuccess, RecordFailure,
       ClaimResumableMiss, ClaimQueuedMiss, Renew, execVars, TypeOK
  <2>3. QED
    BY <1>1, <2>1, <2>2, HoldingKeepsHeld
<1>7. QED
  BY <1>2, <1>3, <1>5, <1>6 DEF WorkerMoves

LEMMA HeldStep ==
  ASSUME StepsFitLease, IInv, Held, [Next]_vars
  PROVE  Held'
<1>1. TypeOK
  BY DEF IInv
<1>2. CASE UNCHANGED vars
  BY <1>2 DEF vars, execVars, workerVars, Held, OneRunner, LeaseHeld
<1>3. ASSUME NEW w \in Worker, Drop(w) PROVE Held'
  <2>1. claimed' = [claimed EXCEPT ![w] = NoTask] /\ UNCHANGED <<lease, execStatus>>
    BY <1>3 DEF Drop, execVars
  <2>2. \A v \in Worker : claimed'[v] = claimed[v] \/ claimed'[v] = NoTask
    BY <1>1, <2>1 DEF TypeOK
  <2>3. QED
    BY <1>1, <2>1, <2>2, HoldingKeepsHeld
<1>4. ASSUME NEW t \in Task, LeaseExpires(t) PROVE Held'
  <2>1. (\A w \in Worker : claimed[w] # t) /\ UNCHANGED <<claimed, execStatus>>
    BY <1>4 DEF LeaseExpires, workerVars
  <2>2. \A u \in Task \ {t} : lease'[u] = lease[u]
    BY <1>1, <1>4 DEF LeaseExpires, TypeOK
  <2>3. QED
    BY <1>1, <2>1, <2>2, HoldingKeepsHeld
<1>5. ASSUME NEW t \in Task, Cancel(t) PROVE Held'
  <2>1. UNCHANGED <<claimed, lease>>
    BY <1>5 DEF Cancel, workerVars
  <2>2. \A u \in Task : execStatus'[u] = execStatus[u] \/ execStatus'[u] = "cancelled"
    BY <1>1, <1>5 DEF Cancel, ReleaseExecution, TypeOK
  <2>3. QED
    BY <1>1, <2>1, <2>2, HoldingKeepsHeld
<1>6. ASSUME NEW c \in Call,
             \/ \E role \in Role : ApproveStep(c, role) \/ ApproveLast(c, role) \/ Reject(c, role)
             \/ DeadlinePasses(c) \/ SweepOne(c)
      PROVE  Held'
  <2>1. TaskOf[c] \in Task /\ UNCHANGED claimed
    BY <1>6, ColumnTypes DEF ApproveStep, ApproveLast, Reject, DeadlinePasses, SweepOne,
       SweepEscalate, SweepReject, ResumeFlow, RejectFlow, workerVars
  <2>2. \/ UNCHANGED <<execStatus, lease>>
        \/ /\ execStatus[TaskOf[c]] = "awaiting_approval"
           /\ \A t \in Task \ {TaskOf[c]} : execStatus'[t] = execStatus[t] /\ lease'[t] = lease[t]
    BY <1>1, <1>6, <2>1 DEF ApproveStep, ApproveLast, Reject, DeadlinePasses, SweepOne,
       SweepEscalate, SweepReject, ResumeFlow, RejectFlow, execVars, TypeOK
  <2>3. \A w \in Worker : execStatus[TaskOf[c]] = "awaiting_approval" => claimed[w] # TaskOf[c]
    BY <2>1 DEF Held, LeaseHeld
  <2>4. QED
    BY <1>1, <2>1, <2>2, <2>3, HoldingKeepsHeld
<1>7. QED
  BY <1>2, <1>3, <1>4, <1>5, <1>6, WorkerKeepsHeld DEF Next

-----------------------------------------------------------------------------
(* The calls of a task stand in order                                      *)

InOrder ==
  /\ \A c \in Call : CallStandsInOrder(c)
  /\ \A w \in Worker : WorkerStandsAt(w)
  /\ \A t \in Task : execStatus[t] = "completed" => Current(t) = {}

(* Only the call at the index of its task changes, and is not completed.   *)
AtIndex ==
  /\ UNCHANGED <<usage, callIndex>>
  /\ \A c \in Call :
       \/ callStatus'[c] = callStatus[c]
       \/ /\ OrderIndex[c] = callIndex[TaskOf[c]]
          /\ callStatus[c] # "completed" /\ callStatus'[c] # "completed"
          /\ execStatus[TaskOf[c]] # "none"
  /\ \A t \in Task :
       /\ execStatus'[t] = "none" => execStatus[t] = "none"
       /\ execStatus'[t] = "completed" => execStatus[t] = "completed" \/ Current(t) = {}
  /\ \A w \in Worker :
       /\ pc'[w] = "tool" =>
            \/ pc[w] = "tool" /\ calling'[w] = calling[w] /\ claimed'[w] = claimed[w]
            \/ OrderIndex[calling'[w]] = callIndex[claimed'[w]]
       /\ pc'[w] = "finish_completed" =>
            \/ pc[w] = "finish_completed" /\ claimed'[w] = claimed[w]
            \/ Current(claimed'[w]) = {}

LEMMA AtIndexKeepsOrder ==
  ASSUME TypeOK, InOrder, AtIndex
  PROVE  InOrder'
<1>1. ASSUME NEW c \in Call PROVE CallStandsInOrder(c)'
  <2>1. CallStandsInOrder(c) /\ TaskOf[c] \in Task
    BY ColumnTypes DEF InOrder
  <2>2. OrderIndex[c] \in Nat /\ callIndex[TaskOf[c]] \in Nat
    BY <2>1, ColumnTypes DEF TypeOK
  <2>3. UNCHANGED <<usage, callIndex>>
    BY DEF AtIndex
  <2>4. CASE callStatus'[c] = callStatus[c]
    BY <2>1, <2>3, <2>4 DEF AtIndex, CallStandsInOrder
  <2>5. CASE callStatus'[c] # callStatus[c]
    <3>1. /\ OrderIndex[c] = callIndex[TaskOf[c]] /\ execStatus'[TaskOf[c]] # "none"
          /\ callStatus[c] # "completed" /\ callStatus'[c] # "completed"
      BY <2>1, <2>5 DEF AtIndex
    <3>2. QED
      BY <2>1, <2>2, <2>3, <3>1 DEF CallStandsInOrder
  <2>6. QED
    BY <2>4, <2>5
<1>2. ASSUME NEW w \in Worker PROVE WorkerStandsAt(w)'
  <2>1. WorkerStandsAt(w) /\ UNCHANGED callIndex
    BY DEF InOrder, AtIndex
  <2>2. QED
    BY <2>1 DEF AtIndex, WorkerStandsAt, Current
<1>3. ASSUME NEW t \in Task, execStatus'[t] = "completed" PROVE Current(t)' = {}
  BY <1>3 DEF InOrder, AtIndex, Current
<1>4. QED
  BY <1>1, <1>2, <1>3 DEF InOrder

LEMMA ClaimKeepsOrder ==
  ASSUME IInv, InOrder, Held, NEW w \in Worker, NEW t \in Task, NEW s \in Slot,
         ClaimQueued(w, t, s)
  PROVE  InOrder'
<1>1. TypeOK /\ execStatus[t] = "none"
  BY QueuedHasNoExecution DEF ClaimQueued, IInv
<1>2. /\ callIndex'[t] = 0 /\ execStatus'[t] = "running"
      /\ \A u \in Task \ {t} : callIndex'[u] = callIndex[u] /\ execStatus'[u] = execStatus[u]
      /\ UNCHANGED <<callStatus, usage, calling>>
      /\ pc'[w] = "step" /\ claimed'[w] = t
      /\ \A v \in Worker \ {w} : pc'[v] = pc[v] /\ claimed'[v] = claimed[v]
  BY <1>1 DEF ClaimQueued, Take, GoTo, TypeOK
<1>3. \A v \in Worker : claimed[v] # t
  BY <1>1 DEF Held, LeaseHeld
<1>4. ASSUME NEW c \in Call PROVE CallStandsInOrder(c)'
  <2>1. CallStandsInOrder(c) /\ TaskOf[c] \in Task /\ OrderIndex[c] \in Nat
    BY ColumnTypes DEF InOrder
  <2>2. QED
    BY <1>1, <1>2, <2>1 DEF CallStandsInOrder
<1>5. ASSUME NEW v \in Worker PROVE WorkerStandsAt(v)'
  <2>1. CASE v = w
    BY <1>2, <2>1 DEF WorkerStandsAt
  <2>2. CASE v # w
    <3>1. WorkerStandsAt(v) /\ pc'[v] = pc[v] /\ claimed'[v] = claimed[v] /\ calling'[v] = calling[v]
      BY <1>2, <2>2 DEF InOrder
    <3>2. pc[v] \in {"tool", "finish_completed"} => callIndex'[claimed[v]] = callIndex[claimed[v]]
      BY <1>2, <1>3 DEF IInv, WorkersKnow
    <3>3. QED
      BY <3>1, <3>2 DEF WorkerStandsAt, Current
  <2>3. QED
    BY <2>1, <2>2
<1>6. ASSUME NEW u \in Task, execStatus'[u] = "completed" PROVE Current(u)' = {}
  <2>1. u # t
    BY <1>2, <1>6
  <2>2. QED
    BY <1>2, <1>6, <2>1 DEF InOrder, Current
<1>7. QED
  BY <1>4, <1>5, <1>6 DEF InOrder

(* The call completes and the index moves past it in one transaction.      *)
LEMMA SuccessKeepsOrder ==
  ASSUME IInv, InOrder, Held, NEW w \in Worker, RecordSuccess(w)
  PROVE  InOrder'
<1> DEFINE t == claimed[w]
           k == calling[w]
<1>1. /\ TypeOK /\ pc[w] = "tool" /\ t \in Task /\ k \in Call /\ TaskOf[k] = t
      /\ execStatus[t] = "running" /\ OrderIndex[k] = callIndex[t]
  BY DEF RecordSuccess, IInv, WorkersKnow, InOrder, WorkerStandsAt, StillRunning
<1>2. /\ callStatus'[k] = "completed" /\ usage'[k] = (IF usage[k] = 0 THEN 1 ELSE usage[k])
      /\ \A c \in Call \ {k} : callStatus'[c] = callStatus[c] /\ usage'[c] = usage[c]
      /\ callIndex'[t] = callIndex[t] + 1
      /\ \A u \in Task \ {t} : callIndex'[u] = callIndex[u]
      /\ UNCHANGED <<execStatus, claimed>>
  BY <1>1 DEF RecordSuccess, Charge, Advance, TypeOK
<1>3. /\ pc'[w] = "step"
      /\ \A v \in Worker \ {w} : pc'[v] = pc[v] /\ calling'[v] = calling[v]
  BY <1>1 DEF RecordSuccess, GoTo, TypeOK
<1>4. ASSUME NEW c \in Call PROVE CallStandsInOrder(c)'
  <2>1. CallStandsInOrder(c) /\ TaskOf[c] \in Task /\ OrderIndex[c] \in Nat
    BY ColumnTypes DEF InOrder
  <2>2. callIndex[TaskOf[c]] \in Nat
    BY <1>1, <2>1 DEF TypeOK
  <2>3. CASE c = k
    BY <1>1, <1>2, <2>1, <2>2, <2>3 DEF CallStandsInOrder
  <2>4. CASE c # k /\ TaskOf[c] = t
    <3>1. OrderIndex[c] # callIndex[t]
      BY <1>1, <2>4, CallsNumbered
    <3>2. QED
      BY <1>1, <1>2, <2>1, <2>2, <2>4, <3>1 DEF CallStandsInOrder
  <2>5. CASE TaskOf[c] # t
    BY <1>1, <1>2, <2>1, <2>5 DEF CallStandsInOrder
  <2>6. QED
    BY <2>3, <2>4, <2>5
<1>5. ASSUME NEW v \in Worker PROVE WorkerStandsAt(v)'
  <2>1. CASE v = w
    BY <1>3, <2>1 DEF WorkerStandsAt
  <2>2. CASE v # w
    <3>1. WorkerStandsAt(v) /\ pc'[v] = pc[v] /\ claimed'[v] = claimed[v] /\ calling'[v] = calling[v]
      BY <1>2, <1>3, <2>2 DEF InOrder
    <3>2. pc[v] \in {"tool", "finish_completed"} => claimed[v] \in Task \ {t}
      BY <1>1, <2>2, NullValues DEF IInv, WorkersKnow, Held, OneRunner
    <3>3. QED
      BY <1>2, <3>1, <3>2 DEF WorkerStandsAt, Current
  <2>3. QED
    BY <2>1, <2>2
<1>6. ASSUME NEW u \in Task, execStatus'[u] = "completed" PROVE Current(u)' = {}
  <2>1. u # t /\ execStatus[u] = "completed"
    BY <1>1, <1>2, <1>6
  <2>2. QED
    BY <1>2, <2>1 DEF InOrder, Current
<1>7. QED
  BY <1>4, <1>5, <1>6 DEF InOrder

(* Nothing but rows of the journal, requests and leases change.            *)
LEMMA RestIsAtIndex ==
  ASSUME UNCHANGED <<usage, callIndex, callStatus>>,
         \A t \in Task :
           /\ execStatus'[t] = "none" => execStatus[t] = "none"
           /\ execStatus'[t] = "completed" => execStatus[t] = "completed",
         \A w \in Worker : pc'[w] \in {"tool", "finish_completed"} =>
           pc'[w] = pc[w] /\ claimed'[w] = claimed[w] /\ calling'[w] = calling[w]
  PROVE  AtIndex
BY DEF AtIndex

(* Every step leaves completed calls and indices alone, except the claim   *)
(* of a queued task and the recording of a success.                        *)
Orderly ==
  \/ AtIndex
  \/ \E w \in Worker : RecordSuccess(w)
  \/ \E w \in Worker, t \in Task, s \in Slot : ClaimQueued(w, t, s)

LEMMA WorkerIsOrderly ==
  ASSUME IInv, InOrder, NEW w \in Worker, WorkerMoves(w)
  PROVE  Orderly
<1>1. TypeOK /\ WorkersKnow
  BY DEF IInv
<1>2. CASE \/ \E t \in Task : ClaimResumable(w, t)
           \/ ClaimResumableMiss(w) \/ ClaimQueuedMiss(w) \/ NextCallLeaves(w)
           \/ RecordAbandoned(w) \/ FinishAbandoned(w)
  <2>1. UNCHANGED <<usage, callIndex, callStatus, execStatus>>
    BY <1>2 DEF ClaimResumable, ClaimResumableMiss, ClaimQueuedMiss, NextCallLeaves,
       RecordAbandoned, FinishAbandoned, execVars
  <2>2. /\ pc'[w] \in {"resumable", "queue", "step"}
        /\ \A v \in Worker \ {w} :
             pc'[v] = pc[v] /\ claimed'[v] = claimed[v] /\ calling'[v] = calling[v]
    BY <1>1, <1>2 DEF ClaimResumable, ClaimResumableMiss, ClaimQueuedMiss, NextCallLeaves,
       RecordAbandoned, FinishAbandoned, Take, GiveUp, GoTo, TypeOK
  <2>3. QED
    BY <1>1, <2>1, <2>2, RestIsAtIndex DEF Orderly
<1>3. CASE Finish(w)
  <2>1. UNCHANGED <<usage, callIndex, callStatus>>
    BY <1>3 DEF Finish
  <2>2. claimed[w] \in Task /\ execStatus' = [execStatus EXCEPT ![claimed[w]] = Outcome(w)]
    BY <1>1, <1>3 DEF Finish, Finishing, WorkersKnow
  <2>3. Outcome(w) # "none" /\ (Outcome(w) = "completed" => Current(claimed[w]) = {})
    BY <1>3 DEF Finish, Outcome, InOrder, WorkerStandsAt
  <2>4. /\ pc'[w] = "resumable"
        /\ \A v \in Worker \ {w} :
             pc'[v] = pc[v] /\ claimed'[v] = claimed[v] /\ calling'[v] = calling[v]
    BY <1>1, <1>3 DEF Finish, GiveUp, GoTo, TypeOK
  <2>5. AtIndex
    BY <1>1, <2>1, <2>2, <2>3, <2>4 DEF AtIndex, TypeOK
  <2>6. QED
    BY <2>5 DEF Orderly
<1>4. CASE NextCallPasses(w)
  <2>1. claimed[w] \in Task /\ \A c \in Current(claimed[w]) : callStatus[c] = "completed"
    BY <1>1, <1>4 DEF NextCallPasses, WorkersKnow, Verdict
  <2>2. Current(claimed[w]) = {}
    <3>1. \A c \in Current(claimed[w]) :
             c \in Call /\ TaskOf[c] = claimed[w] /\ OrderIndex[c] = callIndex[claimed[w]]
      BY DEF Current
    <3>2. callIndex[claimed[w]] \in Nat
      BY <1>1, <2>1 DEF TypeOK
    <3>3. QED
      BY <2>1, <3>1, <3>2 DEF InOrder, CallStandsInOrder
  <2>3. UNCHANGED <<usage, callIndex, callStatus, execStatus, claimed, calling>>
    BY <1>1, <1>4, <2>1, <2>2 DEF NextCallPasses, TypeOK
  <2>4. pc' = [pc EXCEPT ![w] = "finish_completed"]
    BY <1>4, <2>2 DEF NextCallPasses, GoTo
  <2>5. AtIndex
    BY <1>1, <2>2, <2>3, <2>4 DEF AtIndex, TypeOK
  <2>6. QED
    BY <2>5 DEF Orderly
<1>5. CASE NextCallRaise(w)
  <2>1. PICK c \in Current(claimed[w]) :
           Verdict(c) = "raise" /\ callStatus' = [callStatus EXCEPT ![c] = "awaiting_approval"]
    BY <1>5 DEF NextCallRaise
  <2>2. /\ c \in Call /\ TaskOf[c] = claimed[w] /\ OrderIndex[c] = callIndex[TaskOf[c]]
        /\ callStatus[c] = "pending"
    BY <2>1 DEF Current, Verdict
  <2>3. /\ UNCHANGED <<usage, callIndex>> /\ execStatus[claimed[w]] = "running"
        /\ execStatus' = [execStatus EXCEPT ![claimed[w]] = "awaiting_approval"]
    BY <1>5 DEF NextCallRaise, StillRunning
  <2>4. /\ pc'[w] = "resumable"
        /\ \A v \in Worker \ {w} :
             pc'[v] = pc[v] /\ claimed'[v] = claimed[v] /\ calling'[v] = calling[v]
    BY <1>1, <1>5 DEF NextCallRaise, GiveUp, GoTo, TypeOK
  <2>5. AtIndex
    BY <1>1, <2>1, <2>2, <2>3, <2>4 DEF AtIndex, TypeOK
  <2>6. QED
    BY <2>5 DEF Orderly
<1>6. CASE NextCallRun(w)
  <2>1. PICK c \in Current(claimed[w]) :
           /\ Verdict(c) = "run"
           /\ callStatus' = [callStatus EXCEPT ![c] = "executing"]
           /\ calling' = [calling EXCEPT ![w] = c]
    BY <1>6 DEF NextCallRun
  <2>2. /\ c \in Call /\ TaskOf[c] = claimed[w] /\ OrderIndex[c] = callIndex[TaskOf[c]]
        /\ callStatus[c] # "completed"
    BY <2>1 DEF Current, Verdict
  <2>3. UNCHANGED <<usage, callIndex, execStatus, claimed>> /\ execStatus[claimed[w]] = "running"
    BY <1>6 DEF NextCallRun, StillRunning
  <2>4. /\ pc'[w] = "tool" /\ calling'[w] = c
        /\ \A v \in Worker \ {w} : pc'[v] = pc[v] /\ calling'[v] = calling[v]
    BY <1>1, <1>6, <2>1 DEF NextCallRun, GoTo, TypeOK
  <2>5. AtIndex
    BY <1>1, <2>1, <2>2, <2>3, <2>4 DEF AtIndex, TypeOK
  <2>6. QED
    BY <2>5 DEF Orderly
<1>7. CASE RecordFailure(w)
  <2>1. /\ calling[w] \in Call /\ TaskOf[calling[w]] = claimed[w]
        /\ OrderIndex[calling[w]] = callIndex[claimed[w]] /\ claimed[w] \in Task
        /\ execStatus[claimed[w]] = "running"
    BY <1>1, <1>7 DEF RecordFailure, WorkersKnow, InOrder, WorkerStandsAt, StillRunning
  <2>2. callStatus[calling[w]] # "completed"
    BY <1>1, <2>1 DEF InOrder, CallStandsInOrder, TypeOK
  <2>3. /\ UNCHANGED <<usage, callIndex, execStatus, claimed>>
        /\ callStatus' = [callStatus EXCEPT ![calling[w]] = "failed"]
    BY <1>7 DEF RecordFailure, execVars
  <2>4. /\ pc'[w] = "finish_failed"
        /\ \A v \in Worker \ {w} : pc'[v] = pc[v] /\ calling'[v] = calling[v]
    BY <1>1, <1>7 DEF RecordFailure, GoTo, TypeOK
  <2>5. AtIndex
    BY <1>1, <2>1, <2>2, <2>3, <2>4 DEF AtIndex, TypeOK
  <2>6. QED
    BY <2>5 DEF Orderly
<1>8. QED
  BY <1>2, <1>3, <1>4, <1>5, <1>6, <1>7 DEF WorkerMoves, Orderly

LEMMA RejectFlowIsAtIndex ==
  ASSUME IInv, GateInv, InOrder, NEW c \in Call, reqStatus[c] = "pending", RejectFlow(c)
  PROVE  AtIndex
<1>1. TypeOK /\ TaskOf[c] \in Task /\ callStatus[c] = "awaiting_approval"
  BY ColumnTypes DEF IInv, GateInv, CallAwaitsRequest
<1>2. OrderIndex[c] = callIndex[TaskOf[c]] /\ execStatus[TaskOf[c]] # "none"
  <2>1. CallStandsInOrder(c) /\ OrderIndex[c] \in Nat /\ callIndex[TaskOf[c]] \in Nat
    BY <1>1, ColumnTypes DEF InOrder, TypeOK
  <2>2. QED
    BY <1>1, <2>1 DEF CallStandsInOrder
<1>3. /\ UNCHANGED <<usage, callIndex, pc, claimed, calling>>
      /\ callStatus' = [callStatus EXCEPT ![c] = "rejected"]
  BY DEF RejectFlow, workerVars
<1>4. execStatus' = execStatus \/ execStatus' = [execStatus EXCEPT ![TaskOf[c]] = "failed"]
  BY DEF RejectFlow
<1>5. \A t \in Task : execStatus'[t] = execStatus[t] \/ execStatus'[t] = "failed"
  BY <1>1, <1>4 DEF TypeOK
<1>6. \A d \in Call : callStatus'[d] = callStatus[d] \/ (d = c /\ callStatus'[d] = "rejected")
  BY <1>1, <1>3 DEF TypeOK
<1>7. QED
  BY <1>1, <1>2, <1>3, <1>5, <1>6 DEF AtIndex

LEMMA EveryStepIsOrderly ==
  ASSUME IInv, GateInv, InOrder, [Next]_vars
  PROVE  Orderly
<1>1. TypeOK
  BY DEF IInv
<1>2. CASE UNCHANGED vars \/ \E t \in Task : LeaseExpires(t)
  <2>1. UNCHANGED <<usage, callIndex, callStatus, execStatus, pc, claimed, calling>>
    BY <1>2 DEF vars, execVars, workerVars, LeaseExpires
  <2>2. QED
    BY <1>1, <2>1, RestIsAtIndex DEF Orderly
<1>3. ASSUME NEW w \in Worker, Drop(w) PROVE Orderly
  <2>1. UNCHANGED <<usage, callIndex, callStatus, execStatus>>
    BY <1>3 DEF Drop, execVars
  <2>2. /\ pc'[w] = "resumable"
        /\ \A v \in Worker \ {w} :
             pc'[v] = pc[v] /\ claimed'[v] = claimed[v] /\ calling'[v] = calling[v]
    BY <1>1, <1>3 DEF Drop, GoTo, TypeOK
  <2>3. QED
    BY <1>1, <2>1, <2>2, RestIsAtIndex DEF Orderly
<1>4. ASSUME NEW t \in Task, Cancel(t) PROVE Orderly
  <2>1. UNCHANGED <<usage, callIndex, callStatus, pc, claimed, calling>>
    BY <1>4 DEF Cancel, workerVars
  <2>2. \A u \in Task : execStatus'[u] = execStatus[u] \/ execStatus'[u] = "cancelled"
    BY <1>1, <1>4 DEF Cancel, ReleaseExecution, TypeOK
  <2>3. QED
    BY <1>1, <2>1, <2>2, RestIsAtIndex DEF Orderly
<1>5. ASSUME NEW c \in Call,
             \/ \E role \in Role : ApproveStep(c, role) \/ ApproveLast(c, role)
             \/ DeadlinePasses(c) \/ SweepEscalate(c)
      PROVE  Orderly
  <2>1. UNCHANGED <<usage, callIndex, callStatus, pc, claimed, calling>>
    BY <1>5 DEF ApproveStep, ApproveLast, ResumeFlow, DeadlinePasses, SweepEscalate,
       execVars, workerVars
  <2>2. \A u \in Task : execStatus'[u] = execStatus[u] \/ execStatus'[u] = "running"
    BY <1>1, <1>5 DEF ApproveStep, ApproveLast, ResumeFlow, DeadlinePasses, SweepEscalate,
       execVars, TypeOK
  <2>3. QED
    BY <1>1, <2>1, <2>2, RestIsAtIndex DEF Orderly
<1>6. ASSUME NEW c \in Call, SweepReject(c) \/ \E role \in Role : Reject(c, role)
      PROVE  Orderly
  <2>1. reqStatus[c] = "pending" /\ RejectFlow(c)
    BY <1>6 DEF Reject, MayDecide, SweepReject, Expired
  <2>2. QED
    BY <1>1, <2>1, RejectFlowIsAtIndex DEF Orderly
<1>7. QED
  BY <1>2, <1>3, <1>4, <1>5, <1>6, WorkerIsOrderly DEF Next, SweepOne

LEMMA OrderStep ==
  ASSUME IInv, GateInv, InOrder, Held, [Next]_vars
  PROVE  InOrder'
BY EveryStepIsOrderly, AtIndexKeepsOrder, ClaimKeepsOrder, SuccessKeepsOrder DEF Orderly, IInv

(* A goroutine in a tool is the only one that writes the call it runs.     *)
LEMMA ToolsStep ==
  ASSUME IInv, GateInv, Held, ToolsExecute, [Next]_vars
  PROVE  ToolsExecute'
<1> SUFFICES ASSUME NEW w \in Worker, pc'[w] = "tool" PROVE callStatus'[calling'[w]] = "executing"
  BY DEF ToolsExecute
<1>1. TypeOK /\ WorkersKnow
  BY DEF IInv
<1>2. ASSUME pc[w] = "tool", calling'[w] = calling[w],
             callStatus'[calling[w]] = callStatus[calling[w]]
      PROVE  callStatus'[calling'[w]] = "executing"
  BY <1>2 DEF ToolsExecute
<1>3. ASSUME NEW v \in Worker, WorkerMoves(v) PROVE callStatus'[calling'[w]] = "executing"
  <2>1. CASE v = w
    <3>1. ~NextCallRun(w) => pc'[w] # "tool"
      BY <1>1, <1>3, <2>1 DEF WorkerMoves, ClaimResumable, ClaimResumableMiss, ClaimQueued,
         ClaimQueuedMiss, NextCallLeaves, NextCallPasses, NextCallRaise, RecordAbandoned,
         RecordSuccess, RecordFailure, FinishAbandoned, Finish, Take, GiveUp, GoTo, TypeOK
    <3>2. PICK c \in Current(claimed[w]) :
             /\ callStatus' = [callStatus EXCEPT ![c] = "executing"]
             /\ calling' = [calling EXCEPT ![w] = c]
      BY <3>1 DEF NextCallRun
    <3>3. QED
      BY <1>1, <3>2 DEF Current, TypeOK
  <2>2. CASE v # w
    <3>1. pc[w] = "tool" /\ calling'[w] = calling[w]
      BY <1>1, <1>3, <2>2 DEF WorkerMoves, ClaimResumable, ClaimResumableMiss, ClaimQueued,
         ClaimQueuedMiss, NextCallLeaves, NextCallPasses, NextCallRaise, NextCallRun,
         RecordAbandoned, RecordSuccess, RecordFailure, FinishAbandoned, Finish,
         Take, GiveUp, GoTo, TypeOK
    <3>2. calling[w] \in Call /\ TaskOf[calling[w]] = claimed[w] /\ claimed[w] \in Task
      BY <1>1, <3>1 DEF WorkersKnow
    <3>3. claimed[v] # TaskOf[calling[w]]
      BY <2>2, <3>2, NullValues DEF Held, OneRunner
    <3>4. CASE NextCallRaise(v) \/ NextCallRun(v)
      <4>1. PICK c \in Current(claimed[v]), status \in CallStatus :
              callStatus' = [callStatus EXCEPT ![c] = status]
        BY <3>4 DEF NextCallRaise, NextCallRun, CallStatus
      <4>2. c # calling[w]
        BY <3>3, <4>1 DEF Current
      <4>3. QED
        BY <1>1, <1>2, <3>1, <3>2, <4>1, <4>2 DEF TypeOK
    <3>5. CASE RecordSuccess(v) \/ RecordFailure(v)
      <4>1. calling[v] # calling[w]
        BY <1>1, <3>3, <3>5 DEF RecordSuccess, RecordFailure, WorkersKnow
      <4>2. QED
        BY <1>1, <1>2, <3>1, <3>2, <3>5, <4>1 DEF RecordSuccess, RecordFailure, TypeOK
    <3>6. CASE ~NextCallRaise(v) /\ ~NextCallRun(v) /\ ~RecordSuccess(v) /\ ~RecordFailure(v)
      <4>1. UNCHANGED callStatus
        BY <1>3, <3>6 DEF WorkerMoves, ClaimResumable, ClaimResumableMiss, ClaimQueued,
           ClaimQueuedMiss, NextCallLeaves, NextCallPasses, RecordAbandoned, FinishAbandoned, Finish
      <4>2. QED
        BY <1>2, <3>1, <4>1
    <3>7. QED
      BY <3>4, <3>5, <3>6
  <2>3. QED
    BY <2>1, <2>2
<1>4. CASE \/ UNCHANGED vars \/ \E v \in Worker : Drop(v)
           \/ \E t \in Task : LeaseExpires(t) \/ Cancel(t)
  <2>1. pc[w] = "tool" /\ calling'[w] = calling[w] /\ UNCHANGED callStatus
    BY <1>1, <1>4 DEF vars, workerVars, Drop, GoTo, LeaseExpires, Cancel, TypeOK
  <2>2. QED
    BY <1>2, <2>1
<1>5. ASSUME NEW c \in Call,
             \/ \E role \in Role : ApproveStep(c, role) \/ ApproveLast(c, role) \/ Reject(c, role)
             \/ DeadlinePasses(c) \/ SweepOne(c)
      PROVE  callStatus'[calling'[w]] = "executing"
  <2>1. pc[w] = "tool" /\ calling'[w] = calling[w] /\ calling[w] \in Call
    BY <1>1, <1>5 DEF ApproveStep, ApproveLast, Reject, DeadlinePasses, SweepOne, SweepEscalate,
       SweepReject, ResumeFlow, RejectFlow, workerVars, WorkersKnow
  <2>2. \/ UNCHANGED callStatus
        \/ reqStatus[c] = "pending" /\ callStatus' = [callStatus EXCEPT ![c] = "rejected"]
    BY <1>5 DEF ApproveStep, ApproveLast, Reject, DeadlinePasses, SweepOne, SweepEscalate,
       SweepReject, ResumeFlow, RejectFlow, MayDecide, Expired
  <2>3. reqStatus[c] = "pending" => callStatus[c] = "awaiting_approval"
    BY DEF GateInv, CallAwaitsRequest
  <2>4. callStatus'[calling[w]] = callStatus[calling[w]]
    BY <1>1, <2>1, <2>2, <2>3 DEF ToolsExecute, TypeOK
  <2>5. QED
    BY <1>2, <2>1, <2>4
<1>6. QED
  BY <1>3, <1>4, <1>5 DEF Next

LEMMA OrderInit == Init => OrderInv
<1> SUFFICES ASSUME Init PROVE OrderInv
  OBVIOUS
<1>1. OneRunner /\ LeaseHeld
  BY NullValues DEF Init, OneRunner, LeaseHeld
<1>2. ASSUME NEW c \in Call PROVE CallStandsInOrder(c)
  BY ColumnTypes DEF Init, CallStandsInOrder
<1>3. QED
  BY <1>1, <1>2 DEF Init, OrderInv, WorkerStandsAt, ToolsExecute

LEMMA OrderInvariance ==
  ASSUME StepsFitLease
  PROVE  Spec => [](IInv /\ GateInv /\ OrderInv)
<1>1. Init => IInv /\ GateInv /\ OrderInv
  BY InductiveInit, GateInit, OrderInit
<1>2. IInv /\ GateInv /\ OrderInv /\ [Next]_vars => (IInv /\ GateInv /\ OrderInv)'
  <2> SUFFICES ASSUME IInv, GateInv, OrderInv, [Next]_vars PROVE (IInv /\ GateInv /\ OrderInv)'
    OBVIOUS
  <2>1. IInv' /\ GateInv'
    BY InductiveStep, GateStep
  <2>2. Held /\ InOrder /\ ToolsExecute
    BY DEF OrderInv, Held, InOrder
  <2>3. Held' /\ InOrder' /\ ToolsExecute'
    BY <2>2, HeldStep, OrderStep, ToolsStep
  <2>4. QED
    BY <2>1, <2>3 DEF OrderInv, Held, InOrder
<1>3. QED
  BY <1>1, <1>2, PTL DEF Spec

-----------------------------------------------------------------------------
(* What follows                                                            *)

(* Where leases are renewed in time, no two goroutines ever work on the    *)
(* same task, however many crash or resume.                                *)
THEOREM OneGoroutinePerTask ==
  ASSUME StepsFitLease
  PROVE  Spec => []OneRunner
<1>1. OrderInv => OneRunner
  BY DEF OrderInv
<1>2. QED
  BY <1>1, OrderInvariance, PTL

(* Then the calls of a task run one after the other: a call is not touched *)
(* before all calls ahead of it are completed.                             *)
THEOREM CallsRunInOrder ==
  ASSUME StepsFitLease
  PROVE  Spec => []CallsInOrder
<1>1. ASSUME IInv, OrderInv, NEW c \in Call, NEW d \in Call, TaskOf[c] = TaskOf[d],
             OrderIndex[d] < OrderIndex[c], callStatus[c] # "pending"
      PROVE  callStatus[d] = "completed"
  <2>1. CallStandsInOrder(c) /\ CallStandsInOrder(d)
    BY <1>1 DEF OrderInv
  <2>2. OrderIndex[c] \in Nat /\ OrderIndex[d] \in Nat /\ callIndex[TaskOf[c]] \in Nat
    BY <1>1, ColumnTypes DEF IInv, TypeOK
  <2>3. QED
    BY <1>1, <2>1, <2>2 DEF CallStandsInOrder
<1>2. IInv /\ OrderInv => CallsInOrder
  BY <1>1 DEF CallsInOrder
<1>3. QED
  BY <1>2, OrderInvariance, PTL

(* Then a task that is reported completed has completed all its calls: the *)
(* index passed them all, because their numbers have no gaps.              *)
THEOREM CompletedTasksAreDone ==
  ASSUME StepsFitLease
  PROVE  Spec => []CompletedMeansAllDone
<1>1. ASSUME IInv, OrderInv, NEW c \in Call, taskStatus[TaskOf[c]] = "completed"
      PROVE  callStatus[c] = "completed"
  <2>1. /\ TaskOf[c] \in Task /\ OrderIndex[c] \in Nat /\ callIndex[TaskOf[c]] \in Nat
        /\ CallStandsInOrder(c)
    BY <1>1, ColumnTypes DEF IInv, TypeOK, OrderInv
  <2>2. Current(TaskOf[c]) = {}
    BY <1>1, <2>1 DEF IInv, StatusesAgree, OrderInv
  <2>3. callIndex[TaskOf[c]] \notin 0 .. OrderIndex[c]
    BY <2>2, CallsNumbered DEF Current
  <2>4. QED
    BY <2>1, <2>3 DEF CallStandsInOrder
<1>2. IInv /\ OrderInv => CompletedMeansAllDone
  BY <1>1 DEF CompletedMeansAllDone
<1>3. QED
  BY <1>2, OrderInvariance, PTL

(* Then exactly the completed calls are billed.                            *)
THEOREM BillingIsExact ==
  ASSUME StepsFitLease
  PROVE  Spec => []BilledIffCompleted
<1>1. OrderInv => BilledIffCompleted
  BY DEF OrderInv, BilledIffCompleted, CallStandsInOrder
<1>2. QED
  BY <1>1, OrderInvariance, PTL

(* Then a call that has completed stays completed.                         *)
THEOREM CompletedCallsStay ==
  ASSUME StepsFitLease
  PROVE  Spec => CompletedCallStays
<1> DEFINE Stay == \A c \in Call : callStatus[c] = "completed" => callStatus'[c] = "completed"
<1>1. IInv /\ GateInv /\ OrderInv /\ [Next]_vars => [Stay]_vars
  <2> SUFFICES ASSUME IInv, GateInv, OrderInv, [Next]_vars,
                      NEW c \in Call, callStatus[c] = "completed"
               PROVE  callStatus'[c] = "completed"
    OBVIOUS
  <2>1. Orderly
    BY EveryStepIsOrderly DEF OrderInv, InOrder
  <2>2. ASSUME NEW w \in Worker, RecordSuccess(w) PROVE callStatus'[c] = "completed"
    BY <2>2 DEF RecordSuccess, IInv, TypeOK
  <2>3. QED
    BY <2>1, <2>2 DEF Orderly, AtIndex, ClaimQueued
<1>2. QED
  BY <1>1, OrderInvariance, PTL DEF Spec, CompletedCallStays
-----------------------------------------------------------------------------
(* The journal                                                             *)

TaskTold == \A t \in Task : taskStatus'[t] # taskStatus[t] =>
              journal'[<<"task", t>>] = Row(taskStatus[t], taskStatus'[t])
CallTold == \A c \in Call : callStatus'[c] # callStatus[c] =>
              journal'[<<"tool_call", c>>] = Row(callStatus[c], callStatus'[c])
ExecutionTold == \A t \in Task : execStatus'[t] # execStatus[t] /\ ~CancelledParked(t) =>
              journal'[<<"execution", t>>] = Row(execStatus[t], execStatus'[t])

(* Rows about a task and its execution, written side by side, are rows     *)
(* about this task alone; a row about a call is about this call alone.     *)
LEMMA TaskRows ==
  ASSUME TypeOK, NEW t \in Task, NEW r, NEW x,
         journal' = [journal EXCEPT ![<<"task", t>>] = r, ![<<"execution", t>>] = x]
  PROVE  journal'[<<"task", t>>] = r /\ journal'[<<"execution", t>>] = x
BY DEF TypeOK, Entity

LEMMA CallRow ==
  ASSUME TypeOK, NEW c \in Call, NEW r,
         journal' = [journal EXCEPT ![<<"tool_call", c>>] = r]
  PROVE  journal'[<<"tool_call", c>>] = r
BY DEF TypeOK, Entity

LEMMA WorkerTells ==
  ASSUME IInv, ToolsExecute, NEW w \in Worker, WorkerMoves(w)
  PROVE  TaskTold /\ CallTold /\ ExecutionTold
<1>1. TypeOK /\ WorkersKnow /\ StatusesAgree
  BY DEF IInv
<1>2. ASSUME NEW t \in Task, NEW s \in Slot, ClaimQueued(w, t, s)
      PROVE  TaskTold /\ CallTold /\ ExecutionTold
  <2>1. execStatus[t] = "none" /\ taskStatus[t] = "queued"
    BY <1>2, QueuedHasNoExecution DEF ClaimQueued, IInv
  <2>2. /\ journal'[<<"task", t>>] = Row("queued", "running")
        /\ journal'[<<"execution", t>>] = Row("none", "running")
    BY <1>1, <1>2, TaskRows DEF ClaimQueued
  <2>3. /\ taskStatus' = [taskStatus EXCEPT ![t] = "running"]
        /\ execStatus' = [execStatus EXCEPT ![t] = "running"]
        /\ UNCHANGED callStatus
    BY <1>2 DEF ClaimQueued
  <2>4. QED
    BY <1>1, <2>1, <2>2, <2>3 DEF TypeOK, TaskTold, CallTold, ExecutionTold
<1>3. CASE Finish(w)
  <2> DEFINE t == claimed[w]
  <2>1. t \in Task /\ execStatus[t] = "running" /\ taskStatus[t] = "running"
    BY <1>1, <1>3 DEF Finish, Finishing, StillRunning, WorkersKnow, StatusesAgree
  <2>2. /\ journal'[<<"task", t>>] = Row("running", Outcome(w))
        /\ journal'[<<"execution", t>>] = Row("running", Outcome(w))
    BY <1>1, <1>3, <2>1 DEF Finish, TypeOK, Entity
  <2>3. /\ taskStatus' = [taskStatus EXCEPT ![t] = Outcome(w)]
        /\ execStatus' = [execStatus EXCEPT ![t] = Outcome(w)]
        /\ UNCHANGED callStatus /\ Outcome(w) # "cancelled"
    BY <1>3 DEF Finish, Outcome
  <2>4. QED
    BY <1>1, <2>1, <2>2, <2>3 DEF TypeOK, TaskTold, CallTold, ExecutionTold
<1>4. CASE NextCallRaise(w)
  <2> DEFINE t == claimed[w]
  <2>1. t \in Task /\ execStatus[t] = "running" /\ taskStatus[t] = "running"
    BY <1>1, <1>4 DEF NextCallRaise, StillRunning, WorkersKnow, StatusesAgree
  <2>2. PICK c \in Current(t) :
          /\ callStatus' = [callStatus EXCEPT ![c] = "awaiting_approval"]
          /\ journal' = [journal EXCEPT
                ![<<"tool_call", c>>] = Row(callStatus[c], "awaiting_approval"),
                ![<<"task", t>>] = Row("running", "awaiting_approval"),
                ![<<"execution", t>>] = Row("running", "awaiting_approval")]
    BY <1>4 DEF NextCallRaise
  <2>3. c \in Call
    BY <2>2 DEF Current
  <2>4. /\ journal'[<<"tool_call", c>>] = Row(callStatus[c], "awaiting_approval")
        /\ journal'[<<"task", t>>] = Row("running", "awaiting_approval")
        /\ journal'[<<"execution", t>>] = Row("running", "awaiting_approval")
    BY <1>1, <2>1, <2>2, <2>3 DEF TypeOK, Entity
  <2>5. /\ taskStatus' = [taskStatus EXCEPT ![t] = "awaiting_approval"]
        /\ execStatus' = [execStatus EXCEPT ![t] = "awaiting_approval"]
    BY <1>4 DEF NextCallRaise
  <2>6. QED
    BY <1>1, <2>1, <2>2, <2>3, <2>4, <2>5
       DEF TypeOK, TaskTold, CallTold, ExecutionTold
<1>5. ASSUME NEW c \in Call, NEW status,
             callStatus' = [callStatus EXCEPT ![c] = status],
             journal' = [journal EXCEPT ![<<"tool_call", c>>] = Row(callStatus[c], status)],
             UNCHANGED <<taskStatus, execStatus>>
      PROVE  TaskTold /\ CallTold /\ ExecutionTold
  <2>1. journal'[<<"tool_call", c>>] = Row(callStatus[c], status)
    BY <1>1, <1>5, CallRow
  <2>2. QED
    BY <1>1, <1>5, <2>1 DEF TypeOK, TaskTold, CallTold, ExecutionTold
<1>6. CASE NextCallRun(w)
  <2>1. PICK c \in Current(claimed[w]) :
          /\ callStatus' = [callStatus EXCEPT ![c] = "executing"]
          /\ journal' = [journal EXCEPT
                           ![<<"tool_call", c>>] = Row(callStatus[c], "executing")]
    BY <1>6 DEF NextCallRun
  <2>2. c \in Call /\ UNCHANGED <<taskStatus, execStatus>>
    BY <1>6, <2>1 DEF NextCallRun, Current
  <2>3. QED
    BY <1>5, <2>1, <2>2
<1>7. CASE RecordSuccess(w) \/ RecordFailure(w)
  <2>1. calling[w] \in Call /\ callStatus[calling[w]] = "executing"
    BY <1>1, <1>7 DEF RecordSuccess, RecordFailure, WorkersKnow, ToolsExecute
  <2>2. UNCHANGED <<taskStatus, execStatus>>
    BY <1>7 DEF RecordSuccess, RecordFailure, execVars
  <2>3. CASE RecordSuccess(w)
    BY <1>5, <2>1, <2>2, <2>3 DEF RecordSuccess
  <2>4. CASE RecordFailure(w)
    BY <1>5, <2>1, <2>2, <2>4 DEF RecordFailure
  <2>5. QED
    BY <1>7, <2>3, <2>4
<1>8. CASE \/ \E t \in Task : ClaimResumable(w, t)
           \/ ClaimResumableMiss(w) \/ ClaimQueuedMiss(w) \/ NextCallLeaves(w)
           \/ NextCallPasses(w) \/ RecordAbandoned(w) \/ FinishAbandoned(w)
  <2>1. UNCHANGED <<taskStatus, callStatus, execStatus>>
    BY <1>8 DEF ClaimResumable, ClaimResumableMiss, ClaimQueuedMiss, NextCallLeaves,
       NextCallPasses, RecordAbandoned, FinishAbandoned, execVars
  <2>2. QED
    BY <2>1 DEF TaskTold, CallTold, ExecutionTold
<1>9. QED
  BY <1>2, <1>3, <1>4, <1>6, <1>7, <1>8 DEF WorkerMoves

LEMMA CancelTells ==
  ASSUME IInv, NEW t \in Task, Cancel(t)
  PROVE  TaskTold /\ CallTold /\ ExecutionTold
<1>1. TypeOK
  BY DEF IInv
<1>2. journal'[<<"task", t>>] = Row(taskStatus[t], "cancelled")
  BY <1>1 DEF Cancel, CancelRow, TypeOK, Entity
<1>3. Active(t) => journal'[<<"execution", t>>] = Row("running", "cancelled")
  BY <1>1 DEF Cancel, TypeOK, Entity
<1>4. /\ taskStatus' = [taskStatus EXCEPT ![t] = "cancelled"] /\ UNCHANGED callStatus
      /\ execStatus' = IF Active(t) THEN [execStatus EXCEPT ![t] = "cancelled"] ELSE execStatus
  BY DEF Cancel, ReleaseExecution
<1>5. TaskTold /\ CallTold
  BY <1>1, <1>2, <1>4 DEF TypeOK, TaskTold, CallTold
<1>6. ExecutionTold
  BY <1>1, <1>3, <1>4 DEF TypeOK, ExecutionTold, Active, CancelledParked
<1>7. QED
  BY <1>5, <1>6

(* A decision on the request of a cancelled task changes the call only.    *)
LEMMA ApprovalsTell ==
  ASSUME IInv, GateInv, NEW c \in Call,
         \/ \E role \in Role : ApproveStep(c, role) \/ ApproveLast(c, role) \/ Reject(c, role)
         \/ DeadlinePasses(c) \/ SweepOne(c)
  PROVE  TaskTold /\ CallTold /\ ExecutionTold
<1> DEFINE t == TaskOf[c]
<1>1. TypeOK /\ t \in Task
  BY ColumnTypes DEF IInv
<1>2. taskStatus[t] = "awaiting_approval" <=> execStatus[t] = "awaiting_approval"
  BY <1>1 DEF IInv, StatusesAgree
<1>3. ASSUME ResumeFlow(c) PROVE TaskTold /\ CallTold /\ ExecutionTold
  <2>1. CASE execStatus[t] = "awaiting_approval"
    <3>1. /\ journal'[<<"task", t>>] = Row("awaiting_approval", "running")
          /\ journal'[<<"execution", t>>] = Row("awaiting_approval", "running")
      BY <1>1, <1>3, <2>1 DEF ResumeFlow, TypeOK, Entity
    <3>2. /\ taskStatus' = [taskStatus EXCEPT ![t] = "running"]
          /\ execStatus' = [execStatus EXCEPT ![t] = "running"] /\ UNCHANGED callStatus
      BY <1>2, <1>3, <2>1 DEF ResumeFlow
    <3>3. QED
      BY <1>1, <1>2, <2>1, <3>1, <3>2 DEF TypeOK, TaskTold, CallTold, ExecutionTold
  <2>2. CASE execStatus[t] # "awaiting_approval"
    BY <1>3, <2>2 DEF ResumeFlow, TaskTold, CallTold, ExecutionTold
  <2>3. QED
    BY <2>1, <2>2
<1>4. ASSUME reqStatus[c] = "pending", RejectFlow(c) PROVE TaskTold /\ CallTold /\ ExecutionTold
  <2>1. callStatus[c] = "awaiting_approval"
    BY <1>4 DEF GateInv, CallAwaitsRequest
  <2>2. /\ journal'[<<"tool_call", c>>] = Row("awaiting_approval", "rejected")
        /\ journal'[<<"task", t>>] = Row("awaiting_approval", "failed")
        /\ execStatus[t] = "awaiting_approval" =>
             journal'[<<"execution", t>>] = Row("awaiting_approval", "failed")
    BY <1>1, <1>4 DEF RejectFlow, TypeOK, Entity
  <2>3. /\ callStatus' = [callStatus EXCEPT ![c] = "rejected"]
        /\ taskStatus' = [taskStatus EXCEPT ![t] = IF @ = "awaiting_approval" THEN "failed" ELSE @]
        /\ execStatus' = IF execStatus[t] = "awaiting_approval"
                         THEN [execStatus EXCEPT ![t] = "failed"] ELSE execStatus
    BY <1>4 DEF RejectFlow
  <2>4. TaskTold /\ CallTold
    BY <1>1, <2>1, <2>2, <2>3 DEF TypeOK, TaskTold, CallTold
  <2>5. ExecutionTold
    BY <1>1, <2>2, <2>3 DEF TypeOK, ExecutionTold
  <2>6. QED
    BY <2>4, <2>5
<1>5. CASE DeadlinePasses(c) \/ SweepEscalate(c) \/ \E role \in Role : ApproveStep(c, role)
  BY <1>5 DEF DeadlinePasses, SweepEscalate, ApproveStep, execVars, TaskTold, CallTold, ExecutionTold
<1>6. CASE \E role \in Role : ApproveLast(c, role)
  BY <1>3, <1>6 DEF ApproveLast
<1>7. CASE SweepReject(c) \/ \E role \in Role : Reject(c, role)
  BY <1>4, <1>7 DEF SweepReject, Expired, Reject, MayDecide
<1>8. QED
  BY <1>5, <1>6, <1>7 DEF SweepOne

(* Only a cancellation makes an execution a cancelled one, and it says so. *)
ParkedTold == \A t \in Task : CancelledParked(t) => journal'[<<"execution", t>>].to = "cancelled"

LEMMA CancelTellsParked ==
  ASSUME TypeOK, Next
  PROVE  ParkedTold
<1> SUFFICES ASSUME NEW t \in Task, CancelledParked(t)
             PROVE  journal'[<<"execution", t>>].to = "cancelled"
  BY DEF ParkedTold
<1>1. ASSUME NEW u \in Task, Cancel(u) PROVE journal'[<<"execution", t>>].to = "cancelled"
  <2>1. u = t
    BY <1>1 DEF Cancel, ReleaseExecution, TypeOK, CancelledParked
  <2>2. journal'[<<"execution", t>>] = Row("running", "cancelled")
    BY <1>1, <2>1 DEF Cancel, Active, CancelledParked, TypeOK, Entity
  <2>3. QED
    BY <2>2 DEF Row
<1>2. ASSUME NEW w \in Worker, WorkerMoves(w) PROVE FALSE
  BY <1>2 DEF WorkerMoves, ClaimQueued, ClaimResumable, ClaimResumableMiss, ClaimQueuedMiss,
     NextCallRun, NextCallRaise, NextCallLeaves, NextCallPasses, RecordSuccess, RecordFailure,
     RecordAbandoned, Finish, FinishAbandoned, Outcome, execVars, TypeOK, CancelledParked
<1>3. ASSUME NEW c \in Call,
             \/ \E role \in Role : ApproveStep(c, role) \/ ApproveLast(c, role) \/ Reject(c, role)
             \/ DeadlinePasses(c) \/ SweepOne(c)
      PROVE  FALSE
  BY <1>3 DEF ApproveStep, ApproveLast, Reject, DeadlinePasses, SweepOne, SweepEscalate,
     SweepReject, ResumeFlow, RejectFlow, execVars, TypeOK, CancelledParked
<1>4. ASSUME \/ \E w \in Worker : Drop(w)
             \/ \E u \in Task : LeaseExpires(u)
      PROVE  FALSE
  BY <1>4 DEF Drop, LeaseExpires, execVars, CancelledParked
<1>5. QED
  BY <1>1, <1>2, <1>3, <1>4 DEF Next

(* Whatever changes the status of a task or a call says so in the journal, *)
(* from the status there was to the status there is, and so does whatever  *)
(* changes that of an execution, but for the cancellation of a parked one, *)
(* of which only the new status is claimed to be right.  That a recorded call was  *)
(* executing is what needs leases renewed in time.                         *)
THEOREM JournalTellsChanges ==
  ASSUME StepsFitLease
  PROVE  Spec => ChangesAreJournalled
<1> DEFINE Told == TaskTold /\ CallTold /\ ExecutionTold /\ ParkedTold
<1>1. IInv /\ GateInv /\ OrderInv /\ [Next]_vars => [Told]_vars
  <2> SUFFICES ASSUME IInv, GateInv, OrderInv, [Next]_vars PROVE Told
    OBVIOUS
  <2>1. ToolsExecute
    BY DEF OrderInv
  <2>2. CASE \/ UNCHANGED vars \/ \E w \in Worker : Drop(w)
             \/ \E t \in Task : LeaseExpires(t)
    BY <2>2 DEF vars, execVars, Drop, LeaseExpires, TaskTold, CallTold, ExecutionTold,
       ParkedTold, CancelledParked
  <2>3. QED
    BY <2>1, <2>2, WorkerTells, CancelTells, ApprovalsTell, CancelTellsParked DEF Next, IInv
<1>2. [Told]_vars =>
        [/\ \A t \in Task : taskStatus'[t] # taskStatus[t] =>
              journal'[<<"task", t>>] = Row(taskStatus[t], taskStatus'[t])
         /\ \A c \in Call : callStatus'[c] # callStatus[c] =>
              journal'[<<"tool_call", c>>] = Row(callStatus[c], callStatus'[c])
         /\ \A t \in Task : execStatus'[t] # execStatus[t] /\ ~CancelledParked(t) =>
              journal'[<<"execution", t>>] = Row(execStatus[t], execStatus'[t])
         /\ \A t \in Task : CancelledParked(t) =>
              journal'[<<"execution", t>>].to = "cancelled"]_vars
  BY DEF TaskTold, CallTold, ExecutionTold, ParkedTold
<1>3. QED
  BY <1>1, <1>2, OrderInvariance, PTL DEF Spec, ChangesAreJournalled
=============================================================================
