----------------------------- MODULE Approvals ------------------------------
(***************************************************************************)
(* internal/approvals: people decide on an approval request step by step   *)
(* (decide.go), and the sweeper escalates or rejects a step whose deadline *)
(* has passed (sweep.go).  A request is identified by its tool call:       *)
(* approval_requests.tool_call_id is unique.                               *)
(***************************************************************************)
EXTENDS Tables

-----------------------------------------------------------------------------
StepOf(c) == ChainOf(c)[reqStep[c]]

(* Mutant: off by one. *)
HasNextButOne(c) == reqStep[c] + 1 < Len(ChainOf(c))

HasNext(c) == reqStep[c] < Len(ChainOf(c))

(* Mutants: the status read before the lock is not read again; anybody     *)
(* may decide.                                                             *)
MayDecideLate(c, role) == reqStatus[c] # "none" /\ StepOf(c).role = role
MayDecideAnybody(c, role) == reqStatus[c] = "pending"

(* decide: the request row is locked and still pending (ErrNotActionable), *)
(* and the caller's role is that of the step it stands at (ErrWrongRole).  *)
MayDecide(c, role) == reqStatus[c] = "pending" /\ StepOf(c).role = role

(* An approval_decisions row. *)
Decide(c, role, decision) ==
  decisions' = [decisions EXCEPT ![c] =
    Append(@, [step |-> reqStep[c], role |-> role, decision |-> decision])]

(* The next step of the chain gets a deadline of its own. *)
NextStep(c) ==
  /\ reqStep' = [reqStep EXCEPT ![c] = @ + 1]
  /\ overdue' = [overdue EXCEPT ![c] = FALSE]

ApproveStep(c, role) ==
  /\ MayDecide(c, role)
  /\ HasNext(c)
  /\ Decide(c, role, "approved")
  /\ NextStep(c)
  /\ UNCHANGED <<taskStatus, execVars, slotStatus, callStatus, reqStatus, usage,
                 journal, workerVars>>

(* Mutant: the request is left open. *)
CloseRequestNot(c, status) == UNCHANGED reqStatus

CloseRequest(c, status) == reqStatus' = [reqStatus EXCEPT ![c] = status]

(* resumeFlow: the lease is set to now(), so any worker may pick it up.    *)
(* When no execution awaits (the task was cancelled) only the request is   *)
(* closed.                                                                 *)
ResumeFlow(c) ==
  LET t == TaskOf[c] IN
    /\ CloseRequest(c, "approved")
    /\ IF execStatus[t] = "awaiting_approval"
       THEN /\ execStatus' = [execStatus EXCEPT ![t] = "running"]
            /\ lease' = [lease EXCEPT ![t] = "expired"]
            /\ taskStatus' = [taskStatus EXCEPT ![t] =
                 IF @ = "awaiting_approval" THEN "running" ELSE @]
            /\ journal' = [journal EXCEPT
                 ![<<"execution", t>>] = Row("awaiting_approval", "running"),
                 ![<<"task", t>>] = Row("awaiting_approval", "running")]
       ELSE UNCHANGED <<execStatus, lease, taskStatus, journal>>
    /\ UNCHANGED <<execSlot, callIndex, slotStatus, callStatus, reqStep, overdue,
                   usage, workerVars>>

ApproveLast(c, role) ==
  /\ MayDecide(c, role)
  /\ ~HasNext(c)
  /\ Decide(c, role, "approved")
  /\ ResumeFlow(c)

(* rejectFlow: the call is rejected and, if the task is still parked, its  *)
(* execution fails and gives the slot back.  The row about the task goes   *)
(* into the journal in any case.                                           *)
RejectFlow(c) ==
  LET t == TaskOf[c]
      parked == execStatus[t] = "awaiting_approval" IN
    /\ CloseRequest(c, "rejected")
    /\ callStatus' = [callStatus EXCEPT ![c] = "rejected"]
    /\ IF parked
       THEN /\ execStatus' = [execStatus EXCEPT ![t] = "failed"]
            /\ FreeSlot(execSlot[t])
       ELSE UNCHANGED <<execStatus, slotStatus>>
    /\ taskStatus' = [taskStatus EXCEPT ![t] =
         IF @ = "awaiting_approval" THEN "failed" ELSE @]
    /\ journal' = [journal EXCEPT
         ![<<"tool_call", c>>] = Row("awaiting_approval", "rejected"),
         ![<<"execution", t>>] =
           IF parked THEN Row("awaiting_approval", "failed") ELSE @,
         ![<<"task", t>>] = Row("awaiting_approval", "failed")]
    /\ UNCHANGED <<execSlot, callIndex, lease, reqStep, overdue, usage, workerVars>>

Reject(c, role) ==
  /\ MayDecide(c, role)
  /\ Decide(c, role, "rejected")
  /\ RejectFlow(c)

-----------------------------------------------------------------------------
(* now() passes current_step_deadline. *)
DeadlinePasses(c) ==
  /\ reqStatus[c] = "pending"
  /\ ~overdue[c]
  /\ overdue' = [overdue EXCEPT ![c] = TRUE]
  /\ UNCHANGED <<taskStatus, execVars, slotStatus, callStatus, reqStatus, reqStep,
                 decisions, usage, journal, workerVars>>

(* Mutant: only requests of tasks that still wait are swept. *)
ExpiredAndParked(c) ==
  reqStatus[c] = "pending" /\ overdue[c] /\ taskStatus[TaskOf[c]] = "awaiting_approval"

(* sweepOne takes pending, overdue requests that nobody has locked. *)
Expired(c) == reqStatus[c] = "pending" /\ overdue[c]

Escalates(c) == StepOf(c).onTimeout = "escalate" /\ HasNext(c)

SweepEscalate(c) ==
  /\ Expired(c)
  /\ Escalates(c)
  /\ Decide(c, "system", "timeout_escalated")
  /\ NextStep(c)
  /\ UNCHANGED <<taskStatus, execVars, slotStatus, callStatus, reqStatus, usage,
                 journal, workerVars>>

SweepReject(c) ==
  /\ Expired(c)
  /\ ~Escalates(c)
  /\ Decide(c, "system", "timeout_rejected")
  /\ RejectFlow(c)

SweepOne(c) == SweepEscalate(c) \/ SweepReject(c)
=============================================================================
