---------------------------- MODULE Cancellation ----------------------------
(***************************************************************************)
(* internal/tasks/cancel.go: a member of the organization cancels a task   *)
(* in any state but a terminal one.  Cancel looks at the task and its      *)
(* execution only; tool_calls and approval_requests stay as they are.      *)
(***************************************************************************)
EXTENDS Tables

-----------------------------------------------------------------------------
(* Mutant: a failed task may be cancelled. *)
IsTerminalUnlessFailed(status) == status \in {"completed", "cancelled"}

IsTerminal(status) == status \in Terminal

(* Mutant: a parked execution is overlooked. *)
ReleaseRunningOnly(t) ==
  IF execStatus[t] = "running"
  THEN /\ execStatus' = [execStatus EXCEPT ![t] = "cancelled"]
       /\ FreeSlot(execSlot[t])
  ELSE UNCHANGED <<execStatus, slotStatus>>

(* The execution's row in the journal always says "from running". *)
ReleaseExecution(t) ==
  IF Active(t)
  THEN /\ execStatus' = [execStatus EXCEPT ![t] = "cancelled"]
       /\ FreeSlot(execSlot[t])
  ELSE UNCHANGED <<execStatus, slotStatus>>

(* Mutant: as for the execution, always "from running". *)
CancelRowFromRunning(t) == Row("running", "cancelled")

CancelRow(t) == Row(taskStatus[t], "cancelled")

Cancel(t) ==
  /\ ~IsTerminal(taskStatus[t])
  /\ ReleaseExecution(t)
  /\ taskStatus' = [taskStatus EXCEPT ![t] = "cancelled"]
  /\ journal' = [journal EXCEPT
       ![<<"execution", t>>] =
         IF Active(t) THEN Row("running", "cancelled") ELSE @,
       ![<<"task", t>>] = CancelRow(t)]
  /\ UNCHANGED <<execSlot, callIndex, lease, callStatus, reqVars, usage,
                 workerVars>>
=============================================================================
