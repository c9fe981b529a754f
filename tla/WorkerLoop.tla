----------------------------- MODULE WorkerLoop -----------------------------
(***************************************************************************)
(* internal/worker: a worker goroutine claims a task (claim.go), runs its  *)
(* tool calls one after the other (execute.go) and closes it.  Between two *)
(* transactions everything else in the system may happen; what a goroutine *)
(* remembers across them is pc, claimed and calling.                       *)
(***************************************************************************)
EXTENDS Tables

CONSTANTS
  StepsFitLease,   \* TRUE: two minutes suffice from one renewal to the next
  MaxCrashes       \* bound: how many claimed tasks may be dropped

ASSUME WorkerConstants == StepsFitLease \in BOOLEAN /\ MaxCrashes \in Nat

-----------------------------------------------------------------------------
(* Mutant: the lease is checked but not extended. *)
RenewNot(t) == UNCHANGED lease

Renew(t) == lease' = [lease EXCEPT ![t] = "live"]

GoTo(w, step) == pc' = [pc EXCEPT ![w] = step]

Take(w, t) ==
  /\ GoTo(w, "step")
  /\ claimed' = [claimed EXCEPT ![w] = t]
  /\ UNCHANGED <<calling, crashes>>

(* runExecution returns: Run starts over with claimResumable. *)
GiveUp(w) ==
  /\ GoTo(w, "resumable")
  /\ claimed' = [claimed EXCEPT ![w] = NoTask]
  /\ calling' = [calling EXCEPT ![w] = NoCall]
  /\ UNCHANGED crashes

(* claimResumable: any running execution whose lease ran out.  The order   *)
(* by lease is no promise, because SKIP LOCKED passes over locked rows.    *)
Resumable(t) == execStatus[t] = "running" /\ lease[t] = "expired"

ClaimResumable(w, t) ==
  /\ pc[w] = "resumable"
  /\ Resumable(t)
  /\ Renew(t)
  /\ Take(w, t)
  /\ UNCHANGED <<taskStatus, execStatus, execSlot, callIndex, slotStatus,
                 callStatus, reqVars, usage, journal>>

(* Nothing to resume, or all of it locked by others at that moment. *)
ClaimResumableMiss(w) ==
  /\ pc[w] = "resumable"
  /\ GoTo(w, "queue")
  /\ UNCHANGED <<taskStatus, execVars, slotStatus, callStatus, reqVars, usage,
                 journal, claimed, calling, crashes>>

(* ReserveSlot: the lock on the subscription row makes the count and the   *)
(* update one step.                                                        *)
(* Mutant: off by one. *)
UnderLimitByOne(o) == Cardinality(BusySlots(o)) <= MaxConcurrentSlots[o]

UnderLimit(o) == Cardinality(BusySlots(o)) < MaxConcurrentSlots[o]

(* Mutants: a slot that was free when last read; a slot of any org.        *)
SuitsBusy(s, t) == SlotOrg[s] = TaskOrg[t] /\ SlotType[s] = RequiredSlotType[t]
SuitsAnyOrg(s, t) ==
  SlotType[s] = RequiredSlotType[t] /\ slotStatus[s] = "available"

Suits(s, t) ==
  /\ SlotOrg[s] = TaskOrg[t]
  /\ SlotType[s] = RequiredSlotType[t]
  /\ slotStatus[s] = "available"

ReserveSlot(t, s) ==
  /\ UnderLimit(TaskOrg[t])
  /\ Suits(s, t)
  /\ slotStatus' = [slotStatus EXCEPT ![s] = "busy"]

ClaimQueued(w, t, s) ==
  /\ pc[w] = "queue"
  /\ taskStatus[t] = "queued"
  /\ ReserveSlot(t, s)
  /\ taskStatus' = [taskStatus EXCEPT ![t] = "running"]
  /\ execStatus' = [execStatus EXCEPT ![t] = "running"]
  /\ execSlot' = [execSlot EXCEPT ![t] = s]
  /\ callIndex' = [callIndex EXCEPT ![t] = 0]
  /\ Renew(t)
  /\ Take(w, t)
  /\ journal' = [journal EXCEPT
                   ![<<"task", t>>] = Row("queued", "running"),
                   ![<<"execution", t>>] = Row("none", "running")]
  /\ UNCHANGED <<callStatus, reqVars, usage>>

(* No queued task, no free slot, the plan's limit, or locked rows. *)
ClaimQueuedMiss(w) ==
  /\ pc[w] = "queue"
  /\ GoTo(w, "resumable")
  /\ UNCHANGED <<taskStatus, execVars, slotStatus, callStatus, reqVars, usage,
                 journal, claimed, calling, crashes>>

-----------------------------------------------------------------------------
(* nextCall                                                                *)

(* Mutants: the status is not looked at after the lock; a parked execution *)
(* passes for a running one.                                               *)
StillRunningOrNot(t) == TRUE
StillRunningOrParked(t) == Active(t)

StillRunning(t) == execStatus[t] = "running"

NeedsApproval(c) ==
  /\ RiskLevel[c] # "read"
  /\ EstimatedCost[c] >= AutoApproveThreshold[TaskOrg[TaskOf[c]]]

(* Mutant: a failed call counts as done. *)
VerdictSkipsFailed(c) ==
  CASE callStatus[c] \in {"completed", "failed"} -> "skip"
    [] callStatus[c] = "awaiting_approval" ->
         IF reqStatus[c] = "approved" THEN "run" ELSE "stop"
    [] callStatus[c] = "pending" /\ NeedsApproval(c) /\ ChainOf(c) # << >> ->
         "raise"
    [] OTHER -> "run"

(* What nextCall does with the call at the current index.  A call that was *)
(* executing or failed when a worker gave up falls through to "run".       *)
Verdict(c) ==
  CASE callStatus[c] = "completed" -> "skip"
    [] callStatus[c] = "awaiting_approval" ->
         IF reqStatus[c] = "approved" THEN "run" ELSE "stop"
    [] callStatus[c] = "pending" /\ NeedsApproval(c) /\ ChainOf(c) # << >> ->
         "raise"
    [] OTHER -> "run"

(* stepAbandoned because the execution is not running any more, or the     *)
(* call's request is not approved (stepPaused and the other stepAbandoned, *)
(* which commit the renewed lease).                                        *)
NextCallLeaves(w) ==
  LET t == claimed[w] IN
    /\ pc[w] = "step"
    /\ StillRunning(t) => \E c \in Current(t) : Verdict(c) = "stop"
    /\ lease' = IF StillRunning(t) THEN [lease EXCEPT ![t] = "live"] ELSE lease
    /\ GiveUp(w)
    /\ UNCHANGED <<taskStatus, execStatus, execSlot, callIndex, slotStatus,
                   callStatus, reqVars, usage, journal>>

(* No call to start here: there is none left (stepDone), or it is complete *)
(* already and the index moves past it (stepSkip).                         *)
NextCallPasses(w) ==
  LET t == claimed[w]
      done == Current(t) = {} IN
    /\ pc[w] = "step"
    /\ StillRunning(t)
    /\ \A c \in Current(t) : Verdict(c) = "skip"
    /\ Renew(t)
    /\ callIndex' = [callIndex EXCEPT ![t] = IF done THEN @ ELSE @ + 1]
    /\ GoTo(w, IF done THEN "finish_completed" ELSE "step")
    /\ UNCHANGED <<taskStatus, execStatus, execSlot, slotStatus, callStatus,
                   reqVars, usage, journal, claimed, calling, crashes>>

(* raiseApproval: the task is parked and keeps its slot. *)
NextCallRaise(w) ==
  LET t == claimed[w] IN
    /\ pc[w] = "step"
    /\ StillRunning(t)
    /\ \E c \in Current(t) :
         /\ Verdict(c) = "raise"
         /\ reqStatus' = [reqStatus EXCEPT ![c] = "pending"]
         /\ reqStep' = [reqStep EXCEPT ![c] = 1]
         /\ callStatus' = [callStatus EXCEPT ![c] = "awaiting_approval"]
         /\ journal' = [journal EXCEPT
                ![<<"tool_call", c>>] = Row(callStatus[c], "awaiting_approval"),
                ![<<"task", t>>] = Row("running", "awaiting_approval"),
                ![<<"execution", t>>] = Row("running", "awaiting_approval")]
    /\ taskStatus' = [taskStatus EXCEPT ![t] = "awaiting_approval"]
    /\ execStatus' = [execStatus EXCEPT ![t] = "awaiting_approval"]
    /\ Renew(t)
    /\ GiveUp(w)
    /\ UNCHANGED <<execSlot, callIndex, slotStatus, overdue, decisions, usage>>

(* The call is marked executing; the tool itself runs after the commit. *)
NextCallRun(w) ==
  LET t == claimed[w] IN
    /\ pc[w] = "step"
    /\ StillRunning(t)
    /\ \E c \in Current(t) :
         /\ Verdict(c) = "run"
         /\ callStatus' = [callStatus EXCEPT ![c] = "executing"]
         /\ journal' = [journal EXCEPT
                          ![<<"tool_call", c>>] = Row(callStatus[c], "executing")]
         /\ calling' = [calling EXCEPT ![w] = c]
    /\ Renew(t)
    /\ GoTo(w, "tool")
    /\ UNCHANGED <<taskStatus, execStatus, execSlot, callIndex, slotStatus,
                   reqVars, usage, claimed, crashes>>

-----------------------------------------------------------------------------
(* recordCall, after the tool has returned                                 *)

RecordAbandoned(w) ==
  /\ pc[w] = "tool"
  /\ ~StillRunning(claimed[w])
  /\ GiveUp(w)
  /\ UNCHANGED <<taskStatus, execVars, slotStatus, callStatus, reqVars, usage,
                 journal>>

(* Mutants: no unique index on tool_call_id; no insert. *)
ChargeAgain(c) == usage' = [usage EXCEPT ![c] = @ + 1]
ChargeNot(c) == UNCHANGED usage

(* insert ... on conflict (tool_call_id) do nothing *)
Charge(c) == usage' = [usage EXCEPT ![c] = IF @ = 0 THEN 1 ELSE @]

(* Mutant: the index is moved twice. *)
AdvanceTwice(t) == callIndex' = [callIndex EXCEPT ![t] = @ + 2]

(* The index advances from where the row stands now, whatever call the     *)
(* goroutine has just run.                                                 *)
Advance(t) == callIndex' = [callIndex EXCEPT ![t] = @ + 1]

RecordSuccess(w) ==
  LET t == claimed[w]
      c == calling[w] IN
    /\ pc[w] = "tool"
    /\ StillRunning(t)
    /\ callStatus' = [callStatus EXCEPT ![c] = "completed"]
    /\ Charge(c)
    /\ Advance(t)
    /\ journal' = [journal EXCEPT
                     ![<<"tool_call", c>>] = Row("executing", "completed")]
    /\ GoTo(w, "step")
    /\ calling' = [calling EXCEPT ![w] = NoCall]
    /\ UNCHANGED <<taskStatus, execStatus, execSlot, lease, slotStatus, reqVars,
                   claimed, crashes>>

RecordFailure(w) ==
  LET c == calling[w] IN
    /\ pc[w] = "tool"
    /\ StillRunning(claimed[w])
    /\ callStatus' = [callStatus EXCEPT ![c] = "failed"]
    /\ journal' = [journal EXCEPT
                     ![<<"tool_call", c>>] = Row("executing", "failed")]
    /\ GoTo(w, "finish_failed")
    /\ calling' = [calling EXCEPT ![w] = NoCall]
    /\ UNCHANGED <<taskStatus, execVars, slotStatus, reqVars, usage, claimed,
                   crashes>>

-----------------------------------------------------------------------------
(* finish                                                                  *)

Finishing(w) == pc[w] \in {"finish_completed", "finish_failed"}

Outcome(w) == IF pc[w] = "finish_completed" THEN "completed" ELSE "failed"

(* The guarded UPDATE returned no row: a cancellation closed it first. *)
FinishAbandoned(w) ==
  /\ Finishing(w)
  /\ ~StillRunning(claimed[w])
  /\ GiveUp(w)
  /\ UNCHANGED <<taskStatus, execVars, slotStatus, callStatus, reqVars, usage,
                 journal>>

Finish(w) ==
  LET t == claimed[w] IN
    /\ Finishing(w)
    /\ StillRunning(t)
    /\ execStatus' = [execStatus EXCEPT ![t] = Outcome(w)]
    /\ FreeSlot(execSlot[t])
    /\ taskStatus' = [taskStatus EXCEPT ![t] = Outcome(w)]
    /\ journal' = [journal EXCEPT
                     ![<<"execution", t>>] = Row("running", Outcome(w)),
                     ![<<"task", t>>] = Row("running", Outcome(w))]
    /\ GiveUp(w)
    /\ UNCHANGED <<execSlot, callIndex, lease, callStatus, reqVars, usage>>

-----------------------------------------------------------------------------
(* The process dies, is shut down while a tool runs, or a transaction      *)
(* fails: nothing is written and the goroutine (or the one that replaces   *)
(* it) starts over.                                                        *)
Drop(w) ==
  /\ claimed[w] # NoTask
  /\ crashes < MaxCrashes
  /\ crashes' = crashes + 1
  /\ GoTo(w, "resumable")
  /\ claimed' = [claimed EXCEPT ![w] = NoTask]
  /\ calling' = [calling EXCEPT ![w] = NoCall]
  /\ UNCHANGED <<taskStatus, execVars, slotStatus, callStatus, reqVars, usage,
                 journal>>

(* now() passes lease_expires_at.  With StepsFitLease a worker always      *)
(* renews in time, so only the lease of an execution that no worker holds  *)
(* runs out.                                                               *)
LeaseExpires(t) ==
  /\ Active(t)
  /\ lease[t] = "live"
  /\ StepsFitLease => \A w \in Worker : claimed[w] # t
  /\ lease' = [lease EXCEPT ![t] = "expired"]
  /\ UNCHANGED <<taskStatus, execStatus, execSlot, callIndex, slotStatus,
                 callStatus, reqVars, usage, journal, workerVars>>

(* Everything goroutine w does of its own accord. *)
WorkerMoves(w) ==
  \/ \E t \in Task : ClaimResumable(w, t)
  \/ ClaimResumableMiss(w)
  \/ \E t \in Task, s \in Slot : ClaimQueued(w, t, s)
  \/ ClaimQueuedMiss(w)
  \/ NextCallLeaves(w)
  \/ NextCallPasses(w)
  \/ NextCallRaise(w)
  \/ NextCallRun(w)
  \/ RecordAbandoned(w)
  \/ RecordSuccess(w)
  \/ RecordFailure(w)
  \/ FinishAbandoned(w)
  \/ Finish(w)
=============================================================================
