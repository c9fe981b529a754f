------------------------------- MODULE Tables -------------------------------
(***************************************************************************)
(* The PostgreSQL tables that the API and worker processes share, the      *)
(* local state of the worker goroutines, and the helpers every component   *)
(* uses.  All coordination in AgentHub goes through these tables, so the   *)
(* component modules (WorkerLoop, Approvals, Cancellation) extend this one *)
(* and AgentHub composes their actions.                                    *)
(*                                                                         *)
(* One action is one database transaction (RowLocks takes the transactions *)
(* apart).  Each transaction that writes a task_executions row locks that  *)
(* row first, or changes it by a guarded UPDATE that re-reads the status   *)
(* under the lock, so transactions about one task take effect one after    *)
(* the other.                                                              *)
(***************************************************************************)
EXTENDS Integers, Sequences, FiniteSets

CONSTANTS
  Org, Task, Call, Slot, Worker,
  TaskOrg, RequiredSlotType,             \* of tasks
  SlotOrg, SlotType,                     \* of agent_slots
  TaskOf, OrderIndex,                    \* of tool_calls
  RiskLevel, EstimatedCost,              \* of tool_calls and their tool
  MaxConcurrentSlots,                    \* of the plan of each organization
  AutoApproveThreshold,                  \* of the plan of each organization
  Chain,                                 \* steps per organization and risk
  NoTask, NoCall, NoSlot

Risk == {"read", "write", "destructive"}
Role == {"owner", "admin", "approver"}
ChainStep == [role : Role, onTimeout : {"escalate", "reject"}]

ASSUME ColumnTypes ==
  /\ TaskOrg \in [Task -> Org]
  /\ SlotOrg \in [Slot -> Org]
  /\ RequiredSlotType \in [Task -> {"standard", "fast"}]
  /\ SlotType \in [Slot -> {"standard", "fast"}]
  /\ TaskOf \in [Call -> Task]
  /\ OrderIndex \in [Call -> Nat]
  /\ RiskLevel \in [Call -> Risk]
  /\ EstimatedCost \in [Call -> Nat]
  /\ MaxConcurrentSlots \in [Org -> Nat \ {0}]
  /\ AutoApproveThreshold \in [Org -> Nat]
  /\ Chain \in [Org -> [Risk -> Seq(ChainStep)]]

ASSUME NullValues == NoTask \notin Task /\ NoCall \notin Call /\ NoSlot \notin Slot

(* agent_slots is a finite table. *)
ASSUME SlotsFinite == IsFiniteSet(Slot)

(* tasks.Service.Create numbers the calls of a task 0, 1, 2, ... without   *)
(* gaps; (task_id, order_index) is unique.                                 *)
ASSUME CallsNumbered ==
  /\ \A c, d \in Call :
       TaskOf[c] = TaskOf[d] /\ OrderIndex[c] = OrderIndex[d] => c = d
  /\ \A c \in Call : \A i \in 0 .. OrderIndex[c] :
       \E d \in Call : TaskOf[d] = TaskOf[c] /\ OrderIndex[d] = i

VARIABLES
  taskStatus,                               \* tasks.status
  execStatus, execSlot, callIndex, lease,   \* task_executions, one per task
  slotStatus,                               \* agent_slots.status
  callStatus,                               \* tool_calls.status
  reqStatus, reqStep, overdue, decisions,   \* approval_requests, ..._decisions
  usage,                                    \* usage_records per tool call
  journal,                                  \* last state_transitions row
  pc, claimed, calling,                     \* the worker goroutines
  crashes                                   \* how often one gave up so far

execVars == <<execStatus, execSlot, callIndex, lease>>
reqVars == <<reqStatus, reqStep, overdue, decisions>>
workerVars == <<pc, claimed, calling, crashes>>
vars == <<taskStatus, execVars, slotStatus, callStatus, reqVars, usage,
          journal, workerVars>>

-----------------------------------------------------------------------------
TaskStatus == {"queued", "running", "awaiting_approval",
               "completed", "failed", "cancelled"}
Terminal == {"completed", "failed", "cancelled"}

(* "none" is the absence of the row. *)
ExecStatus == {"none"} \cup (TaskStatus \ {"queued"})
CallStatus == {"pending", "awaiting_approval", "executing",
               "completed", "failed", "rejected"}
RequestStatus == {"none", "pending", "approved", "rejected"}

(* A person decides in a role; the sweeper decides with no approver_id.    *)
Decision == [step : Nat \ {0}, role : Role \cup {"system"},
             decision : {"approved", "rejected",
                         "timeout_escalated", "timeout_rejected"}]

Entity == ({"task", "execution"} \X Task) \cup ({"tool_call"} \X Call)
Status == {"none", "submitted"} \cup TaskStatus \cup CallStatus

(* audit.Transition: one state_transitions row.  The journal variable      *)
(* keeps the last row of each entity.                                      *)
Row(from, to) == [from |-> from, to |-> to]
NoRow == Row("none", "none")

(* Where a worker goroutine is: looking for resumable work, looking at the *)
(* queue, between two calls, inside a tool, or about to close its task.    *)
WorkerStep == {"resumable", "queue", "step", "tool",
               "finish_completed", "finish_failed"}

TypeOK ==
  /\ taskStatus \in [Task -> TaskStatus]
  /\ execStatus \in [Task -> ExecStatus]
  /\ execSlot \in [Task -> Slot \cup {NoSlot}]
  /\ callIndex \in [Task -> Nat]
  /\ lease \in [Task -> {"live", "expired"}]
  /\ slotStatus \in [Slot -> {"available", "busy"}]
  /\ callStatus \in [Call -> CallStatus]
  /\ reqStatus \in [Call -> RequestStatus]
  /\ reqStep \in [Call -> Nat]
  /\ overdue \in [Call -> BOOLEAN]
  /\ decisions \in [Call -> Seq(Decision)]
  /\ usage \in [Call -> Nat]
  /\ journal \in [Entity -> [from : Status, to : Status]]
  /\ pc \in [Worker -> WorkerStep]
  /\ claimed \in [Worker -> Task \cup {NoTask}]
  /\ calling \in [Worker -> Call \cup {NoCall}]
  /\ crashes \in Nat

(* The tasks have been created: Create leaves each of them queued, its     *)
(* calls pending, and both of its transitions in the journal.              *)
Init ==
  /\ taskStatus = [t \in Task |-> "queued"]
  /\ execStatus = [t \in Task |-> "none"]
  /\ execSlot = [t \in Task |-> NoSlot]
  /\ callIndex = [t \in Task |-> 0]
  /\ lease = [t \in Task |-> "live"]
  /\ slotStatus = [s \in Slot |-> "available"]
  /\ callStatus = [c \in Call |-> "pending"]
  /\ reqStatus = [c \in Call |-> "none"]
  /\ reqStep = [c \in Call |-> 0]
  /\ overdue = [c \in Call |-> FALSE]
  /\ decisions = [c \in Call |-> << >>]
  /\ usage = [c \in Call |-> 0]
  /\ journal = [e \in Entity |->
                  IF e[1] = "task" THEN Row("submitted", "queued") ELSE NoRow]
  /\ pc = [w \in Worker |-> "resumable"]
  /\ claimed = [w \in Worker |-> NoTask]
  /\ calling = [w \in Worker |-> NoCall]
  /\ crashes = 0

-----------------------------------------------------------------------------
(* An execution that still holds its slot. *)
Active(t) == execStatus[t] \in {"running", "awaiting_approval"}

BusySlots(o) == {s \in Slot : SlotOrg[s] = o /\ slotStatus[s] = "busy"}

(* Mutant: a forgotten call. *)
FreeSlotNot(s) == UNCHANGED slotStatus

(* worker.FreeSlot, and the same UPDATE in rejectFlow and releaseExecution *)
FreeSlot(s) == slotStatus' = [slotStatus EXCEPT ![s] = "available"]

ChainOf(c) == Chain[TaskOrg[TaskOf[c]]][RiskLevel[c]]

(* The calls at which the execution of t stands: one, or none at the end.  *)
Current(t) == {c \in Call : TaskOf[c] = t /\ OrderIndex[c] = callIndex[t]}
=============================================================================
