------------------------------- MODULE Queue -------------------------------
(***************************************************************************)
(* The order in which claimQueued serves the queue.  WorkerLoop lets a     *)
(* worker claim any task it may claim; here is which one it tries, what    *)
(* the row lock taken for it keeps others from doing, and what happens     *)
(* when the try fails.  A claim is two steps: the select that locks a      *)
(* task, and ReserveSlot with the writes and the commit.                   *)
(***************************************************************************)
EXTENDS Integers, FiniteSets

CONSTANTS
  Org, Task, Slot, Worker,
  TaskOrg, RequiredSlotType,     \* of tasks
  SlotOrg, SlotType,             \* of agent_slots
  Priority, CreatedAt,           \* of tasks
  MaxConcurrentSlots,            \* of the plan of each organization
  NoTask

ASSUME QueueConstants ==
  /\ TaskOrg \in [Task -> Org] /\ SlotOrg \in [Slot -> Org]
  /\ Priority \in [Task -> 1 .. 5]
  /\ CreatedAt \in [Task -> Nat]
  /\ MaxConcurrentSlots \in [Org -> Nat \ {0}]
  /\ NoTask \notin Task

VARIABLES
  status,        \* tasks.status: no such row, queued, running, or at an end
  seat,          \* the slots that are busy, each with its task
  at, picked     \* where each worker is, and the task it holds locked

vars == <<status, seat, at, picked>>

Init ==
  /\ status = [t \in Task |-> "none"]
  /\ seat = {}
  /\ at = [w \in Worker |-> "select"]
  /\ picked = [w \in Worker |-> NoTask]

-----------------------------------------------------------------------------
(* A task is committed.  created_at is when its transaction began, so that *)
(* older ones may arrive later.                                            *)
Arrive(t) ==
  /\ status[t] = "none"
  /\ status' = [status EXCEPT ![t] = "queued"]
  /\ UNCHANGED <<seat, at, picked>>

Fits(s, t) == SlotOrg[s] = TaskOrg[t] /\ SlotType[s] = RequiredSlotType[t]
Busy(s) == \E t \in Task : <<s, t>> \in seat
FreeSlots(t) == {s \in Slot : Fits(s, t) /\ ~ Busy(s)}

(* Mutants: without skip locked; without the exists clause.                *)
UnlockedOrNot(t) == TRUE
WaitsAnyway(t) == status[t] = "queued"

Unlocked(t) == \A w \in Worker : picked[w] # t
Waits(t) == status[t] = "queued" /\ FreeSlots(t) # {}

Before(t, u) ==
  \/ Priority[t] > Priority[u]
  \/ Priority[t] = Priority[u] /\ CreatedAt[t] < CreatedAt[u]

(* The first of the queue among those with a free slot, locked ones        *)
(* skipped; any of them when several are equally urgent and equally old.   *)
Selectable == {t \in Task : Waits(t) /\ Unlocked(t)}
First == {t \in Selectable : \A u \in Selectable : ~ Before(u, t)}

SelectTask(w) ==
  /\ at[w] = "select"
  /\ \E t \in First :
       /\ at' = [at EXCEPT ![w] = "reserve"]
       /\ picked' = [picked EXCEPT ![w] = t]
  /\ UNCHANGED <<status, seat>>

(* Nothing to claim: the worker sleeps for two seconds. *)
SelectNothing(w) ==
  /\ at[w] = "select" /\ First = {}
  /\ at' = [at EXCEPT ![w] = "sleep"]
  /\ UNCHANGED <<status, seat, picked>>

SeatsOf(o) == {p \in seat : SlotOrg[p[1]] = o}
UnderLimit(o) == Cardinality(SeatsOf(o)) < MaxConcurrentSlots[o]
Claimable(t) == UnderLimit(TaskOrg[t]) /\ FreeSlots(t) # {}

(* The worker then runs the task before it selects again; here it may do   *)
(* that at once, which is more than it does.                               *)
Claim(w) ==
  LET t == picked[w] IN
  /\ at[w] = "reserve" /\ Claimable(t)
  /\ \E s \in FreeSlots(t) : seat' = seat \cup {<<s, t>>}
  /\ status' = [status EXCEPT ![t] = "running"]
  /\ at' = [at EXCEPT ![w] = "select"]
  /\ picked' = [picked EXCEPT ![w] = NoTask]

(* ErrSlotLimit, ErrNoFreeSlot: the task stays in the queue and the worker *)
(* sleeps.                                                                 *)
ClaimFails(w) ==
  /\ at[w] = "reserve" /\ ~ Claimable(picked[w])
  /\ at' = [at EXCEPT ![w] = "sleep"]
  /\ picked' = [picked EXCEPT ![w] = NoTask]
  /\ UNCHANGED <<status, seat>>

WakeUp(w) ==
  at[w] = "sleep" /\ at' = [at EXCEPT ![w] = "select"] /\ UNCHANGED <<status, seat, picked>>

(* A task that runs ends and frees its slot, whoever ends it. *)
End(t) ==
  /\ status[t] = "running"
  /\ status' = [status EXCEPT ![t] = "ended"]
  /\ seat' = {p \in seat : p[2] # t}
  /\ UNCHANGED <<at, picked>>

(* Cancel of a queued task waits for a worker that holds its row. *)
CancelQueued(t) ==
  /\ status[t] = "queued" /\ Unlocked(t)
  /\ status' = [status EXCEPT ![t] = "ended"]
  /\ UNCHANGED <<seat, at, picked>>

Poll(w) ==
  SelectTask(w) \/ SelectNothing(w) \/ Claim(w) \/ ClaimFails(w) \/ WakeUp(w)

Next ==
  \/ \E w \in Worker : Poll(w)
  \/ \E t \in Task : Arrive(t) \/ End(t) \/ CancelQueued(t)

(* Workers poll for ever, and every task that runs ends (EveryTaskEnds of  *)
(* AgentHub).                                                              *)
Fairness ==
  /\ \A w \in Worker : WF_vars(Poll(w))
  /\ \A t \in Task : WF_vars(End(t))

Spec == Init /\ [][Next]_vars /\ Fairness

-----------------------------------------------------------------------------
(* The task a worker is about to seat stays queued, and is no other        *)
(* worker's: the row lock keeps claims and cancellations away from it.     *)
PickedStaysQueued ==
  /\ \A w \in Worker : picked[w] # NoTask => status[picked[w]] = "queued"
  /\ \A v, w \in Worker : picked[v] = picked[w] /\ picked[v] # NoTask => v = w

(* Every task for which its organization owns a slot leaves the queue,     *)
(* whatever stands before it: tasks that no slot fits, now or ever, do not *)
(* block it, nor does a finite number of more urgent ones that come later. *)
Servable(t) == \E s \in Slot : Fits(s, t)
NobodyStarves ==
  \A t \in Task : Servable(t) => (status[t] = "queued" ~> status[t] # "queued")
=============================================================================
