------------------------------ MODULE TaskLife ------------------------------
(***************************************************************************)
(* The life of a task as its client may observe it: it waits in the queue, *)
(* runs on one slot, which it keeps while it is parked for an approval,    *)
(* and ends once; only a running task can complete, a queued one cannot    *)
(* fail, and the slot is another task's only after the end.  One           *)
(* transaction moves one task.  AgentHub implements it.                    *)
(***************************************************************************)
CONSTANTS Task, Slot, NoSlot

VARIABLES
  status,          \* of each task
  seat             \* the slot each task sits on, or NoSlot

Init ==
  /\ status = [t \in Task |-> "queued"]
  /\ seat = [t \in Task |-> NoSlot]

Become(t, new) == status' = [status EXCEPT ![t] = new]

Leave(t) == seat' = [seat EXCEPT ![t] = NoSlot]

Start(t, s) ==
  /\ status[t] = "queued"
  /\ \A u \in Task : seat[u] # s
  /\ Become(t, "running")
  /\ seat' = [seat EXCEPT ![t] = s]

Park(t) ==
  /\ status[t] = "running"
  /\ Become(t, "awaiting_approval")
  /\ UNCHANGED seat

Resume(t) ==
  /\ status[t] = "awaiting_approval"
  /\ Become(t, "running")
  /\ UNCHANGED seat

Complete(t) ==
  /\ status[t] = "running"
  /\ Become(t, "completed")
  /\ Leave(t)

Fail(t) ==
  /\ status[t] \in {"running", "awaiting_approval"}
  /\ Become(t, "failed")
  /\ Leave(t)

Cancel(t) ==
  /\ status[t] \in {"queued", "running", "awaiting_approval"}
  /\ Become(t, "cancelled")
  /\ Leave(t)

Next ==
  \E t \in Task :
    \/ \E s \in Slot : Start(t, s)
    \/ Park(t) \/ Resume(t) \/ Complete(t) \/ Fail(t) \/ Cancel(t)

Spec == Init /\ [][Next]_<<status, seat>>
=============================================================================
