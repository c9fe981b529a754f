------------------------------ MODULE SlotPool ------------------------------
(***************************************************************************)
(* What the pool of agent slots promises: a slot is held by at most one    *)
(* task at a time, a task holds at most one slot in its whole life, the    *)
(* organization and the type of the slot fit the task, and no organization *)
(* holds more slots than its plan allows.  AgentHub implements it.         *)
(***************************************************************************)
EXTENDS Integers, FiniteSets

CONSTANTS
  Slot, Task, Nobody,
  Fitting,         \* pairs of a slot and a task of the same organization and type
  Owner,           \* the organization of each slot
  Limit            \* how many slots each organization may hold

VARIABLES
  holder,          \* the task on each slot, or Nobody
  served           \* the tasks that have ever held a slot

Held(o) == {s \in Slot : Owner[s] = o /\ holder[s] # Nobody}

Init == holder = [s \in Slot |-> Nobody] /\ served = {}

Reserve(s, t) ==
  /\ holder[s] = Nobody
  /\ t \notin served
  /\ <<s, t>> \in Fitting
  /\ Cardinality(Held(Owner[s])) < Limit[Owner[s]]
  /\ holder' = [holder EXCEPT ![s] = t]
  /\ served' = served \cup {t}

Release(s) ==
  /\ holder[s] # Nobody
  /\ holder' = [holder EXCEPT ![s] = Nobody]
  /\ UNCHANGED served

Next == \E s \in Slot : Release(s) \/ \E t \in Task : Reserve(s, t)

Spec == Init /\ [][Next]_<<holder, served>>
=============================================================================
