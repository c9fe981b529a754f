----------------------------- MODULE MCRowLocks -----------------------------
(***************************************************************************)
(* An instance of RowLocks for TLC: one task with one destructive call,    *)
(* which two people must approve.                                          *)
(***************************************************************************)
EXTENDS LockPlans, TLC

CONSTANTS acme, t1

LockSymmetry == Permutations(Worker) \cup Permutations(Client)

SeedChains ==
  [risk \in Risk |->
     CASE risk = "read" -> << >>
       [] risk = "write" -> <<[role |-> "approver", onTimeout |-> "reject"]>>
       [] OTHER -> <<[role |-> "approver", onTimeout |-> "escalate"],
                     [role |-> "owner", onTimeout |-> "reject"]>>]

Chains == [o \in Org |-> SeedChains]
OneCall == {<<t1, 0>>}
CallTask == [c \in Call |-> c[1]]
CallOrder == [c \in Call |-> c[2]]
Destructive == [c \in Call |-> "destructive"]
Costs == [c \in Call |-> 5]
AllAcme(set) == [x \in set |-> acme]
TasksOfAcme == AllAcme(Task)
SlotsOfAcme == AllAcme(Slot)
Standard(set) == [x \in set |-> "standard"]
StandardTasks == Standard(Task)
StandardSlots == Standard(Slot)
One == [o \in Org |-> 1]
=============================================================================
