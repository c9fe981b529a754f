----------------------------- MODULE MCAgentHub -----------------------------
(***************************************************************************)
(* Instances of AgentHub for TLC.  The chains are those of cmd/seed: write *)
(* needs an approver; destructive needs an approver, whose step escalates, *)
(* and then an owner.                                                      *)
(***************************************************************************)
EXTENDS AgentHub, TLC

CONSTANTS acme, beta, t1, t2, t3, s1, s2, s3

Symmetry == Permutations(Worker)

SeedChains ==
  [risk \in Risk |->
     CASE risk = "read" -> << >>
       [] risk = "write" -> <<[role |-> "approver", onTimeout |-> "reject"]>>
       [] OTHER -> <<[role |-> "approver", onTimeout |-> "escalate"],
                     [role |-> "owner", onTimeout |-> "reject"]>>]

Chains == [o \in Org |-> SeedChains]
Standard(set) == [x \in set |-> "standard"]
One == [o \in Org |-> 1]
Two == [o \in Org |-> 2]

(* A call is <<task, order_index>>. *)
CallTask == [c \in Call |-> c[1]]
CallOrder == [c \in Call |-> c[2]]
Costs == [c \in Call |-> 5]

AllAcme(set) == [x \in set |-> acme]
TasksOfAcme == AllAcme(Task)
SlotsOfAcme == AllAcme(Slot)
StandardTasks == Standard(Task)
StandardSlots == Standard(Slot)

(* One task that writes and destroys.                                      *)
TwoCalls == {<<t1, 0>>, <<t1, 1>>}
TwoRisks == <<t1, 0>> :> "write" @@ <<t1, 1>> :> "destructive"

(* Two tasks: one reads and destroys, the other writes. *)
MixedCalls == {<<t1, 0>>, <<t1, 1>>, <<t2, 0>>}
MixedRisks == <<t1, 0>> :> "read" @@ <<t1, 1>> :> "destructive" @@ <<t2, 0>> :> "write"

(* Two tasks that need an approval each, the first one of two people.     *)
GatedCalls == {<<t1, 0>>, <<t2, 0>>}
GatedRisks == <<t1, 0>> :> "destructive" @@ <<t2, 0>> :> "write"

(* acme owns a slot for each of its two tasks, of different types, and its *)
(* plan allows it one of them; the third slot belongs to beta.             *)
TwoTypesOfTasks == t1 :> "standard" @@ t2 :> "fast"
TwoTypesOfSlots == s1 :> "standard" @@ s2 :> "fast" @@ s3 :> "standard"
TwoOrgSlots == s1 :> acme @@ s2 :> acme @@ s3 :> beta
=============================================================================
