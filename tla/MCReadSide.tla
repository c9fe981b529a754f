----------------------------- MODULE MCReadSide -----------------------------
(***************************************************************************)
(* The instances of MCAgentHub with a client that looks at them.           *)
(***************************************************************************)
EXTENDS ReadSide, MCAgentHub

(* To destroy needs an approver twice, with an owner in between: the       *)
(* schema asks only for one step in each place of a chain.                 *)
TwiceAnApprover ==
  [o \in Org |->
     [SeedChains EXCEPT !["destructive"] =
        Append(@, [role |-> "approver", onTimeout |-> "reject"])]]

(* A client that waits for the end of a task asks again when it has not    *)
(* come: TLC goes no further from such an answer.  What else the system    *)
(* may do then it may do as well while nothing is being read.              *)
ToldOfAnEnd ==
  view.get = "task" /\ "task" \in DOMAIN view.seen => view.seen["task"] \in Terminal
=============================================================================
