------------------------------ MODULE MCQueue ------------------------------
(***************************************************************************)
(* An instance of Queue and TaskList for TLC: the first task wants a fast  *)
(* slot and acme has none; two more of acme, which owns two slots and may  *)
(* use one and were created at one time; and the least urgent is the only  *)
(* one of beta.                                                            *)
(***************************************************************************)
EXTENDS TaskList, TLC

CONSTANTS acme, beta, t1, t2, t3, t4, s1, s2, s3

Owners == t1 :> acme @@ t2 :> acme @@ t3 :> acme @@ t4 :> beta
Types == t1 :> "fast" @@ t2 :> "standard" @@ t3 :> "standard" @@ t4 :> "standard"
Priorities == t1 :> 5 @@ t2 :> 4 @@ t3 :> 4 @@ t4 :> 1
Ages == t1 :> 1 @@ t2 :> 2 @@ t3 :> 2 @@ t4 :> 3
SlotOwners == s1 :> acme @@ s2 :> acme @@ s3 :> beta
Standard == [s \in Slot |-> "standard"]
One == [o \in Org |-> 1]
=============================================================================
