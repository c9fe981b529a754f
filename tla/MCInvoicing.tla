---------------------------- MODULE MCInvoicing ----------------------------
(***************************************************************************)
(* An instance of Invoicing for TLC: two calls, one of which pays back     *)
(* what another costs in part, and three requests.                         *)
(***************************************************************************)
EXTENDS Invoicing, TLC

CONSTANTS c1, c2

Costs == c1 :> -1 @@ c2 :> 2
Symmetry == Permutations(Generator)
=============================================================================
