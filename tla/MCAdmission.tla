---------------------------- MODULE MCAdmission ----------------------------
(***************************************************************************)
(* Instances of Admission for TLC.                                         *)
(***************************************************************************)
EXTENDS Admission, TLC

CONSTANTS acme, beta, k1, small, large, wrong, untitled, credit, r1, r2, r3, r4, r5, r6

(* acme: two tries of a small task, another body under the same key, which *)
(* names no known tool, and a large task without key.  beta, which has no  *)
(* subscription, happens to use the same key, and sends an invalid body.   *)
MixedOrgs == [r \in Request |-> IF r \in {r5, r6} THEN beta ELSE acme]
MixedKeys == [r \in Request |-> IF r \in {r4, r6} THEN NoKey ELSE k1]
MixedBodies ==
  [r \in Request |->
     CASE r = r3 -> wrong [] r = r4 -> large [] r = r6 -> untitled [] OTHER -> small]

NoKeys == [r \in Request |-> NoKey]
AllAcme == [r \in Request |-> acme]
AllLarge == [r \in Request |-> large]

(* A large task, a small one, and one that promises money.                 *)
CreditBodies ==
  [r \in Request |-> CASE r = r2 -> small [] r = r3 -> credit [] OTHER -> large]

(* 1.4 cents are stored as one, and charged one cent exactly; 9.6 cents    *)
(* are stored as ten, and charged 9 to 11.                                 *)
Mixed ==
  small :> <<14>> @@ large :> <<96>> @@ wrong :> <<14>> @@ untitled :> <<14>> @@ credit :> <<-96>>
Cents ==
  small :> <<10>> @@ large :> <<10, 10>> @@ wrong :> <<10>> @@ untitled :> <<10>> @@ credit :> <<-10>>
TenCents == [o \in Org |-> 10]
TwoCents == [o \in Org |-> 2]
FirstMonth == [o \in Org |-> 1]
=============================================================================
