------------------------------ MODULE MCFounding ------------------------------
(* One user founds up to two clubs; another, on a phone of his own, joins. *)
EXTENDS Founding, TLC

CONSTANTS d1, d2, u1, u2, c1, c2, f1

OwnPhones == [d \in Device |-> IF d = d1 THEN u1 ELSE u2]
OnFirstPhone == [f \in Form |-> d1]
Clubs == Permutations({c1, c2})
=============================================================================
