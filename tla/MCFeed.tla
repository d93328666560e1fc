-------------------------------- MODULE MCFeed --------------------------------
(* Two users one may follow and two events of the same name; one user may  *)
(* be at both, the other at one.                                           *)
EXTENDS Feed

CONSTANTS u1, u2, e1, e2, meeting

Names == [e \in Event |-> meeting]
Guests == [e \in Event |-> IF e = e1 THEN {u1, u2} ELSE {u1}]
===============================================================================
