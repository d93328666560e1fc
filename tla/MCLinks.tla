------------------------------- MODULE MCLinks -------------------------------
(* Two phones of one account: a club it may join, one it founded, an event. *)
EXTENDS Links

CONSTANTS d1, d2, u1, c1, c2, e1

OneFounded == {<<u1, c2>>}
==============================================================================
