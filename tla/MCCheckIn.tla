------------------------------ MODULE MCCheckIn ------------------------------
(* The founder of a club and a guest, a phone each, and two events.         *)
EXTENDS CheckIn, FiniteSets, TLC

CONSTANTS d1, d2, u1, u2, c1, e1, e2

FirstFounds == [d \in Device |-> IF d = d1 THEN u1 ELSE u2]
OneFounded == {<<u1, c1>>}
HeldBy == [e \in Event |-> c1]
Events == Permutations(Event)

(* Bound: what is under way at a time is the write of an event with both    *)
(* writes of a check-in of its founder, or as much of two phones; a history *)
(* has two prompts, and one of the events is not attended early.            *)
FewAtOnce ==
    /\ Len(pending[d1]) + Len(pending[d2]) <= 3
    /\ Cardinality(offered) <= 2 /\ early # Event
==============================================================================
