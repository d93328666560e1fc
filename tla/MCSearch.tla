------------------------------- MODULE MCSearch -------------------------------
(* Three clubs, one of them without a picture, and two people, one of them *)
(* the user.                                                               *)
EXTENDS Search

CONSTANTS c1, c2, c3, u1, u2

ClubsAndPeople ==
    {[kind |-> "clubs", key |-> c1], [kind |-> "clubs", key |-> c2], [kind |-> "clubs", key |-> c3],
     [kind |-> "people", key |-> u1], [kind |-> "people", key |-> u2]}

Newcomers == {[kind |-> "clubs", key |-> c3]}
==============================================================================
