----------------------------- MODULE MCClubView -----------------------------
(* One phone with two club screens; the user founded one club of two, the  *)
(* only one that has a description.                                        *)
EXTENDS ClubView, TLC

CONSTANTS d1, d2, u1, c1, c2, e1, s1, s2

SharedAccount == [d \in Device |-> u1]
OneFounded == {<<u1, c2>>}
OnOnePhone == [s \in Screen |-> d1]
FoundedOnly == {c2}
HeldBy == [e \in Event |-> c1]
Screens == Permutations(Screen)

(* Bound: a chain of reads on one screen over two of its own appearances,  *)
(* or over one of another screen.                                          *)
FewReads ==
    screen[s1].adminReads + screen[s1].memberReads
        + screen[s2].adminReads + screen[s2].memberReads <= 3
=============================================================================
