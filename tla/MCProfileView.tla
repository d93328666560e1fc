---------------------------- MODULE MCProfileView ----------------------------
(* One phone with two profile screens.                                     *)
EXTENDS ProfileView, TLC

CONSTANTS d1, u1, u2, s1, s2

OneAccount == [d \in Device |-> u1]
OnOnePhone == [s \in Screen |-> d1]
NoneFounded == {}
Screens == Permutations({s1, s2})

(* Bound: the user of the phone has a profile, and where the other has     *)
(* none he is looked at on one screen; all a missing profile does is to    *)
(* stop the app.                                                           *)
FewMissing ==
    /\ u1 \in profiled
    /\ u2 \in profiled \/ \E s \in Screen : screen[s].phase = "closed"
=============================================================================
