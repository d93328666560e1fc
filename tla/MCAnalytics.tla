----------------------------- MODULE MCAnalytics -----------------------------
(* Four people in two dorms; one has not finished the sign-up form.        *)
EXTENDS Analytics, TLC

CONSTANTS u1, u2, u3, u4, d1, d2

Dorms == u1 :> d1 @@ u2 :> d1 @@ u3 :> d2 @@ u4 :> d2
=============================================================================
