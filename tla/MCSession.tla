------------------------------ MODULE MCSession ------------------------------
(* One phone on which two people sign in and out: one by e-mail, one by a  *)
(* provider.  The first may follow the second.                             *)
EXTENDS Session

CONSTANTS d1, u1, u2

NoneFounded == {}
NoneStanding == {}
OneFollow == {[kind |-> "follow", user |-> u1, key |-> u2]}
MailAndProvider ==
    {[kind |-> "create", user |-> u1], [kind |-> "email", user |-> u1],
     [kind |-> "federated", user |-> u2]}

(* Bound: once both users came in over the other's form or upload there is *)
(* nothing left that ProfileBeforeTabs, NodeIsOwn or PhotoListed say of    *)
(* anybody; once one of them did, the phone waits for one thing less.      *)
SomebodyApart == crossed # User /\ (crossed = {} \/ Work(d1) < MaxWork)
==============================================================================
