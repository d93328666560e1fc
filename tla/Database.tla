------------------------------ MODULE Database ------------------------------
(***************************************************************************)
(* The Firebase Realtime Database as the view controllers use it: one tree *)
(* on the server and, on every device, the queue of writes the SDK has     *)
(* accepted and the server has not yet acknowledged.                       *)
(*                                                                         *)
(* External to the repository's own source; modelled from the calls in     *)
(* ClubHub/*.swift and from the SDK's headers (FIRDatabaseReference.h,     *)
(* FIRDatabase.h): a write is visible to its own device at once, writes    *)
(* are sent in order, a reconnecting client sends every unacknowledged     *)
(* write again, and a killed app forgets them (no view controller nor      *)
(* AppDelegate turns persistence on).                                      *)
(*                                                                         *)
(* The tree is the set of leaves that hold a value.  What a leaf holds is  *)
(* left out: every list of the app is a set of keys mapped to `true`.      *)
(***************************************************************************)
EXTENDS Integers, Sequences

CONSTANTS Device,       \* running copies of the app
          MaxPending    \* bound on a device's queue, for TLC

VARIABLES tree,         \* leaves that hold a value on the server
          pending,      \* [Device -> Seq(write)], oldest first
          sent          \* [Device -> Nat], how many of them this connection sent

dbVars == <<tree, pending, sent>>

(* A write names the leaves its location covers and those it fills.        *)
Update(p) == [drop |-> {p}, put |-> {p}]        \* updateChildValues([key: true])
Remove(p) == [drop |-> {p}, put |-> {}]         \* child(key).removeValue()
Overwrite(P, Q) == [drop |-> P, put |-> Q]      \* setValue at a location

Applied(t, w) == (t \ w.drop) \cup w.put

(* The i-th write of queue q is the last one that covers leaf p.           *)
LastOn(q, p, i) ==
    /\ i \in 1..Len(q)
    /\ p \in q[i].drop
    /\ \A j \in (i + 1)..Len(q) : p \notin q[j].drop

Covered(q, p) == \E i \in 1..Len(q) : p \in q[i].drop

(* What the SDK answers for leaf p over queue q and server tree t: the     *)
(* latest unacknowledged write on p if there is one, the server otherwise. *)
Latest(q, t, p) ==
    \/ \E i \in 1..Len(q) : LastOn(q, p, i) /\ p \in q[i].put
    \/ ~Covered(q, p) /\ p \in t

(* What a read on device d answers for leaf p.                             *)
Sees(d, p) == Latest(pending[d], tree, p)

(* Every write of d on leaf p has reached the server on this connection.   *)
Landed(d, p) == \A i \in (sent[d] + 1)..Len(pending[d]) : p \notin pending[d][i].drop

-----------------------------------------------------------------------------
(* The app hands the writes ws to the SDK.                                 *)
Submit(d, ws) ==
    /\ Len(pending[d]) + Len(ws) <= MaxPending
    /\ pending' = [pending EXCEPT ![d] = @ \o ws]
    /\ UNCHANGED <<tree, sent>>

(* The next write of d reaches the server.                                 *)
Serve(d) ==
    /\ sent[d] < Len(pending[d])
    /\ tree' = Applied(tree, pending[d][sent[d] + 1])
    /\ sent' = [sent EXCEPT ![d] = @ + 1]
    /\ UNCHANGED pending

(* The answer to the oldest write reaches d.                               *)
Ack(d) ==
    /\ sent[d] > 0
    /\ pending' = [pending EXCEPT ![d] = Tail(@)]
    /\ sent' = [sent EXCEPT ![d] = @ - 1]
    /\ UNCHANGED tree

(* The connection drops with answers outstanding: all is sent again.       *)
Resend(d) ==
    /\ sent[d] > 0
    /\ sent' = [sent EXCEPT ![d] = 0]
    /\ UNCHANGED <<tree, pending>>

(* The process dies; the queue lived in its memory.                        *)
Forget(d) ==
    /\ pending' = [pending EXCEPT ![d] = <<>>]
    /\ sent' = [sent EXCEPT ![d] = 0]
    /\ UNCHANGED tree
=============================================================================
