----------------------------- MODULE LinkPromise -----------------------------
(***************************************************************************)
(* What the two-sided lists promise to a user who knows nothing of queues, *)
(* halves and phones: a link is on or off, or it is changing, and what it  *)
(* changes into is what he last asked for.  A link the network has cut     *)
(* apart stays torn until he taps again.                                   *)
(***************************************************************************)
CONSTANT Link

VARIABLES wish,      \* links whose user last asked for them
          status     \* [Link -> Status]

Status == {"on", "off", "changing", "torn"}

Settled(l) == IF l \in wish THEN "on" ELSE "off"

Init ==
    /\ wish \subseteq Link
    /\ status = [l \in Link |-> Settled(l)]

(* The user taps: the link begins to change, or is torn by the race with   *)
(* his other phone.  No other link notices.                                *)
Tap(l) ==
    /\ wish' = wish \cup {l} \/ wish' = wish \ {l}
    /\ \E x \in {"changing", "torn"} : status' = [status EXCEPT ![l] = x]

(* What may become of a link nobody taps, from x to y: a change arrives; a *)
(* dropped connection repeats one; a change is cut apart.  A link at rest  *)
(* never flips nor tears, and a torn one stays torn.                       *)
MayBecome(l, x, y) ==
    \/ y = x
    \/ x = "changing" /\ y = Settled(l)
    \/ x = Settled(l) /\ y = "changing"
    \/ x = "changing" /\ y = "torn"

(* The network moves, for any number of links at once.                     *)
Network ==
    /\ UNCHANGED wish
    /\ status' \in [Link -> Status]
    /\ \A l \in Link : MayBecome(l, status[l], status'[l])

Next == (\E l \in Link : Tap(l)) \/ Network

Spec == Init /\ [][Next]_<<wish, status>>
=============================================================================
