-------------------------------- MODULE Links --------------------------------
(***************************************************************************)
(* Every relation of ClubHub is kept twice: a club in the list of its      *)
(* member and the member in the list of the club, and likewise a followed  *)
(* user and a follower, an attended event and an attendee.  Nothing joins  *)
(* the two halves: each tap issues two independent writes.  This module is *)
(* what the screens promise about such links, whichever screen taps:       *)
(* ClubViewController, ProfileViewController and the check-in after a scan. *)
(* Who is signed in where is left open: any device may write any link, so  *)
(* that signing in and out needs no step here.                             *)
(***************************************************************************)
EXTENDS Database

CONSTANTS User, Club, Event,   \* keys; an event key is "club|event" in the code
          Founded              \* pairs <<u, c>>: u created club c

ASSUME DeviceAssumption == Device # {}
ASSUME FoundedAssumption == Founded \subseteq User \X Club
ASSUME MaxPendingAssumption == MaxPending \in Nat

VARIABLES wanted,   \* history: links whose user last asked for them
          torn      \* history: links given up on, see Tear and Raced

linkVars == <<wanted, torn>>
vars == <<tree, pending, sent, wanted, torn>>

-----------------------------------------------------------------------------
(* An admin's club button opens an editor, so the founder of a club never  *)
(* joins or leaves it, and nobody follows himself.                         *)
Link ==
    {l \in [kind : {"club"}, user : User, key : Club] : <<l.user, l.key>> \notin Founded}
      \cup {l \in [kind : {"follow"}, user : User, key : User] : l.key # l.user}
      \cup [kind : {"event"}, user : User, key : Event]

NearList == [club |-> "clubs", follow |-> "following", event |-> "events"]
FarRoot == [club |-> "clubs", follow |-> "users", event |-> "events"]
FarList == [club |-> "members", follow |-> "followers", event |-> "members"]

Near(l) == [root |-> "users", of |-> l.user, list |-> NearList[l.kind], key |-> l.key]
Far(l) == [root |-> FarRoot[l.kind], of |-> l.key, list |-> FarList[l.kind], key |-> l.user]
Halves(l) == {Near(l), Far(l)}

AdminEntry(u, c) == [root |-> "users", of |-> u, list |-> "admin_clubs", key |-> c]
FoundingLeaves(u, c) ==
    {AdminEntry(u, c),
     [root |-> "clubs", of |-> c, list |-> "admins", key |-> u],
     [root |-> "clubs", of |-> c, list |-> "members", key |-> u]}

FoundedLeaves == UNION {FoundingLeaves(f[1], f[2]) : f \in Founded}
Leaf == (UNION {Halves(l) : l \in Link}) \cup FoundedLeaves

(* Mutants: half of a tap.                                                 *)
AttachWrites_NearOnly(l) == <<Update(Near(l))>>
AttachWrites_FarOnly(l) == <<Update(Far(l))>>
DetachWrites_NearOnly(l) == <<Remove(Near(l))>>

(* A check-in writes the event's list first, every other tap the user's.   *)
AttachWrites(l) ==
    IF l.kind = "event" THEN <<Update(Far(l)), Update(Near(l))>>
                        ELSE <<Update(Near(l)), Update(Far(l))>>
DetachWrites(l) == <<Remove(Near(l)), Remove(Far(l))>>

Touches(w, l) == w.drop \cap Halves(l) # {}
Busy(d, l) == \E i \in 1..Len(pending[d]) : Touches(pending[d][i], l)

(* Another device still has writes on l under way: the four writes may     *)
(* reach the server in an order that leaves one half of each.              *)
Raced(d, l) == \E e \in Device \ {d} : Busy(e, l)

-----------------------------------------------------------------------------
Init ==
    /\ wanted \in SUBSET Link
    /\ tree = (UNION {Halves(l) : l \in wanted}) \cup FoundedLeaves
    /\ pending = [d \in Device |-> <<>>]
    /\ sent = [d \in Device |-> 0]
    /\ torn = {}

Judge(d, l) == torn' = IF Raced(d, l) THEN torn \cup {l} ELSE torn \ {l}

(* Join Club, Follow, or Confirm on the check-in alert.                    *)
Attach(d, l) ==
    /\ Submit(d, AttachWrites(l))
    /\ wanted' = wanted \cup {l}
    /\ Judge(d, l)

(* Leave Club or Unfollow; nothing takes a check-in back.                  *)
Detach(d, l) ==
    /\ l.kind # "event"
    /\ Submit(d, DetachWrites(l))
    /\ wanted' = wanted \ {l}
    /\ Judge(d, l)

Deliver(d) == (Serve(d) \/ Ack(d) \/ Resend(d)) /\ UNCHANGED linkVars

(* The app dies before a write on l reached the server.                    *)
Tear(d, l) == \E p \in Halves(l) : ~Landed(d, p)

Kill(d) ==
    /\ Forget(d)
    /\ torn' = torn \cup {l \in Link : Tear(d, l)}
    /\ UNCHANGED wanted

Next ==
    \E d \in Device :
        \/ \E l \in Link : Attach(d, l) \/ Detach(d, l)
        \/ Deliver(d)
        \/ Kill(d)

(* The SDK sends while it has something to send, and a connection now and  *)
(* then lives long enough for an answer; nobody has to tap.                *)
Fairness ==
    \A d \in Device : /\ WF_vars(Serve(d) /\ UNCHANGED linkVars)
                      /\ SF_vars(Ack(d) /\ UNCHANGED linkVars)

Spec == Init /\ [][Next]_vars
FairSpec == Spec /\ Fairness

-----------------------------------------------------------------------------
WriteSet == {w \in [drop : SUBSET Leaf, put : SUBSET Leaf] : w.put \subseteq w.drop}

(* Every variable stays within its type, and a device has never sent more  *)
(* writes than it holds.                                                   *)
TypeOK ==
    /\ tree \subseteq Leaf
    /\ pending \in [Device -> Seq(WriteSet)]
    /\ sent \in [Device -> Nat]
    /\ \A d \in Device : sent[d] <= Len(pending[d])
    /\ wanted \subseteq Link
    /\ torn \subseteq Link

AllLanded(l) == \A d \in Device : \A p \in Halves(l) : Landed(d, p)

(* The two-sided lists of the app stay in step and the user's last tap     *)
(* stands: once everything written about a link has reached the server,    *)
(* both halves say what the user last asked for, except for a link whose   *)
(* writes a kill cut short or another device of the account raced.         *)
LinkIntegrity ==
    \A l \in Link \ torn : AllLanded(l) =>
        \A p \in Halves(l) : p \in tree <=> l \in wanted

(* While a link is in no race, the device that wrote it shows the user's   *)
(* own last choice on every screen that reads either list, whatever the    *)
(* connection does in between: drops, resends, late answers.               *)
OwnView ==
    \A l \in Link \ torn : \A d \in Device :
        Busy(d, l) => \A p \in Halves(l) : Sees(d, p) <=> l \in wanted

(* What keeps a link that is not torn in step: one device writes it; that  *)
(* device sees the user's choice; a leaf all of whose pending writes were  *)
(* sent holds what the device sees; a link at rest holds the choice.       *)
Steady(l) ==
    /\ \A d, e \in Device : Busy(d, l) /\ Busy(e, l) => d = e
    /\ \A d \in Device : Busy(d, l) => \A p \in Halves(l) : Sees(d, p) <=> l \in wanted
    /\ \A d \in Device : \A p \in Halves(l) :
         Covered(pending[d], p) /\ Landed(d, p) => (p \in tree <=> Sees(d, p))
    /\ (\A d \in Device : ~Busy(d, l)) => \A p \in Halves(l) : p \in tree <=> l \in wanted

(* The inductive strengthening of LinkIntegrity and OwnView.               *)
IInv == TypeOK /\ \A l \in Link \ torn : Steady(l)

(* A link as its user sees it: given up, under way, or what the tree says. *)
Status(l) ==
    IF l \in torn THEN "torn"
    ELSE IF ~AllLanded(l) THEN "changing"
    ELSE IF Halves(l) \subseteq tree THEN "on"
    ELSE IF Halves(l) \cap tree = {} THEN "off"
    ELSE "half"

Promise == INSTANCE LinkPromise
    WITH wish <- wanted, status <- [l \in Link |-> Status(l)]

(* The lists keep the abstract promise: a link at rest neither flips nor   *)
(* tears by itself, a change ends in what was asked for, a tap touches no  *)
(* other link, and a torn link waits for the next tap.                     *)
KeepsPromise == Promise!Spec

(* No link stays half written for ever while its device stays in reach:    *)
(* the halves meet again and again, or the link was torn.                  *)
LinkSettles ==
    \A l \in Link : []<>(l \in torn \/ (Near(l) \in tree <=> Far(l) \in tree))
=============================================================================
