------------------------------- MODULE Founding -------------------------------
(***************************************************************************)
(* CreateNewClubViewController.swift and YourClubsViewController.swift: a  *)
(* club is founded by one write of its node, one write of its key into the *)
(* founder's admin_clubs, and one write of photo_url when its picture has  *)
(* been uploaded; the list of one's clubs, whose rows are only ever        *)
(* appended to and have no state here, takes all three for granted.        *)
(* The form is also what `Edit Club` opens, and its button leads on to the *)
(* new club's screen, from where Back returns to the form as it was.       *)
(* Others find the new club and join it, while its founding may still be   *)
(* unacknowledged and be sent once more.                                   *)
(***************************************************************************)
EXTENDS Database

CONSTANTS User,        \* uids
          AccountOf,   \* [Device -> User], who is signed in where
          Club,        \* the keys childByAutoId may generate
          Form,        \* instances of CreateNewClubViewController
          HostOf,      \* [Form -> Device]
          NoClub

ASSUME DeviceAssumption == Device # {}
ASSUME AccountAssumption == AccountOf \in [Device -> User]
ASSUME HostAssumption == HostOf \in [Form -> Device]
ASSUME NoClubAssumption == NoClub \notin Club
ASSUME MaxPendingAssumption == MaxPending \in Nat

VARIABLES form,      \* [Form -> FormState]
          used,      \* keys generated so far; childByAutoId never repeats one
          joined,    \* history: <<u, c>>: u joined c, and no kill cut that short
          rash,      \* history: clubs joined before their founding was acknowledged
          failed,    \* history: clubs whose upload failed or died with the app
          mixed      \* history: clubs whose picture was listed for another one, and clubs
                     \* that another's picture was listed for after their own

formVars == <<form, used, joined, rash, failed, mixed>>
foundingVars == <<tree, pending, sent, form, used, joined, rash, failed, mixed>>

FormState ==
    [phase : {"closed", "shown", "covered"},
     ClubKey : Club \cup {NoClub},
     uploads : SUBSET Club]            \* pictures this form is uploading

ClosedForm == [phase |-> "closed", ClubKey |-> NoClub, uploads |-> {}]

-----------------------------------------------------------------------------
(* A club's node is its fields, its admins and members, and a photo_url    *)
(* that names the path of some club's picture.                             *)
Info(c) == [root |-> "clubs", of |-> c, list |-> "info", key |-> c]
Admin(c, u) == [root |-> "clubs", of |-> c, list |-> "admins", key |-> u]
Member(c, u) == [root |-> "clubs", of |-> c, list |-> "members", key |-> u]
PhotoUrl(c, path) == [root |-> "clubs", of |-> c, list |-> "photo_url", key |-> path]
AdminEntry(u, c) == [root |-> "users", of |-> u, list |-> "admin_clubs", key |-> c]

ClubEntry(u, c) == [root |-> "users", of |-> u, list |-> "clubs", key |-> c]

Photos(c) == {PhotoUrl(c, path) : path \in Club}
Node(c) == {Info(c)} \cup {Admin(c, u) : u \in User} \cup {Member(c, u) : u \in User} \cup Photos(c)
FoundingLeaf ==
    (UNION {Node(c) : c \in Club})
      \cup {AdminEntry(u, c) : u \in User, c \in Club} \cup {ClubEntry(u, c) : u \in User, c \in Club}

Me(f) == AccountOf[HostOf[f]]

(* Mutant: the founder's list is written first.                            *)
FoundingWrites_ListFirst(u, c) ==
    <<Update(AdminEntry(u, c)),
      Overwrite(Node(c), {Info(c), Admin(c, u), Member(c, u)})>>

FoundingWrites(u, c) ==
    <<Overwrite(Node(c), {Info(c), Admin(c, u), Member(c, u)}),
      Update(AdminEntry(u, c))>>

-----------------------------------------------------------------------------
FoundingInit ==
    /\ tree = {}
    /\ pending = [d \in Device |-> <<>>]
    /\ sent = [d \in Device |-> 0]
    /\ form = [f \in Form |-> ClosedForm]
    /\ used = {}
    /\ joined = {} /\ rash = {} /\ failed = {} /\ mixed = {}

(* Create New Club on the home screen, or Edit Club on the screen of a     *)
(* club one founded; the form learns nothing of that club.                 *)
Open(f) ==
    /\ form[f].phase = "closed" /\ form[f].uploads = {}
    /\ form' = [form EXCEPT ![f] = [ClosedForm EXCEPT !.phase = "shown"]]
    /\ UNCHANGED <<dbVars, used, joined, rash, failed, mixed>>

(* createClub: a new key, two writes, and the upload starts; the segue of  *)
(* the same button covers the form with the club's screen.                 *)
CreateClub(f, c) ==
    /\ form[f].phase = "shown"
    /\ c \notin used
    /\ used' = used \cup {c}
    /\ Submit(HostOf[f], FoundingWrites(Me(f), c))
    /\ form' = [form EXCEPT ![f] = [phase |-> "covered", ClubKey |-> c, uploads |-> @.uploads \cup {c}]]
    /\ UNCHANGED <<joined, rash, failed, mixed>>

Back(f) ==
    /\ form[f].phase = "covered"
    /\ form' = [form EXCEPT ![f].phase = "shown"]
    /\ UNCHANGED <<dbVars, used, joined, rash, failed, mixed>>

(* The form is popped; its upload's closure still holds it.                *)
Close(f) ==
    /\ form[f].phase = "shown"
    /\ form' = [form EXCEPT ![f].phase = "closed"]
    /\ UNCHANGED <<dbVars, used, joined, rash, failed, mixed>>

(* Mutants: photo_url is lost; it is written below users; the node is set  *)
(* once more with it.                                                      *)
UploadSucceeds_Silent(f, c) ==
    /\ c \in form[f].uploads
    /\ form' = [form EXCEPT ![f].uploads = @ \ {c}]
    /\ UNCHANGED <<dbVars, used, joined, rash, failed, mixed>>

UploadSucceeds_UsersNode(f, c) ==
    /\ c \in form[f].uploads
    /\ Submit(HostOf[f], <<Update([PhotoUrl(form[f].ClubKey, c) EXCEPT !.root = "users"])>>)
    /\ form' = [form EXCEPT ![f].uploads = @ \ {c}]
    /\ UNCHANGED <<used, joined, rash, failed, mixed>>

UploadSucceeds_SetsNode(f, c) ==
    LET k == form[f].ClubKey
    IN  /\ c \in form[f].uploads
        /\ Submit(HostOf[f], <<Overwrite(Node(k), {Info(k), Admin(k, Me(f)), Member(k, Me(f)), PhotoUrl(k, c)})>>)
        /\ form' = [form EXCEPT ![f].uploads = @ \ {c}]
        /\ UNCHANGED <<used, joined, rash, failed, mixed>>

(* saveClubPhoto's completion for club c: the path is that of c, the node  *)
(* is that of self.ClubKey.                                                *)
UploadSucceeds(f, c) ==
    /\ c \in form[f].uploads
    /\ Submit(HostOf[f], <<Overwrite(Photos(form[f].ClubKey), {PhotoUrl(form[f].ClubKey, c)})>>)
    /\ form' = [form EXCEPT ![f].uploads = @ \ {c}]
    /\ mixed' = mixed \cup (IF form[f].ClubKey = c THEN {}
                            ELSE {c} \cup ({form[f].ClubKey} \ form[f].uploads))
    /\ UNCHANGED <<used, joined, rash, failed>>

UploadFails(f, c) ==
    /\ c \in form[f].uploads
    /\ form' = [form EXCEPT ![f].uploads = @ \ {c}]
    /\ failed' = failed \cup {c}
    /\ UNCHANGED <<dbVars, used, joined, rash, mixed>>

JoinLeaves(u, c) == {ClubEntry(u, c), Member(c, u)}

(* Somebody who neither founded the club nor is in it finds it and taps    *)
(* Join Club; how the button comes to offer that is in ClubView.           *)
Join(d, c) ==
    LET u == AccountOf[d]
    IN  /\ Sees(d, Info(c)) /\ ~Sees(d, AdminEntry(u, c)) /\ ~Sees(d, Member(c, u))
        /\ Submit(d, <<Update(ClubEntry(u, c)), Update(Member(c, u))>>)
        /\ joined' = joined \cup {<<u, c>>}
        /\ rash' = IF \E e \in Device : Covered(pending[e], Info(c)) THEN rash \cup {c} ELSE rash
        /\ UNCHANGED <<form, used, failed, mixed>>

(* Everything d holds in memory dies with the app.                         *)
Dies(d) ==
    /\ Forget(d)
    /\ form' = [f \in Form |-> IF HostOf[f] = d THEN ClosedForm ELSE form[f]]
    /\ failed' = failed \cup (UNION {form[f].uploads : f \in {g \in Form : HostOf[g] = d}})
                        \cup {c \in Club : \E p \in Node(c) : ~Landed(d, p)}
    /\ joined' = {j \in joined : \A p \in JoinLeaves(j[1], j[2]) : Landed(d, p)}

(* YourClubs reads admin_clubs, looks every key up and unwraps every field *)
(* of its node by force: without one of them the app stops; otherwise the  *)
(* club becomes a row.                                                     *)
NodeReply(d, c) ==
    /\ Sees(d, AdminEntry(AccountOf[d], c))
    /\ ~(Sees(d, Info(c)) /\ \E p \in Photos(c) : Sees(d, p))
    /\ Dies(d)
    /\ UNCHANGED <<used, rash, mixed>>

FoundingDeliver(d) == (Serve(d) \/ Ack(d) \/ Resend(d)) /\ UNCHANGED formVars

FoundingKill(d) == Dies(d) /\ UNCHANGED <<used, rash, mixed>>

FoundingNext ==
    \/ \E f \in Form : \/ Open(f)
                       \/ \E c \in Club : CreateClub(f, c) \/ UploadSucceeds(f, c) \/ UploadFails(f, c)
                       \/ Back(f) \/ Close(f)
    \/ \E d \in Device : \/ \E c \in Club : Join(d, c) \/ NodeReply(d, c)
                         \/ FoundingDeliver(d) \/ FoundingKill(d)

FoundingSpec == FoundingInit /\ [][FoundingNext]_foundingVars

-----------------------------------------------------------------------------
(* Variables stay within their type.                                       *)
FoundingTypeOK ==
    /\ tree \subseteq FoundingLeaf
    /\ \A d \in Device : /\ \A i \in 1..Len(pending[d]) :
                              /\ pending[d][i].drop \subseteq FoundingLeaf
                              /\ pending[d][i].put \subseteq pending[d][i].drop
                         /\ sent[d] \in 0..Len(pending[d])
    /\ form \in [Form -> FormState]
    /\ joined \subseteq User \X Club /\ rash \subseteq used
    /\ used \subseteq Club /\ failed \subseteq Club /\ mixed \subseteq Club

(* A club in somebody's admin_clubs is a whole club, with its founder as   *)
(* admin and member, on the server and on every device, although a kill or *)
(* a reconnect may cut or repeat the two writes anywhere.                  *)
ListedClubsExist ==
    \A u \in User, c \in Club :
        /\ AdminEntry(u, c) \in tree => {Info(c), Admin(c, u), Member(c, u)} \subseteq tree
        /\ \A d \in Device : Sees(d, AdminEntry(u, c)) =>
               \A p \in {Info(c), Admin(c, u), Member(c, u)} : Sees(d, p)

(* Once the founding of a club has come to rest the club has its own       *)
(* picture and no other, however the writes are repeated, also when its    *)
(* form founded another club before or after it, unless its upload failed, *)
(* or its form listed its picture for a later club or an earlier club's    *)
(* picture for it after its own.                                           *)
OwnPicture ==
    \A c \in used \ (failed \cup mixed) :
        /\ \A f \in Form : c \notin form[f].uploads
        /\ \A d \in Device, p \in Node(c) : Landed(d, p)
        => Photos(c) \cap tree = {PhotoUrl(c, c)}

(* Who joins a club stays in it: however the founding is repeated and      *)
(* whatever its picture writes, both lists hold the member once his writes *)
(* have landed, unless he joined before the founding was acknowledged.     *)
MembersStay ==
    \A j \in joined :
        j[2] \notin rash /\ (\A d \in Device : \A p \in JoinLeaves(j[1], j[2]) : Landed(d, p))
            => JoinLeaves(j[1], j[2]) \subseteq tree
=============================================================================
