------------------------------- MODULE Session -------------------------------
(***************************************************************************)
(* Who uses the app, from AppDelegate over LoginViewController and the     *)
(* form of CompleteSignupViewController to the tabs, and out again by the  *)
(* profile screen's settings.  An account is created by Firebase's         *)
(* authentication server (external); the profile below users/uid is        *)
(* written by the form, as a whole, whether it finishes a sign-up or edits *)
(* a profile; its picture follows when the upload has succeeded.  Of the   *)
(* two-sided lists only what the form does to them is a step here.         *)
(***************************************************************************)
EXTENDS Links, FiniteSets, Functions

CONSTANTS Standing,      \* links from earlier days
          Ways,          \* how people sign in: [kind : Kind, user : User]
          MaxWork,       \* bound on what a device waits for at a time, for TLC
          NoUser

Kind == {"federated", "email", "create"}

ASSUME StandingAssumption == Standing \subseteq Link
ASSUME WaysAssumption == Ways \subseteq [kind : Kind, user : User]
ASSUME MaxWorkAssumption == MaxWork \in Nat
ASSUME NoUserAssumption == NoUser \notin User

VARIABLES accounts,    \* users the authentication server knows
          verified,    \* those who have opened the link in the verification mail
          app,         \* [Device -> AppState]
          uploads,     \* [Device -> [User -> Nat]], pictures being uploaded, by their path
          stored,      \* history: users whose latest picture was uploaded while they were
                       \* the user of its form
          skipped,     \* history: accounts the form was not shown for, or that lost it
          crossed      \* history: users who came in while the form or the upload of
                       \* another one was under way

sessionVars == <<tree, pending, sent, wanted, torn,
                 accounts, verified, app, uploads, stored, skipped, crossed>>

Request ==
    [kind : Kind,
     user : User,
     result : {"none", "new", "known", "refused"},
     stale : BOOLEAN]        \* the log-in screen it came from is no longer in front

AppState ==
    [front : {"off", "login", "new", "tabs", "edit",
              "doomed"},              \* past a forced unwrap, not dead yet
     account : User \cup {NoUser},    \* Auth.auth().currentUser, kept over restarts
     user : User \cup {NoUser},       \* self.user of every form: the latest account
     typed : User \cup {NoUser},      \* history: for whom the form in front was opened
     alert : BOOLEAN,                 \* the log-in screen shows an alert
     requests : SUBSET Request,
     overtaken : BOOLEAN]             \* history: a stale request was answered

-----------------------------------------------------------------------------
(* The fields of the form are one leaf, which names who typed them;        *)
(* photo_url is a leaf that names whose picture it points at.              *)
Profile(u, v) == [root |-> "users", of |-> u, list |-> "profile", key |-> v]
PhotoUrl(u, v) == [root |-> "users", of |-> u, list |-> "photo_url", key |-> v]
Profiles(u) == {Profile(u, v) : v \in User}
Photos(u) == {PhotoUrl(u, v) : v \in User}

SessionLeaf == Leaf \cup UNION {Profiles(u) \cup Photos(u) : u \in User}
UserSubtree(u) == {p \in SessionLeaf : p.root = "users" /\ p.of = u}

(* The main thread runs what is dispatched to it.                          *)
Running(d) == app[d].front # "doomed"

(* What d waits for: answers to sign-ins and to writes, and uploads.        *)
Work(d) ==
    Cardinality(app[d].requests) + Len(pending[d]) + FoldFunction(+, 0, uploads[d])

NoUploads == [u \in User |-> 0]
Off(a) ==
    [front |-> "off", account |-> a, user |-> NoUser, typed |-> NoUser, alert |-> FALSE,
     requests |-> {}, overtaken |-> FALSE]

(* Users of earlier days have a profile and a picture.                     *)
SessionInit ==
    /\ accounts \in SUBSET User
    /\ verified = accounts
    /\ wanted = {l \in Standing : l.user \in accounts /\ (l.kind = "follow" => l.key \in accounts)}
    /\ tree = (UNION {Halves(l) : l \in wanted}) \cup FoundedLeaves
                \cup {Profile(u, u) : u \in accounts} \cup {PhotoUrl(u, u) : u \in accounts}
    /\ pending = [d \in Device |-> <<>>]
    /\ sent = [d \in Device |-> 0]
    /\ torn = {}
    /\ app \in [Device -> {Off(a) : a \in accounts \cup {NoUser}}]
    /\ uploads = [d \in Device |-> NoUploads]
    /\ stored = {} /\ skipped = {} /\ crossed = {}

-----------------------------------------------------------------------------
(* Mutant: the launch goes home whoever is signed in.                      *)
Launch_GoesHome(d) ==
    /\ app[d].front = "off"
    /\ app' = [app EXCEPT ![d].front = "tabs"]
    /\ UNCHANGED <<vars, accounts, verified, uploads, stored, skipped, crossed>>

(* didFinishLaunching: the tabs for who is signed in, else the log-in.     *)
Launch(d) ==
    /\ app[d].front = "off"
    /\ app' = [app EXCEPT ![d] = [@ EXCEPT !.user = app[d].account,
                                           !.front = IF app[d].account # NoUser THEN "tabs" ELSE "login"]]
    /\ UNCHANGED <<vars, accounts, verified, uploads, stored, skipped, crossed>>

(* A provider's sign-in, Log In or Create Account.                         *)
SignIn(d, way) ==
    /\ app[d].front = "login" /\ ~app[d].alert
    /\ Work(d) < MaxWork
    /\ app' = [app EXCEPT ![d].requests =
                  @ \cup {[kind |-> way.kind, user |-> way.user, result |-> "none", stale |-> FALSE]}]
    /\ UNCHANGED <<vars, accounts, verified, uploads, stored, skipped, crossed>>

(* The server decides (external): federated sign-ins create what they do   *)
(* not find, Log In needs an account, Create Account a new one.            *)
Verdict(r) ==
    IF r.user \in accounts THEN IF r.kind = "create" THEN "refused" ELSE "known"
                           ELSE IF r.kind = "email" THEN "refused" ELSE "new"

Authenticate(d, r) ==
    /\ r \in app[d].requests /\ r.result = "none"
    /\ app' = [app EXCEPT ![d].requests = (@ \ {r}) \cup {[r EXCEPT !.result = Verdict(r)]}]
    /\ accounts' = IF Verdict(r) = "new" THEN accounts \cup {r.user} ELSE accounts
    /\ verified' = IF Verdict(r) = "new" /\ r.kind = "federated" THEN verified \cup {r.user}
                                                                  ELSE verified
    /\ UNCHANGED <<vars, uploads, stored, skipped, crossed>>

Aged(R) == {[r EXCEPT !.stale = TRUE] : r \in R}

(* The log-in screen can lead on: nothing is presented over it.            *)
MayLead(a, r) == a.front = "login" /\ ~a.alert /\ ~r.stale

(* The app once u is signed in by r: the listeners of earlier forms hear   *)
(* of him, and the segue runs unless something is in its way.              *)
SignedIn(a, r, target) ==
    LET in == [a EXCEPT !.account = r.user, !.user = r.user, !.requests = @ \ {r},
                        !.overtaken = @ \/ r.stale]
    IN  IF MayLead(a, r)
        THEN [in EXCEPT !.front = target, !.typed = IF target = "new" THEN r.user ELSE NoUser,
                        !.requests = Aged(@)]
        ELSE in

(* When u comes in on d, the form and the uploads of others there go on    *)
(* into his node, and who had the form to finish his sign-up has lost it.  *)
Crosses(d, u) ==
    {w \in {u} : \/ \E v \in User \ {u} : uploads[d][v] > 0
                 \/ app[d].front \in {"new", "edit"} /\ app[d].typed # u}
LosesForm(d, u) == {v \in User \ {u} : app[d].front = "new" /\ app[d].typed = v}

(* Mutant: a new user is led home as well.                                 *)
Target_NeverForm(r) == "tabs"

(* finishAccount for a new user, goingHome for one the server knew.        *)
Target(r) == IF r.result = "new" THEN "new" ELSE "tabs"

(* The form of r's user is still to come: nothing leads to it from here,   *)
(* or his account was created by a sign-in that another one overtook.      *)
FormPending(d, r) ==
    \/ r.result = "new" /\ ~MayLead(app[d], r)
    \/ r.result = "known" /\ \E e \in Device :
          \/ \E q \in app[e].requests : q.user = r.user /\ q.result = "new"
          \/ e # d /\ app[e].front = "new" /\ app[e].typed = r.user
          \/ e # d /\ \E p \in Profiles(r.user) : ~Landed(e, p)

(* The answer to a provider's sign-in, to Create Account, or to Log In     *)
(* with a verified address.                                                *)
Accepted(d, r) ==
    /\ Running(d)
    /\ r \in app[d].requests /\ r.result \in {"new", "known"}
    /\ r.kind # "email" \/ r.user \in verified
    /\ app' = [app EXCEPT ![d] = SignedIn(@, r, Target(r))]
    /\ crossed' = crossed \cup Crosses(d, r.user)
    /\ skipped' = (skipped \cup LosesForm(d, r.user) \cup {u \in {r.user} : FormPending(d, r)})
                     \ crossed'
    /\ UNCHANGED <<vars, accounts, verified, uploads, stored>>

(* Log In without a verified address: signed in, signed out again, and     *)
(* told so; the segue home finds the alert in its way (UIKit).             *)
NotVerified(d, r) ==
    /\ Running(d)
    /\ r \in app[d].requests /\ r.result = "known"
    /\ r.kind = "email" /\ r.user \notin verified
    /\ app' = [app EXCEPT ![d] = [@ EXCEPT !.account = NoUser, !.user = r.user,
                                           !.requests = app[d].requests \ {r},
                                           !.alert = app[d].alert \/ app[d].front = "login",
                                           !.overtaken = app[d].overtaken \/ r.stale]]
    /\ crossed' = crossed \cup Crosses(d, r.user)
    /\ skipped' = (skipped \cup LosesForm(d, r.user)) \ crossed'
    /\ UNCHANGED <<vars, accounts, verified, uploads, stored>>

(* A refusal, or the answer is lost: only Log In and Create Account say so. *)
Failed(d, r) ==
    /\ Running(d)
    /\ r \in app[d].requests
    /\ app' = [app EXCEPT ![d] = [@ EXCEPT !.requests = app[d].requests \ {r},
                                           !.alert = \/ app[d].alert
                                                     \/ r.kind # "federated" /\ MayLead(app[d], r)]]
    /\ skipped' = skipped \cup ({u \in {r.user} : r.result = "new"} \ crossed)
    /\ UNCHANGED <<vars, accounts, verified, uploads, stored, crossed>>

Dismiss(d) ==
    /\ app[d].alert /\ Running(d)
    /\ app' = [app EXCEPT ![d].alert = FALSE]
    /\ UNCHANGED <<vars, accounts, verified, uploads, stored, skipped, crossed>>

Verify(u) ==
    /\ u \in accounts \ verified
    /\ verified' = verified \cup {u}
    /\ UNCHANGED <<vars, accounts, app, uploads, stored, skipped, crossed>>

(* Sign Out, and a new log-in screen on top of everything.                 *)
LogOut(d) ==
    /\ app[d].front = "tabs"
    /\ app' = [app EXCEPT ![d] = [@ EXCEPT !.account = NoUser, !.front = "login",
                                           !.requests = Aged(app[d].requests), !.overtaken = FALSE]]
    /\ UNCHANGED <<vars, accounts, verified, uploads, stored, skipped, crossed>>

(* Edit Profile on the own profile screen, filled from users/uid.          *)
OpenEdit(d) ==
    /\ app[d].front = "tabs" /\ app[d].account # NoUser
    /\ app' = [app EXCEPT ![d] = [@ EXCEPT !.front = "edit", !.typed = app[d].account]]
    /\ UNCHANGED <<vars, accounts, verified, uploads, stored, skipped, crossed>>

(* Back leaves the form of Edit Profile; that of a sign-up has no Back.    *)
Back(d) ==
    /\ app[d].front = "edit"
    /\ app' = [app EXCEPT ![d] = [@ EXCEPT !.front = "tabs", !.typed = NoUser]]
    /\ UNCHANGED <<vars, accounts, verified, uploads, stored, skipped, crossed>>

-----------------------------------------------------------------------------
(* The app dies with its queue, its forms, requests and uploads.  An       *)
(* account whose form was in front, or whose profile was not sent, has     *)
(* lost the form; so has one whose creation will not be heard of.          *)
Dies(d) ==
    /\ Kill(d)
    /\ app' = [app EXCEPT ![d] = Off(@.account)]
    /\ uploads' = [uploads EXCEPT ![d] = NoUploads]
    /\ stored' = {u \in stored : uploads[d][u] = 0 /\ \A p \in Photos(u) : Landed(d, p)}
    /\ skipped' = skipped \cup
          {u \in User \ crossed :
              \/ app[d].front = "new" /\ app[d].typed = u
              \/ \E p \in Profiles(u) : ~Landed(d, p)
              \/ \E r \in app[d].requests : r.result = "new" /\ r.user = u}

SessionKill(d) ==
    /\ app[d].front # "off"
    /\ Dies(d)
    /\ UNCHANGED <<accounts, verified, crossed>>

(* finishSignUp: setValue on users/self.user, then the upload to the path  *)
(* of currentUser!, and on to the tabs.  With nobody signed in any more    *)
(* that stops the app, which may or may not have sent the write by then.   *)
FinishSignUp(d) ==
    /\ app[d].front \in {"new", "edit"}
    /\ app[d].user # NoUser
    /\ Work(d) + 2 <= MaxWork
    /\ Submit(d, <<Overwrite(UserSubtree(app[d].user), {Profile(app[d].user, app[d].typed)})>>)
    /\ IF app[d].account = NoUser
       THEN /\ app' = [app EXCEPT ![d] = [@ EXCEPT !.front = "doomed", !.typed = NoUser]]
            /\ stored' = stored \ {app[d].user}
            /\ UNCHANGED uploads
       ELSE /\ app' = [app EXCEPT ![d] = [@ EXCEPT !.front = "tabs", !.typed = NoUser]]
            /\ uploads' = [uploads EXCEPT ![d][app[d].account] = @ + 1]
            /\ UNCHANGED stored
    /\ UNCHANGED <<linkVars, accounts, verified, skipped, crossed>>

(* Mutants: the path is that of the latest form; photo_url is not written. *)
UploadSucceeds_Elsewhere(d, v) ==
    /\ uploads[d][v] > 0
    /\ \E u \in User : Submit(d, <<Overwrite(Photos(u), {PhotoUrl(u, v)})>>)
    /\ uploads' = [uploads EXCEPT ![d][v] = @ - 1]
    /\ stored' = stored \cup {v}
    /\ UNCHANGED <<linkVars, accounts, verified, app, skipped, crossed>>
UploadSucceeds_Silent(d, v) ==
    /\ uploads[d][v] > 0
    /\ uploads' = [uploads EXCEPT ![d][v] = @ - 1]
    /\ stored' = stored \cup {v}
    /\ UNCHANGED <<vars, accounts, verified, app, skipped, crossed>>
UploadSucceeds_Twice(d, v) ==
    /\ uploads[d][v] >= 0
    /\ Submit(d, <<Overwrite(Photos(v), {PhotoUrl(v, v)})>>)
    /\ uploads' = [uploads EXCEPT ![d][v] = @ - 1]
    /\ stored' = stored \cup {v}
    /\ UNCHANGED <<linkVars, accounts, verified, app, skipped, crossed>>

(* saveProfilePicture's completion: the path is of who was signed in when  *)
(* the upload began, the node is that of self.user.                        *)
UploadSucceeds(d, v) ==
    /\ Running(d)
    /\ uploads[d][v] > 0
    /\ Submit(d, <<Overwrite(Photos(app[d].user), {PhotoUrl(app[d].user, v)})>>)
    /\ uploads' = [uploads EXCEPT ![d][v] = @ - 1]
    /\ stored' = IF app[d].user = v THEN stored \cup {v} ELSE stored \ {v}
    /\ UNCHANGED <<linkVars, accounts, verified, app, skipped, crossed>>

(* An error is printed and that is all.                                    *)
UploadFails(d, v) ==
    /\ Running(d)
    /\ uploads[d][v] > 0
    /\ uploads' = [uploads EXCEPT ![d][v] = @ - 1]
    /\ stored' = stored \ {v}
    /\ UNCHANGED <<vars, accounts, verified, app, skipped, crossed>>

SessionDeliver(d) ==
    /\ Deliver(d)
    /\ UNCHANGED <<accounts, verified, app, uploads, stored, skipped, crossed>>

SessionNext ==
    \/ \E d \in Device :
         \/ Launch(d) \/ Dismiss(d) \/ LogOut(d) \/ OpenEdit(d) \/ Back(d)
         \/ \E way \in Ways : SignIn(d, way)
         \/ \E u \in User : UploadSucceeds(d, u) \/ UploadFails(d, u)
         \/ \E r \in app[d].requests :
              Authenticate(d, r) \/ Accepted(d, r) \/ NotVerified(d, r) \/ Failed(d, r)
         \/ FinishSignUp(d) \/ SessionDeliver(d) \/ SessionKill(d)
    \/ \E u \in User : Verify(u)

SessionSpec == SessionInit /\ [][SessionNext]_sessionVars

-----------------------------------------------------------------------------
(* Variables stay within their type.                                       *)
SessionTypeOK ==
    /\ tree \subseteq SessionLeaf
    /\ \A d \in Device : /\ \A i \in 1..Len(pending[d]) :
                              /\ pending[d][i].drop \subseteq SessionLeaf
                              /\ pending[d][i].put \subseteq pending[d][i].drop
                         /\ sent[d] \in 0..Len(pending[d])
    /\ wanted \subseteq Link /\ torn \subseteq Link
    /\ verified \subseteq accounts /\ accounts \subseteq User
    /\ app \in [Device -> AppState]
    /\ uploads \in [Device -> [User -> Nat]]
    /\ stored \subseteq User /\ crossed \subseteq User /\ skipped \subseteq User \ crossed

(* The tabs are never up without a user, whose uid every screen of theirs  *)
(* unwraps by force, whatever sign-ins, failures, verifications, kills and *)
(* launches came before, unless the log-in screen was overtaken by another *)
(* answer.                                                                 *)
TabsHaveUser ==
    \A d \in Device : app[d].front = "tabs" /\ ~app[d].overtaken => app[d].account \in accounts

(* Who reaches the tabs has a profile as his device sees it, unless his    *)
(* form was quit, lost with a kill, or never shown.                        *)
ProfileBeforeTabs ==
    \A d \in Device : app[d].front = "tabs" /\ app[d].account \notin skipped \cup crossed \cup {NoUser} =>
        \E v \in User : Sees(d, Profile(app[d].account, v))

(* A node says only what is its user's own: fields typed in a form that    *)
(* was opened for him, and his own picture, unless another account came in *)
(* while that was under way.                                               *)
NodeIsOwn ==
    \A u \in User \ crossed : tree \cap (Profiles(u) \cup Photos(u)) \subseteq {Profile(u, u), PhotoUrl(u, u)}

(* A stored picture is listed: on the only device of an account, with no   *)
(* upload running and every write landed, a user whose latest picture was  *)
(* uploaded while he was the user has his photo_url, however submissions   *)
(* and uploads overlap and whoever else came and went; unless a form was   *)
(* submitted for him when he was signed out already.                       *)
PhotoListed ==
    \A u \in User \ crossed :
        /\ u \in stored
        /\ \A d \in Device : uploads[d][u] = 0 /\ \A p \in Photos(u) : Landed(d, p)
        => PhotoUrl(u, u) \in tree
=============================================================================
