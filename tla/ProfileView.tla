----------------------------- MODULE ProfileView -----------------------------
(***************************************************************************)
(* ProfileViewController.swift: the screen of one user.  The opener sets   *)
(* UserID; every appearance asks for that user's followers and name; and   *)
(* the listener that configureAuth adds, called some time after the screen *)
(* has loaded, sets UserID to the signed-in user whatever it was.          *)
(***************************************************************************)
EXTENDS Links

CONSTANTS AccountOf,   \* [Device -> User], who is signed in where
          Screen,      \* instances of ProfileViewController
          HostOf,      \* [Screen -> Device]
          MaxReads,    \* bound on a screen's outstanding reads of followers, for TLC
          NoUser

ASSUME AccountAssumption == AccountOf \in [Device -> User]
ASSUME HostAssumption == HostOf \in [Screen -> Device]
ASSUME MaxReadsAssumption == MaxReads \in Nat
ASSUME NoUserAssumption == NoUser \notin User

VARIABLES screen,      \* [Screen -> ScreenState]
          profiled,    \* users whose node has the fields of the sign-up form
          outdated     \* history: screens whose isFollowing is older than an
                       \* unfollow of that user on another screen

profileVars == <<tree, pending, sent, wanted, torn, screen, profiled, outdated>>

Title == {"none", "Edit Profile", "Follow", "Unfollow"}

ScreenState ==
    [phase : {"closed", "shown", "covered"},
     loaded : User \cup {NoUser},     \* history: the UserID the opener set
     UserID : User \cup {NoUser},
     told : BOOLEAN,                  \* the auth listener has been called
     isFollowing : BOOLEAN,
     title : Title,                   \* of ProfileButton
     hidden : BOOLEAN,                \* ProfileButton.isHidden
     followReads : Nat,               \* outstanding reads of loaded's followers
     nameReads : SUBSET User,         \* users whose profile is being read
     name : User \cup {NoUser}]       \* whose name and description are shown

Closed ==
    [phase |-> "closed", loaded |-> NoUser, UserID |-> NoUser, told |-> FALSE,
     isFollowing |-> FALSE, title |-> "none", hidden |-> FALSE,
     followReads |-> 0, nameReads |-> {}, name |-> NoUser]

-----------------------------------------------------------------------------
Me(s) == AccountOf[HostOf[s]]
FollowLink(s, u) == [kind |-> "follow", user |-> Me(s), key |-> u]

Shown(s) == screen[s].phase = "shown"
Tappable(s) == Shown(s) /\ ~screen[s].hidden

(* Mutant: the button stays visible while the followers are read.          *)
Appearing_KeepsButton(me, r) ==
    LET asked == [r EXCEPT !.phase = "shown", !.nameReads = @ \cup {r.UserID}]
    IN  IF r.UserID = me
        THEN [asked EXCEPT !.title = "Edit Profile", !.hidden = FALSE]
        ELSE [asked EXCEPT !.followReads = @ + 1]

(* viewWillAppear of a screen of user `me` in state r.                     *)
Appearing(me, r) ==
    LET asked == [r EXCEPT !.phase = "shown", !.nameReads = @ \cup {r.UserID}]
    IN  IF r.UserID = me
        THEN [asked EXCEPT !.title = "Edit Profile", !.hidden = FALSE]
        ELSE [asked EXCEPT !.hidden = TRUE, !.followReads = @ + 1]

(* Screen s comes to the front of its device, over the one shown before.   *)
Front(s, r) ==
    [t \in Screen |->
        IF t = s THEN r
        ELSE IF HostOf[t] = HostOf[s] /\ Shown(t)
             THEN [screen[t] EXCEPT !.phase = "covered"]
             ELSE screen[t]]

-----------------------------------------------------------------------------
ProfileInit ==
    /\ Init
    /\ screen = [s \in Screen |-> Closed]
    /\ profiled \in SUBSET User
    /\ outdated = {}

(* The profile tab opens the own profile, a row of a table any other.      *)
Open(s, u) ==
    /\ screen[s].phase = "closed"
    /\ screen' = Front(s, Appearing(Me(s), [Closed EXCEPT !.loaded = u, !.UserID = u]))
    /\ UNCHANGED <<vars, profiled, outdated>>

(* The auth listener's first call; later calls find the user unchanged.    *)
AuthCallback(s) ==
    /\ screen[s].phase # "closed" /\ ~screen[s].told
    /\ screen' = [screen EXCEPT ![s] = [@ EXCEPT !.told = TRUE, !.UserID = Me(s)]]
    /\ UNCHANGED <<vars, profiled, outdated>>

Cover(s) ==
    /\ Shown(s)
    /\ screen' = [screen EXCEPT ![s].phase = "covered"]
    /\ UNCHANGED <<vars, profiled, outdated>>

Reappear(s) ==
    /\ screen[s].phase = "covered"
    /\ screen[s].followReads < MaxReads
    /\ screen' = Front(s, Appearing(Me(s), screen[s]))
    /\ UNCHANGED <<vars, profiled, outdated>>

Close(s) ==
    /\ Shown(s)
    /\ screen' = [screen EXCEPT ![s] = Closed]
    /\ outdated' = outdated \ {s}
    /\ UNCHANGED <<vars, profiled>>

(* Mutant: the followers are observed instead of read once.                *)
FollowReply_Observes(s) ==
    /\ screen[s].phase # "closed"
    /\ screen' = [screen EXCEPT ![s].followReads = @ - 1]
    /\ UNCHANGED <<vars, profiled, outdated>>

(* users/loaded/followers/me arrives.  "Follow" leaves isFollowing alone.  *)
FollowReply(s) ==
    /\ screen[s].followReads > 0
    /\ LET found == Sees(HostOf[s], Far(FollowLink(s, screen[s].loaded)))
           read == [screen[s] EXCEPT !.followReads = @ - 1, !.hidden = FALSE]
       IN /\ screen' = [screen EXCEPT ![s] =
                 IF found THEN [read EXCEPT !.title = "Unfollow", !.isFollowing = TRUE]
                          ELSE [read EXCEPT !.title = "Follow"]]
          /\ outdated' = IF found THEN outdated \ {s} ELSE outdated
    /\ UNCHANGED <<vars, profiled>>

(* The app of device d dies with its screens.                              *)
Dies(d) ==
    /\ Kill(d)
    /\ screen' = [s \in Screen |-> IF HostOf[s] = d THEN Closed ELSE screen[s]]
    /\ outdated' = {s \in outdated : HostOf[s] # d}

(* users/u arrives: the name and description of the user that was asked;   *)
(* firstName! stops the app if he has not completed the sign-up form.      *)
NameReply(s, u) ==
    /\ u \in screen[s].nameReads
    /\ IF u \in profiled
       THEN /\ screen' = [screen EXCEPT ![s] =
                   [@ EXCEPT !.nameReads = screen[s].nameReads \ {u}, !.name = u]]
            /\ UNCHANGED <<vars, outdated>>
       ELSE Dies(HostOf[s])
    /\ UNCHANGED profiled

(* u completes the form of CompleteSignupViewController.                   *)
Completes(u) ==
    /\ u \notin profiled
    /\ profiled' = profiled \cup {u}
    /\ UNCHANGED <<vars, screen, outdated>>

(* doProfileButtonAction; on the own profile it opens the editor.          *)
TapEdit(s) ==
    /\ Tappable(s)
    /\ screen[s].UserID = Me(s)
    /\ screen' = [screen EXCEPT ![s].phase = "covered"]
    /\ UNCHANGED <<vars, profiled, outdated>>

(* The other screens of this account that keep isFollowing of u.           *)
Keeping(s, u) ==
    {t \in Screen \ {s} : Me(t) = Me(s) /\ screen[t].loaded = u /\ screen[t].isFollowing}

(* Mutants: the unfollowed user keeps the follower; the flag is not reset. *)
TapUnfollow_OneSided(s) ==
    /\ Tappable(s)
    /\ screen[s].UserID # Me(s) /\ screen[s].isFollowing
    /\ Submit(HostOf[s], <<Remove(Near(FollowLink(s, screen[s].UserID)))>>)
    /\ wanted' = wanted \ {FollowLink(s, screen[s].UserID)}
    /\ Judge(HostOf[s], FollowLink(s, screen[s].UserID))
    /\ screen' = [screen EXCEPT ![s] = [@ EXCEPT !.title = "Follow", !.isFollowing = FALSE]]
    /\ outdated' = (outdated \ {s}) \cup Keeping(s, screen[s].UserID)
    /\ UNCHANGED profiled
TapUnfollow_KeepsFlag(s) ==
    /\ Tappable(s)
    /\ screen[s].UserID # Me(s) /\ screen[s].isFollowing
    /\ Detach(HostOf[s], FollowLink(s, screen[s].UserID))
    /\ screen' = [screen EXCEPT ![s].title = "Follow"]
    /\ outdated' = (outdated \ {s}) \cup Keeping(s, screen[s].UserID)
    /\ UNCHANGED profiled

TapUnfollow(s) ==
    /\ Tappable(s)
    /\ screen[s].UserID # Me(s) /\ screen[s].isFollowing
    /\ Detach(HostOf[s], FollowLink(s, screen[s].UserID))
    /\ screen' = [screen EXCEPT ![s] = [@ EXCEPT !.title = "Follow", !.isFollowing = FALSE]]
    /\ outdated' = (outdated \ {s}) \cup Keeping(s, screen[s].UserID)
    /\ UNCHANGED profiled

TapFollow(s) ==
    /\ Tappable(s)
    /\ screen[s].UserID # Me(s) /\ ~screen[s].isFollowing
    /\ Attach(HostOf[s], FollowLink(s, screen[s].UserID))
    /\ screen' = [screen EXCEPT ![s] = [@ EXCEPT !.title = "Unfollow", !.isFollowing = TRUE]]
    /\ UNCHANGED <<profiled, outdated>>

ProfileDeliver(d) == Deliver(d) /\ UNCHANGED <<screen, profiled, outdated>>

ProfileKill(d) == Dies(d) /\ UNCHANGED profiled

ProfileNext ==
    \/ \E s \in Screen :
         \/ \E u \in User : Open(s, u) \/ NameReply(s, u)
         \/ AuthCallback(s) \/ Cover(s) \/ Reappear(s) \/ Close(s)
         \/ FollowReply(s)
         \/ TapEdit(s) \/ TapUnfollow(s) \/ TapFollow(s)
    \/ \E d \in Device : ProfileDeliver(d) \/ ProfileKill(d)
    \/ \E u \in User : Completes(u)

ProfileSpec == ProfileInit /\ [][ProfileNext]_profileVars

-----------------------------------------------------------------------------
(* Screens stay within their type.                                         *)
ProfileTypeOK ==
    /\ TypeOK
    /\ screen \in [Screen -> ScreenState]
    /\ profiled \subseteq User /\ outdated \subseteq Screen

(* On a device that shares its account with no other, a button that can be *)
(* tapped names the relation to the loaded user as that device sees it,    *)
(* although two screens of one user keep flags of their own.               *)
TitleIsCurrent ==
    \A s \in Screen : Tappable(s) /\ screen[s].title \in {"Follow", "Unfollow"} =>
        (screen[s].title = "Unfollow" <=> Sees(HostOf[s], Far(FollowLink(s, screen[s].loaded))))

(* The button means what it says: on a device that shares its account with *)
(* no other, a tap on a screen that still acts on another user follows him *)
(* if the title is Follow and unfollows him if it is Unfollow, whatever    *)
(* replies, taps and appearances came before; unless the user was          *)
(* unfollowed on another screen since this one learnt that one follows.    *)
FollowIsMeant ==
    \A s \in Screen \ outdated : Tappable(s) /\ screen[s].UserID # Me(s) =>
        screen[s].title = IF screen[s].isFollowing THEN "Unfollow" ELSE "Follow"

(* With every profile read answered the screen gives information about the *)
(* profile it was loaded for.                                              *)
LoadedProfileShown ==
    \A s \in Screen : Shown(s) /\ screen[s].nameReads = {} => screen[s].name = screen[s].loaded
=============================================================================
