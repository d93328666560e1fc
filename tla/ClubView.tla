------------------------------ MODULE ClubView ------------------------------
(***************************************************************************)
(* ClubViewController.swift: the screen of one club.  Every appearance     *)
(* hides the button and asks the database which of three offers it should  *)
(* make (Edit Club, Leave Club, Join Club); the answers arrive later, from *)
(* up to two nested reads, and a tap acts on the flags they left behind.   *)
(* One device can hold several of these screens: a member listed on a club *)
(* screen opens a profile, whose club list opens a club screen again, and  *)
(* every tab has a stack of its own.                                       *)
(***************************************************************************)
EXTENDS Links

CONSTANTS AccountOf,   \* [Device -> User], who is signed in where
          Screen,      \* instances of ClubViewController
          HostOf,      \* [Screen -> Device]
          ClubOf,      \* [Event -> Club]; a code to scan names an event with its club
          Described,   \* clubs whose club_description is in the database
          MaxReads,    \* bound on a screen's outstanding reads of one kind, for TLC
          NoClub, NoEvent

ASSUME AccountAssumption == AccountOf \in [Device -> User]
ASSUME HostAssumption == HostOf \in [Screen -> Device]
ASSUME ClubOfAssumption == ClubOf \in [Event -> Club]
ASSUME DescribedAssumption == Described \subseteq Club /\ \A f \in Founded : f[2] \in Described
ASSUME MaxReadsAssumption == MaxReads \in Nat
ASSUME NoneAssumption == NoClub \notin Club /\ NoEvent \notin Event

VARIABLE screen        \* [Screen -> ScreenState]

clubVars == <<tree, pending, sent, wanted, torn, screen>>

Title == {"none", "Edit Club", "Leave Club", "Join Club"}

ScreenState ==
    [phase : {"closed", "shown", "covered"},
     ClubKey : Club \cup {NoClub},
     ClubEventKey : Event \cup {NoEvent},  \* NoEvent: CameFromCamera is false
     alert : BOOLEAN,                      \* the check-in prompt is up
     isAdmin : BOOLEAN,
     isMember : BOOLEAN,
     title : Title,                        \* of ClubButton
     hidden : BOOLEAN,                     \* ClubButton.isHidden
     analytics : BOOLEAN,                  \* AnalyticsButton is visible
     adminReads : Nat,                     \* outstanding reads of admin_clubs
     memberReads : Nat]                    \* outstanding reads of clubs

Closed ==
    [phase |-> "closed", ClubKey |-> NoClub, ClubEventKey |-> NoEvent, alert |-> FALSE,
     isAdmin |-> FALSE, isMember |-> FALSE, title |-> "none", hidden |-> FALSE,
     analytics |-> FALSE, adminReads |-> 0, memberReads |-> 0]

-----------------------------------------------------------------------------
Me(s) == AccountOf[HostOf[s]]
ClubLink(s) == [kind |-> "club", user |-> Me(s), key |-> screen[s].ClubKey]
CheckIn(s) == [kind |-> "event", user |-> Me(s), key |-> screen[s].ClubEventKey]

Shown(s) == screen[s].phase = "shown"

(* The button can be tapped: the screen is in front, without the prompt.   *)
Tappable(s) == Shown(s) /\ ~screen[s].alert /\ ~screen[s].hidden

(* Mutants: the button stays visible; both reads go out at once.           *)
Appearing_KeepsButton(r) ==
    [r EXCEPT !.phase = "shown", !.analytics = FALSE, !.adminReads = @ + 1,
              !.alert = r.ClubEventKey # NoEvent]
Appearing_ParallelReads(r) ==
    [r EXCEPT !.phase = "shown", !.hidden = TRUE, !.analytics = FALSE,
              !.adminReads = @ + 1, !.memberReads = @ + 1,
              !.alert = r.ClubEventKey # NoEvent]

(* viewWillAppear, then viewDidAppear, of a screen in state r.             *)
Appearing(r) ==
    [r EXCEPT !.phase = "shown", !.hidden = TRUE, !.analytics = FALSE,
              !.adminReads = @ + 1, !.alert = r.ClubEventKey # NoEvent]

(* Screen s comes to the front of its device; the one before it is covered *)
(* and its prompt goes with it.                                            *)
Front(s, r) ==
    [t \in Screen |->
        IF t = s THEN r
        ELSE IF HostOf[t] = HostOf[s] /\ Shown(t)
             THEN [screen[t] EXCEPT !.phase = "covered", !.alert = FALSE]
             ELSE screen[t]]

-----------------------------------------------------------------------------
ClubInit == Init /\ screen = [s \in Screen |-> Closed]

(* A list, a search result or a scanned code opens the screen of club c.   *)
Open(s, c, e) ==
    /\ screen[s].phase = "closed"
    /\ e # NoEvent => c = ClubOf[e]
    /\ screen' = Front(s, Appearing([Closed EXCEPT !.ClubKey = c, !.ClubEventKey = e]))
    /\ UNCHANGED vars

(* Something else covers the screen: a table row, an editor, another tab,  *)
(* the camera after Cancel on the prompt.                                  *)
Cover(s) ==
    /\ Shown(s)
    /\ screen' = [screen EXCEPT ![s].phase = "covered", ![s].alert = FALSE]
    /\ UNCHANGED vars

(* ... and the screen comes back to the front, its flags as it left them.  *)
Reappear(s) ==
    /\ screen[s].phase = "covered"
    /\ screen[s].adminReads < MaxReads
    /\ screen' = Front(s, Appearing(screen[s]))
    /\ UNCHANGED vars

(* The screen is popped; answers still under way find nobody to show them. *)
Close(s) ==
    /\ Shown(s)
    /\ screen' = [screen EXCEPT ![s] = Closed]
    /\ UNCHANGED vars

(* users/me/admin_clubs arrives.  Unless the screen knows an admin by now, *)
(* the second read goes out.                                               *)
AdminReply(s) ==
    /\ screen[s].adminReads > 0
    /\ screen[s].memberReads < MaxReads
    /\ LET found == Sees(HostOf[s], AdminEntry(Me(s), screen[s].ClubKey))
           admin == found \/ screen[s].isAdmin
           asked == [screen[s] EXCEPT !.adminReads = @ - 1,
                                      !.isAdmin = admin,
                                      !.memberReads = IF admin THEN @ ELSE @ + 1]
       IN screen' = [screen EXCEPT ![s] =
              IF found THEN [asked EXCEPT !.hidden = FALSE, !.title = "Edit Club",
                                          !.analytics = TRUE]
                       ELSE asked]
    /\ UNCHANGED vars

(* Mutants: the list is observed instead of read once, so the closure runs *)
(* on every change; the button is shown to members only.                   *)
MemberReply_Observes(s) ==
    /\ screen[s].phase # "closed"
    /\ screen' = [screen EXCEPT ![s].memberReads = @ - 1]
    /\ UNCHANGED vars
MemberReply_MembersOnly(s) ==
    /\ screen[s].memberReads > 0
    /\ screen' = [screen EXCEPT ![s] =
          IF Sees(HostOf[s], Near(ClubLink(s)))
          THEN [screen[s] EXCEPT !.memberReads = @ - 1, !.hidden = FALSE,
                                 !.title = "Leave Club", !.isMember = TRUE]
          ELSE [screen[s] EXCEPT !.memberReads = @ - 1]]
    /\ UNCHANGED vars

(* users/me/clubs arrives.  A key that is missing shows the button only if *)
(* isMember is not set from before.                                        *)
MemberReply(s) ==
    /\ screen[s].memberReads > 0
    /\ LET found == Sees(HostOf[s], Near(ClubLink(s)))
           read == [screen[s] EXCEPT !.memberReads = @ - 1]
       IN screen' = [screen EXCEPT ![s] =
              IF found THEN [read EXCEPT !.hidden = FALSE, !.title = "Leave Club",
                                         !.isMember = TRUE]
              ELSE IF ~screen[s].isMember
              THEN [read EXCEPT !.hidden = FALSE, !.title = "Join Club"]
              ELSE read]
    /\ UNCHANGED vars

(* doClubButtonAction, neither admin nor member by the flags.              *)
TapJoin(s) ==
    /\ Tappable(s)
    /\ ~screen[s].isAdmin /\ ~screen[s].isMember
    /\ Attach(HostOf[s], ClubLink(s))
    /\ screen' = [screen EXCEPT ![s].title = "Leave Club", ![s].isMember = TRUE]

(* Mutants: the flag is not reset; the club keeps its member.              *)
TapLeave_KeepsFlag(s) ==
    /\ Tappable(s)
    /\ ~screen[s].isAdmin /\ screen[s].isMember
    /\ Detach(HostOf[s], ClubLink(s))
    /\ screen' = [screen EXCEPT ![s].title = "Join Club"]
TapLeave_OneSided(s) ==
    /\ Tappable(s)
    /\ ~screen[s].isAdmin /\ screen[s].isMember
    /\ Submit(HostOf[s], <<Remove(Near(ClubLink(s)))>>)
    /\ wanted' = wanted \ {ClubLink(s)}
    /\ Judge(HostOf[s], ClubLink(s))
    /\ screen' = [screen EXCEPT ![s].title = "Join Club", ![s].isMember = FALSE]

(* doClubButtonAction, a member by the flags.                              *)
TapLeave(s) ==
    /\ Tappable(s)
    /\ ~screen[s].isAdmin /\ screen[s].isMember
    /\ Detach(HostOf[s], ClubLink(s))
    /\ screen' = [screen EXCEPT ![s].title = "Join Club", ![s].isMember = FALSE]

(* Confirm on the check-in prompt.                                         *)
Confirm(s) ==
    /\ Shown(s) /\ screen[s].alert
    /\ Attach(HostOf[s], CheckIn(s))
    /\ screen' = [screen EXCEPT ![s].alert = FALSE]

ClubDeliver(d) == Deliver(d) /\ UNCHANGED screen

ClubKill(d) ==
    /\ Kill(d)
    /\ screen' = [s \in Screen |-> IF HostOf[s] = d THEN Closed ELSE screen[s]]

(* viewDidLoad's read of the club arrives.  A description is shown; a club *)
(* that has none stops the app.                                            *)
InfoReply(s) ==
    /\ screen[s].phase # "closed" /\ screen[s].ClubKey \notin Described
    /\ ClubKill(HostOf[s])

ClubNext ==
    \/ \E s \in Screen :
         \/ \E c \in Club, e \in Event \cup {NoEvent} : Open(s, c, e)
         \/ Cover(s) \/ Reappear(s) \/ Close(s)
         \/ InfoReply(s) \/ AdminReply(s) \/ MemberReply(s)
         \/ TapJoin(s) \/ TapLeave(s) \/ Confirm(s)
    \/ \E d \in Device : ClubDeliver(d) \/ ClubKill(d)

ClubSpec == ClubInit /\ [][ClubNext]_clubVars

-----------------------------------------------------------------------------
(* Screens stay within their type.                                         *)
ClubTypeOK == TypeOK /\ screen \in [Screen -> ScreenState]

(* The button does what it says: a visible title names the branch of       *)
(* doClubButtonAction the flags select, whatever order the answers, taps   *)
(* and reappearances came in.                                              *)
TitleMatchesAction ==
    \A s \in Screen : ~screen[s].hidden /\ screen[s].phase # "closed" =>
        screen[s].title = IF screen[s].isAdmin THEN "Edit Club"
                          ELSE IF screen[s].isMember THEN "Leave Club"
                          ELSE "Join Club"

(* The offer is current: on a device that shares its account with no other *)
(* a button that can be tapped offers to leave exactly when the club is in *)
(* the user's list as that device sees it.                                 *)
OfferIsCurrent ==
    \A s \in Screen : Tappable(s) /\ ~screen[s].isAdmin =>
        (screen[s].isMember <=> Sees(HostOf[s], Near(ClubLink(s))))

(* A founder's screen never turns into a join or leave button, and nobody  *)
(* else's turns into an editor.                                            *)
OnlyFoundersEdit ==
    \A s \in Screen : Tappable(s) =>
        (screen[s].isAdmin <=> <<Me(s), screen[s].ClubKey>> \in Founded)

(* The screen remembers a membership the user has given up since: isMember *)
(* is set by reads and never reset by one.                                 *)
Outdated(s) == screen[s].isMember /\ ~Sees(HostOf[s], Near(ClubLink(s)))

(* Once every read is answered the screen has its button back, unless the  *)
(* club was left on another screen in between.                             *)
ButtonReturns ==
    \A s \in Screen : Shown(s) /\ screen[s].adminReads = 0 /\ screen[s].memberReads = 0
        => /\ ~screen[s].hidden \/ Outdated(s)
           /\ screen[s].analytics <=> screen[s].isAdmin

(* The founder's entry in admin_clubs is never written again.              *)
AdminsKept ==
    \A f \in Founded :
        /\ AdminEntry(f[1], f[2]) \in tree
        /\ \A d \in Device : ~Covered(pending[d], AdminEntry(f[1], f[2]))

(* What a screen in state r can be relied on for, between any two steps.   *)
Sound(s, r) ==
    LET founder == <<Me(s), r.ClubKey>> \in Founded
    IN  /\ r \in ScreenState
        /\ IF r.phase = "closed" THEN r = Closed ELSE r.ClubKey \in Club
        /\ r.alert => r.ClubEventKey # NoEvent
        /\ r.isAdmin => founder
        /\ founder => r.memberReads = 0
        /\ r.phase # "closed" /\ ~r.hidden =>
              /\ founder => r.isAdmin
              /\ r.title = IF r.isAdmin THEN "Edit Club"
                           ELSE IF r.isMember THEN "Leave Club"
                           ELSE "Join Club"

(* The inductive strengthening of TitleMatchesAction and OnlyFoundersEdit. *)
ClubInv ==
    /\ TypeOK
    /\ AdminsKept
    /\ screen \in [Screen -> ScreenState]
    /\ \A s \in Screen : Sound(s, screen[s])
=============================================================================
