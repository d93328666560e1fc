-------------------------- MODULE ProfileViewProofs --------------------------
(***************************************************************************)
(* The profile screen: every step of a screen is a step of Links or leaves *)
(* the lists alone, and on a phone that holds its account alone the title  *)
(* is what the phone sees and a tap does what the title says.              *)
(***************************************************************************)
EXTENDS ProfileView, LinksProofs

-----------------------------------------------------------------------------
(* One screen.                                                             *)

(* What a screen in state r can be relied on for, between any two steps:   *)
(* it acts on the user it was loaded for or on its own, its own profile is *)
(* never a button to follow, isFollowing is of another user, and without   *)
(* isFollowing it offers a follow.                                         *)
Sound(s, r) ==
    /\ r \in ScreenState
    /\ IF r.phase = "closed" THEN r = Closed
                             ELSE r.loaded \in User /\ r.UserID \in {r.loaded, Me(s)}
    /\ r.loaded = Me(s) => r.followReads = 0 /\ r.title \notin {"Follow", "Unfollow"}
    /\ r.isFollowing => r.phase # "closed" /\ r.loaded # Me(s)
    /\ r.phase # "closed" /\ ~r.hidden /\ r.UserID # Me(s)
          => r.title \in (IF r.isFollowing THEN {"Follow", "Unfollow"} ELSE {"Follow"})

AllSound ==
    /\ screen \in [Screen -> ScreenState]
    /\ \A s \in Screen : Sound(s, screen[s])

ProfileInv == IInv /\ AllSound

LEMMA MeIsUser ==
    ASSUME NEW s \in Screen
    PROVE  /\ HostOf[s] \in Device /\ Me(s) \in User
           /\ Me(s) # NoUser
BY HostAssumption, AccountAssumption, NoUserAssumption DEF Me

LEMMA ClosedSound ==
    ASSUME NEW s \in Screen
    PROVE  Sound(s, Closed)
<1>1. Closed \in ScreenState
  BY DEF Closed, ScreenState, Title
<1> QED BY <1>1, MeIsUser DEF Sound, Closed

(* An appearance shows the editor of the own profile or hides the button.  *)
LEMMA AppearingSound ==
    ASSUME NEW s \in Screen, NEW r \in ScreenState, r.loaded \in User,
           r.UserID \in {r.loaded, Me(s)},
           r.loaded = Me(s) => r.followReads = 0 /\ r.title \notin {"Follow", "Unfollow"},
           r.isFollowing => r.loaded # Me(s)
    PROVE  Sound(s, Appearing(Me(s), r))
<1> DEFINE N == r.nameReads \cup {r.UserID}
           n == r.followReads + 1
           own == [r EXCEPT !.phase = "shown", !.nameReads = N, !.title = "Edit Profile",
                            !.hidden = FALSE]
           other == [r EXCEPT !.phase = "shown", !.nameReads = N, !.hidden = TRUE,
                              !.followReads = n]
<1>1. r.UserID \in User
  BY MeIsUser
<1>2. N \in SUBSET User /\ n \in Nat
  BY <1>1 DEF ScreenState
<1>3. Appearing(Me(s), r) = IF r.UserID = Me(s) THEN own ELSE other
  BY DEF Appearing, ScreenState
<1> HIDE DEF N, n
<1>4. own \in ScreenState /\ other \in ScreenState
  BY <1>2 DEF ScreenState, Title
<1>5. CASE r.UserID = Me(s)
  <2>1. Sound(s, own)
    BY <1>4, <1>5 DEF Sound, ScreenState
  <2> QED BY <1>3, <1>5, <2>1
<1>6. CASE r.UserID # Me(s)
  <2>1. Sound(s, other)
    BY <1>4, <1>6 DEF Sound, ScreenState
  <2> QED BY <1>3, <1>6, <2>1
<1> QED BY <1>5, <1>6

LEMMA CoveredSound ==
    ASSUME NEW s \in Screen, NEW r, Sound(s, r), r.phase # "closed"
    PROVE  Sound(s, [r EXCEPT !.phase = "covered"])
BY DEF Sound, ScreenState

(* Bringing one sound screen to the front leaves all screens sound.        *)
LEMMA FrontSound ==
    ASSUME NEW s \in Screen, NEW r, Sound(s, r), \A t \in Screen : Sound(t, screen[t])
    PROVE  /\ Front(s, r) \in [Screen -> ScreenState]
           /\ \A t \in Screen : Sound(t, Front(s, r)[t])
<1>1. ASSUME NEW t \in Screen PROVE Sound(t, Front(s, r)[t])
  <2>1. CASE t = s
    BY <2>1 DEF Front
  <2>2. CASE t # s /\ HostOf[t] = HostOf[s] /\ Shown(t)
    BY <2>2, CoveredSound DEF Front, Shown
  <2>3. CASE t # s /\ ~(HostOf[t] = HostOf[s] /\ Shown(t))
    BY <2>3 DEF Front
  <2> QED BY <2>1, <2>2, <2>3
<1>2. \A t \in Screen : Front(s, r)[t] \in ScreenState
  BY <1>1 DEF Sound
<1>3. Front(s, r) = [t \in Screen |-> Front(s, r)[t]]
  BY DEF Front
<1> QED BY <1>1, <1>2, <1>3

(* Changing one screen to a sound state leaves all screens sound.          *)
LEMMA OneSound ==
    ASSUME NEW s \in Screen, NEW r, Sound(s, r), AllSound,
           screen' = [screen EXCEPT ![s] = r]
    PROVE  AllSound'
BY DEF Sound, AllSound

-----------------------------------------------------------------------------
(* The steps of a screen that leave the database alone.                    *)

LEMMA OpenSound ==
    ASSUME AllSound, NEW s \in Screen, NEW u \in User, Open(s, u)
    PROVE  AllSound'
<1> DEFINE r == [Closed EXCEPT !.loaded = u, !.UserID = u]
<1>1. /\ r \in ScreenState
      /\ r.loaded \in User /\ r.UserID = r.loaded
      /\ r.followReads = 0 /\ r.title = "none" /\ ~r.isFollowing
  BY DEF Closed, ScreenState, Title
<1>2. screen' = Front(s, Appearing(Me(s), r))
  BY DEF Open
<1> HIDE DEF r
<1>3. Sound(s, Appearing(Me(s), r))
  BY <1>1, AppearingSound
<1> QED BY <1>2, <1>3, FrontSound DEF AllSound

LEMMA ReappearSound ==
    ASSUME AllSound, NEW s \in Screen, Reappear(s)
    PROVE  AllSound'
<1>1. Sound(s, screen[s]) /\ screen[s] \in ScreenState /\ screen[s].phase = "covered"
  BY DEF AllSound, Reappear
<1>2. Sound(s, Appearing(Me(s), screen[s]))
  BY <1>1, AppearingSound DEF Sound
<1> QED BY <1>2, FrontSound DEF AllSound, Reappear

(* The auth listener makes a screen act on its own user only.              *)
LEMMA AuthSound ==
    ASSUME AllSound, NEW s \in Screen, AuthCallback(s)
    PROVE  AllSound'
<1> DEFINE q == [screen[s] EXCEPT !.told = TRUE, !.UserID = Me(s)]
<1>1. Sound(s, screen[s]) /\ screen[s] \in ScreenState /\ screen[s].phase # "closed"
  BY DEF AllSound, AuthCallback
<1>2. q \in ScreenState
  BY <1>1, MeIsUser DEF ScreenState
<1>3. Sound(s, q)
  BY <1>1, <1>2 DEF Sound, ScreenState
<1>4. screen' = [screen EXCEPT ![s] = q]
  BY DEF AuthCallback
<1> HIDE DEF q
<1> QED BY <1>3, <1>4, OneSound

LEMMA LeaveSound ==
    ASSUME AllSound, NEW s \in Screen, Cover(s) \/ TapEdit(s) \/ Close(s)
    PROVE  AllSound'
<1>1. Sound(s, screen[s]) /\ screen[s].phase = "shown"
  BY DEF AllSound, Cover, TapEdit, Tappable, Close, Shown
<1>2. CASE Cover(s) \/ TapEdit(s)
  <2> DEFINE r == [screen[s] EXCEPT !.phase = "covered"]
  <2>1. Sound(s, r)
    BY <1>1, CoveredSound
  <2>2. screen' = [screen EXCEPT ![s] = r]
    BY <1>2 DEF Cover, TapEdit
  <2> HIDE DEF r
  <2> QED BY <2>1, <2>2, OneSound
<1>3. CASE Close(s)
  BY <1>3, ClosedSound, OneSound DEF Close
<1> QED BY <1>2, <1>3

(* The answer about followers.                                             *)
LEMMA FollowReplySound ==
    ASSUME AllSound, NEW s \in Screen, FollowReply(s)
    PROVE  AllSound'
<1> DEFINE r == screen[s]
           n == r.followReads - 1
           found == Sees(HostOf[s], Far(FollowLink(s, r.loaded)))
           yes == [r EXCEPT !.followReads = n, !.hidden = FALSE, !.title = "Unfollow",
                            !.isFollowing = TRUE]
           no == [r EXCEPT !.followReads = n, !.hidden = FALSE, !.title = "Follow"]
<1>1. /\ Sound(s, r) /\ r \in ScreenState
      /\ r.followReads \in Nat \ {0}
  BY DEF AllSound, FollowReply, ScreenState
<1>2. r.loaded # Me(s)
  BY <1>1 DEF Sound
<1>3. r.phase # "closed"
  BY <1>1 DEF Sound, Closed
<1>4. n \in Nat
  BY <1>1
<1>5. screen' = [screen EXCEPT ![s] = IF found THEN yes ELSE no]
  BY DEF FollowReply
<1> HIDE DEF n, found
<1>6. yes \in ScreenState /\ no \in ScreenState
  BY <1>1, <1>4 DEF ScreenState, Title
<1>7. Sound(s, yes) /\ Sound(s, no)
  BY <1>1, <1>2, <1>3, <1>6 DEF Sound, ScreenState
<1> HIDE DEF yes, no
<1> QED BY <1>5, <1>7, OneSound

LEMMA NameReplySound ==
    ASSUME AllSound, NEW s \in Screen, NEW u \in User, u \in profiled, NameReply(s, u)
    PROVE  AllSound'
<1> DEFINE N == screen[s].nameReads \ {u}
           q == [screen[s] EXCEPT !.nameReads = N, !.name = u]
<1>1. Sound(s, screen[s]) /\ screen[s] \in ScreenState
  BY DEF AllSound
<1>2. N \in SUBSET User
  BY <1>1 DEF ScreenState
<1>3. screen[s].phase # "closed"
  BY <1>1 DEF Sound, Closed, NameReply
<1>4. screen' = [screen EXCEPT ![s] = q]
  BY DEF NameReply
<1> HIDE DEF N
<1>5. q \in ScreenState
  BY <1>1, <1>2 DEF ScreenState
<1>6. Sound(s, q)
  BY <1>1, <1>3, <1>5 DEF Sound, ScreenState
<1> HIDE DEF q
<1> QED BY <1>4, <1>6, OneSound

-----------------------------------------------------------------------------
(* Taps.                                                                   *)

(* The state in which a tap that does act leaves its screen.               *)
Turned(r, act) ==
    IF act = "attach" THEN [r EXCEPT !.title = "Unfollow", !.isFollowing = TRUE]
                      ELSE [r EXCEPT !.title = "Follow", !.isFollowing = FALSE]

(* A tap on Follow or Unfollow taps the link to the user the screen was    *)
(* loaded for, and turns the button round.                                 *)
LEMMA TapCases ==
    ASSUME AllSound, NEW s \in Screen, TapFollow(s) \/ TapUnfollow(s)
    PROVE  /\ FollowLink(s, screen[s].loaded) \in Link
           /\ Shown(s)
           /\ \E act \in {"attach", "detach"} :
                 /\ Tap(HostOf[s], FollowLink(s, screen[s].loaded), act)
                 /\ screen' = [screen EXCEPT ![s] = Turned(screen[s], act)]
           /\ \/ Attach(HostOf[s], FollowLink(s, screen[s].loaded))
              \/ Detach(HostOf[s], FollowLink(s, screen[s].loaded))
<1>1. /\ Sound(s, screen[s])
      /\ Shown(s) /\ screen[s].UserID # Me(s)
  BY DEF AllSound, TapFollow, TapUnfollow, Tappable
<1>2. screen[s].loaded = screen[s].UserID /\ screen[s].loaded \in User
  BY <1>1 DEF Sound, Shown
<1>3. FollowLink(s, screen[s].loaded) \in Link
  BY <1>1, <1>2, MeIsUser DEF FollowLink, Link
<1>4. CASE TapFollow(s)
  <2>1. Attach(HostOf[s], FollowLink(s, screen[s].loaded))
    BY <1>2, <1>4 DEF TapFollow
  <2>2. Tap(HostOf[s], FollowLink(s, screen[s].loaded), "attach")
    BY <2>1 DEF Attach, Tap, TapWrites
  <2>3. screen' = [screen EXCEPT ![s] = Turned(screen[s], "attach")]
    BY <1>4 DEF TapFollow, Turned
  <2> QED BY <1>1, <1>3, <2>1, <2>2, <2>3
<1>5. CASE TapUnfollow(s)
  <2>1. Detach(HostOf[s], FollowLink(s, screen[s].loaded))
    BY <1>2, <1>5 DEF TapUnfollow
  <2>2. Tap(HostOf[s], FollowLink(s, screen[s].loaded), "detach")
    BY <2>1 DEF Detach, Tap, TapWrites
  <2>3. screen' = [screen EXCEPT ![s] = Turned(screen[s], "detach")]
    BY <1>5 DEF TapUnfollow, Turned
  <2> QED BY <1>1, <1>3, <2>1, <2>2, <2>3
<1> QED BY <1>4, <1>5

LEMMA TapSound ==
    ASSUME AllSound, NEW s \in Screen, TapFollow(s) \/ TapUnfollow(s)
    PROVE  AllSound'
<1>1. PICK act \in {"attach", "detach"} :
         screen' = [screen EXCEPT ![s] = Turned(screen[s], act)]
  BY TapCases
<1>2. /\ Sound(s, screen[s]) /\ screen[s] \in ScreenState
      /\ Shown(s) /\ screen[s].UserID # Me(s)
  BY DEF AllSound, TapFollow, TapUnfollow, Tappable
<1>3. screen[s].loaded # Me(s)
  BY <1>2 DEF Sound, Shown
<1>4. Turned(screen[s], act) \in ScreenState
  BY <1>2 DEF Turned, ScreenState, Title
<1>5. Sound(s, Turned(screen[s], act))
  BY <1>2, <1>3, <1>4 DEF Sound, Turned, ScreenState, Shown
<1> QED BY <1>1, <1>5, OneSound

LEMMA KillSound ==
    ASSUME AllSound, NEW d \in Device, Dies(d)
    PROVE  AllSound'
<1>1. \A s \in Screen : screen'[s] = Closed \/ screen'[s] = screen[s]
  BY DEF Dies
<1>2. \A s \in Screen : Sound(s, screen'[s])
  BY <1>1, ClosedSound DEF AllSound
<1>3. screen' = [s \in Screen |-> screen'[s]]
  BY DEF Dies
<1> QED BY <1>2, <1>3 DEF AllSound, Sound

-----------------------------------------------------------------------------
(* The steps of a screen, sorted by what they do to the lists.             *)

LookSteps(s) ==
    \/ \E u \in User : Open(s, u) \/ (u \in profiled /\ NameReply(s, u))
    \/ AuthCallback(s) \/ Cover(s) \/ Reappear(s) \/ Close(s)
    \/ FollowReply(s) \/ TapEdit(s)

LEMMA LookSound ==
    ASSUME AllSound, NEW s \in Screen, LookSteps(s)
    PROVE  UNCHANGED vars /\ AllSound'
<1>1. UNCHANGED vars
  BY DEF LookSteps, Open, NameReply, AuthCallback, Cover, Reappear, Close, FollowReply, TapEdit
<1>2. AllSound'
  BY OpenSound, NameReplySound, AuthSound, LeaveSound, ReappearSound, FollowReplySound
     DEF LookSteps
<1> QED BY <1>1, <1>2

LEMMA ProfileCases ==
    ASSUME ProfileNext
    PROVE  \/ \E s \in Screen : LookSteps(s) \/ TapFollow(s) \/ TapUnfollow(s)
           \/ \E d \in Device : ProfileDeliver(d) \/ Dies(d)
           \/ \E u \in User : Completes(u)
<1>1. ASSUME NEW s \in Screen, NEW u \in User, NameReply(s, u), u \notin profiled
      PROVE  \E d \in Device : Dies(d)
  BY <1>1, MeIsUser DEF NameReply
<1> QED BY <1>1 DEF ProfileNext, LookSteps, ProfileKill

(* Every step of a screen is a step of Links, or none.                     *)
LEMMA ScreenStepIsLinkStep ==
    ASSUME AllSound, [ProfileNext]_profileVars
    PROVE  [Next]_vars /\ AllSound'
<1>1. CASE UNCHANGED profileVars
  BY <1>1 DEF profileVars, vars, AllSound
<1>2. ASSUME NEW s \in Screen, LookSteps(s)
      PROVE  [Next]_vars /\ AllSound'
  BY <1>2, LookSound
<1>3. ASSUME NEW s \in Screen, TapFollow(s) \/ TapUnfollow(s)
      PROVE  [Next]_vars /\ AllSound'
  <2>1. AllSound'
    BY <1>3, TapSound
  <2>2. PICK l \in Link : Attach(HostOf[s], l) \/ Detach(HostOf[s], l)
    BY <1>3, TapCases
  <2> QED BY <2>1, <2>2, MeIsUser DEF Next
<1>4. ASSUME NEW d \in Device, ProfileDeliver(d)
      PROVE  [Next]_vars /\ AllSound'
  BY <1>4 DEF ProfileDeliver, Next, AllSound
<1>5. ASSUME NEW d \in Device, Dies(d)
      PROVE  [Next]_vars /\ AllSound'
  BY <1>5, KillSound DEF Dies, Next
<1>6. ASSUME NEW u \in User, Completes(u)
      PROVE  [Next]_vars /\ AllSound'
  BY <1>6 DEF Completes, AllSound
<1>7. CASE ProfileNext
  BY <1>2, <1>3, <1>4, <1>5, <1>6, <1>7, ProfileCases
<1> QED BY <1>1, <1>7

LEMMA ProfileInvInit == ProfileInit => ProfileInv
<1> SUFFICES ASSUME ProfileInit PROVE ProfileInv
  OBVIOUS
<1>1. IInv
  BY IInvInit DEF ProfileInit
<1>2. \A s \in Screen : Sound(s, screen[s])
  BY ClosedSound DEF ProfileInit
<1>3. screen \in [Screen -> ScreenState]
  BY <1>2 DEF ProfileInit, Sound
<1> QED BY <1>1, <1>2, <1>3 DEF ProfileInv, AllSound

LEMMA ProfileInvStep == ProfileInv /\ [ProfileNext]_profileVars => ProfileInv'
<1> SUFFICES ASSUME ProfileInv, [ProfileNext]_profileVars PROVE ProfileInv'
  OBVIOUS
<1>1. [Next]_vars /\ AllSound'
  BY ScreenStepIsLinkStep DEF ProfileInv
<1>2. IInv'
  BY <1>1, IInvStep DEF ProfileInv
<1> QED BY <1>1, <1>2 DEF ProfileInv

(* The inductive invariant of the profile screens.                         *)
THEOREM ProfileInduction == ProfileSpec => []ProfileInv
  BY ProfileInvInit, ProfileInvStep, PTL DEF ProfileSpec

HistoryOK == profiled \subseteq User /\ outdated \subseteq Screen

LEMMA HistoryStep == HistoryOK /\ [ProfileNext]_profileVars => HistoryOK'
<1> SUFFICES ASSUME HistoryOK, [ProfileNext]_profileVars PROVE HistoryOK'
  OBVIOUS
<1>1. CASE UNCHANGED profileVars
  BY <1>1 DEF profileVars, HistoryOK
<1>2. ASSUME NEW d \in Device, Dies(d) PROVE outdated' \subseteq Screen
  BY <1>2 DEF Dies, HistoryOK
<1>3. ASSUME NEW s \in Screen, NEW u \in User, NameReply(s, u) PROVE HistoryOK'
  BY <1>2, <1>3, MeIsUser DEF NameReply, HistoryOK
<1>4. ASSUME NEW s \in Screen, NEW u \in User, Open(s, u) PROVE HistoryOK'
  BY <1>4 DEF Open, HistoryOK
<1>5. ASSUME NEW s \in Screen,
             AuthCallback(s) \/ Cover(s) \/ Reappear(s) \/ Close(s)
               \/ FollowReply(s) \/ TapEdit(s)
      PROVE  HistoryOK'
  BY <1>5 DEF AuthCallback, Cover, Reappear, Close, FollowReply, TapEdit, HistoryOK
<1>6. ASSUME NEW s \in Screen, TapFollow(s) \/ TapUnfollow(s) PROVE HistoryOK'
  BY <1>6 DEF TapFollow, TapUnfollow, Keeping, HistoryOK
<1>7. ASSUME NEW d \in Device, ProfileDeliver(d) \/ ProfileKill(d) PROVE HistoryOK'
  BY <1>2, <1>7 DEF ProfileDeliver, ProfileKill, HistoryOK
<1>8. ASSUME NEW u \in User, Completes(u) PROVE HistoryOK'
  BY <1>8 DEF Completes, HistoryOK
<1> QED BY <1>1, <1>3, <1>4, <1>5, <1>6, <1>7, <1>8 DEF ProfileNext

(* Screens stay within their type.                                         *)
THEOREM ProfileTypeCorrect == ProfileSpec => []ProfileTypeOK
<1>1. ProfileInv /\ HistoryOK => ProfileTypeOK
  BY DEF ProfileInv, IInv, AllSound, HistoryOK, ProfileTypeOK
<1>2. ProfileInit => HistoryOK
  BY DEF ProfileInit, HistoryOK
<1> QED BY <1>1, <1>2, HistoryStep, ProfileInduction, PTL DEF ProfileSpec

(* The profile screens implement Links.                                    *)
THEOREM ProfileImplementsLinks == ProfileSpec => Spec
<1>1. ProfileInit => Init
  BY DEF ProfileInit
<1>2. ProfileInv /\ [ProfileNext]_profileVars => [Next]_vars
  BY ScreenStepIsLinkStep DEF ProfileInv
<1> QED BY <1>1, <1>2, ProfileInduction, PTL DEF ProfileSpec, Spec

-----------------------------------------------------------------------------
(* Titles of a phone that shares its account with no other.                *)

OwnPhones == \A d, e \in Device : AccountOf[d] = AccountOf[e] => d = e

Current(s) ==
    Tappable(s) /\ screen[s].title \in {"Follow", "Unfollow"} =>
        (screen[s].title = "Unfollow" <=> Sees(HostOf[s], Far(FollowLink(s, screen[s].loaded))))

OneShown == \A s, t \in Screen : Shown(s) /\ Shown(t) /\ HostOf[s] = HostOf[t] => s = t

AllAlone == \A d \in Device, l \in Link : l.user = AccountOf[d] => Alone(d, l)

CurrentInv == ProfileInv /\ OneShown /\ AllAlone /\ \A s \in Screen : Current(s)

(* The link of a screen that offers to follow belongs to its phone.        *)
LEMMA OfferedLink ==
    ASSUME AllSound, NEW s \in Screen, Shown(s), screen[s].title \in {"Follow", "Unfollow"}
    PROVE  /\ FollowLink(s, screen[s].loaded) \in Link
           /\ FollowLink(s, screen[s].loaded).user = AccountOf[HostOf[s]]
<1>1. Sound(s, screen[s]) /\ screen[s].phase = "shown"
  BY DEF AllSound, Shown
<1>2. screen[s].loaded \in User /\ screen[s].loaded # Me(s)
  BY <1>1 DEF Sound
<1> QED BY <1>2, MeIsUser DEF FollowLink, Link, Me

(* A screen that did not change stays current in a step that spares it.    *)
LEMMA StaysCurrent ==
    ASSUME CurrentInv, IInv', NEW s \in Screen, screen'[s] = screen[s],
           Shown(s) /\ screen[s].title \in {"Follow", "Unfollow"}
               => Spares(HostOf[s], FollowLink(s, screen[s].loaded))
    PROVE  Current(s)'
<1>1. SUFFICES ASSUME Tappable(s)', screen'[s].title \in {"Follow", "Unfollow"}
               PROVE  screen'[s].title = "Unfollow"
                          <=> Sees(HostOf[s], Far(FollowLink(s, screen[s].loaded)))'
  BY DEF Current
<1>2. Shown(s) /\ Tappable(s) /\ screen[s].title \in {"Follow", "Unfollow"}
  BY <1>1 DEF Tappable, Shown
<1>3. PICK l \in Link : l = FollowLink(s, screen[s].loaded) /\ l.user = AccountOf[HostOf[s]]
  BY <1>2, OfferedLink DEF CurrentInv, ProfileInv
<1>4. PICK d \in Device : d = HostOf[s]
  BY MeIsUser
<1>5. Alone(d, l) /\ IInv /\ Spares(d, l) /\ Far(l) \in Halves(l)
  BY <1>2, <1>3, <1>4 DEF CurrentInv, AllAlone, ProfileInv, Halves
<1>6. Sees(d, Far(l))' <=> Sees(d, Far(l))
  BY <1>5, SeenStays
<1>7. FollowLink(s, screen[s].loaded)' = l
  BY <1>3 DEF FollowLink, Me
<1>8. Current(s)
  BY DEF CurrentInv
<1> QED BY <1>2, <1>3, <1>4, <1>6, <1>7, <1>8 DEF Current

(* A covered or closed screen has no button to be wrong.                   *)
LEMMA HiddenIsCurrent ==
    ASSUME NEW s \in Screen, screen'[s].phase # "shown" \/ screen'[s].hidden
                                \/ screen'[s].title \notin {"Follow", "Unfollow"}
    PROVE  Current(s)'
BY DEF Current, Tappable, Shown

(* What a look does to the screens: one comes to the front, or one changes *)
(* and goes away, keeps its button, or takes the title the answer gives.   *)
Found(s) == Sees(HostOf[s], Far(FollowLink(s, screen[s].loaded)))

KeepsButton(q, r) ==
    q.phase = r.phase /\ q.hidden = r.hidden /\ q.title = r.title /\ q.loaded = r.loaded

LEMMA LookShape ==
    ASSUME screen \in [Screen -> ScreenState], NEW s \in Screen, LookSteps(s)
    PROVE  \/ \E r \in ScreenState : screen' = Front(s, Appearing(Me(s), r))
           \/ \E q : /\ screen' = [screen EXCEPT ![s] = q]
                     /\ q.phase = "shown" => screen[s].phase = "shown"
                     /\ \/ q.phase # "shown"
                        \/ KeepsButton(q, screen[s])
                        \/ /\ q.title = (IF Found(s) THEN "Unfollow" ELSE "Follow")
                           /\ q.loaded = screen[s].loaded
<1> DEFINE r == screen[s]
<1>1. r \in ScreenState
  OBVIOUS
<1>2. ASSUME NEW u \in User, Open(s, u)
      PROVE  \E x \in ScreenState : screen' = Front(s, Appearing(Me(s), x))
  <2> DEFINE x == [Closed EXCEPT !.loaded = u, !.UserID = u]
  <2>1. x \in ScreenState
    BY DEF Closed, ScreenState, Title
  <2>2. screen' = Front(s, Appearing(Me(s), x))
    BY <1>2 DEF Open
  <2> HIDE DEF x
  <2> QED BY <2>1, <2>2
<1>3. CASE Reappear(s)
  BY <1>1, <1>3 DEF Reappear
<1>4. ASSUME NEW u \in User, u \in profiled, NameReply(s, u)
      PROVE  \E q : screen' = [screen EXCEPT ![s] = q] /\ KeepsButton(q, r)
  <2> DEFINE N == r.nameReads \ {u}
             q == [r EXCEPT !.nameReads = N, !.name = u]
  <2>1. screen' = [screen EXCEPT ![s] = q]
    BY <1>4 DEF NameReply
  <2> HIDE DEF N
  <2>2. KeepsButton(q, r)
    BY <1>1 DEF KeepsButton, ScreenState
  <2> HIDE DEF q
  <2> QED BY <2>1, <2>2
<1>5. ASSUME AuthCallback(s)
      PROVE  \E q : screen' = [screen EXCEPT ![s] = q] /\ KeepsButton(q, r)
  <2> DEFINE q == [r EXCEPT !.told = TRUE, !.UserID = Me(s)]
  <2>1. screen' = [screen EXCEPT ![s] = q]
    BY <1>5 DEF AuthCallback
  <2>2. KeepsButton(q, r)
    BY <1>1 DEF KeepsButton, ScreenState
  <2> HIDE DEF q
  <2> QED BY <2>1, <2>2
<1>6. ASSUME Cover(s) \/ TapEdit(s)
      PROVE  \E q : screen' = [screen EXCEPT ![s] = q] /\ q.phase # "shown"
  <2> DEFINE q == [r EXCEPT !.phase = "covered"]
  <2>1. screen' = [screen EXCEPT ![s] = q]
    BY <1>6 DEF Cover, TapEdit
  <2>2. q.phase # "shown"
    BY <1>1 DEF ScreenState
  <2> HIDE DEF q
  <2> QED BY <2>1, <2>2
<1>7. ASSUME Close(s)
      PROVE  \E q : screen' = [screen EXCEPT ![s] = q] /\ q.phase # "shown"
  <2>1. screen' = [screen EXCEPT ![s] = Closed]
    BY <1>7 DEF Close
  <2>2. Closed.phase # "shown"
    BY DEF Closed
  <2> QED BY <2>1, <2>2
<1>8. ASSUME FollowReply(s)
      PROVE  \E q : /\ screen' = [screen EXCEPT ![s] = q]
                    /\ q.phase = r.phase
                    /\ q.title = (IF Found(s) THEN "Unfollow" ELSE "Follow")
                    /\ q.loaded = r.loaded
  <2> DEFINE n == r.followReads - 1
             yes == [r EXCEPT !.followReads = n, !.hidden = FALSE, !.title = "Unfollow",
                              !.isFollowing = TRUE]
             no == [r EXCEPT !.followReads = n, !.hidden = FALSE, !.title = "Follow"]
  <2>1. screen' = [screen EXCEPT ![s] = IF Found(s) THEN yes ELSE no]
    BY <1>8 DEF FollowReply, Found
  <2> HIDE DEF n
  <2>2. /\ yes.phase = r.phase /\ yes.title = "Unfollow" /\ yes.loaded = r.loaded
        /\ no.phase = r.phase /\ no.title = "Follow" /\ no.loaded = r.loaded
    BY <1>1 DEF ScreenState
  <2> HIDE DEF yes, no
  <2> QED BY <2>1, <2>2
<1> QED BY <1>2, <1>3, <1>4, <1>5, <1>6, <1>7, <1>8 DEF LookSteps, KeepsButton

(* Screens that only look: the database stays, one screen changes and may  *)
(* cover another.                                                          *)
LEMMA LookCurrent ==
    ASSUME CurrentInv, NEW s \in Screen, LookSteps(s)
    PROVE  CurrentInv'
<1>1. UNCHANGED vars /\ AllSound'
  BY LookSound DEF CurrentInv, ProfileInv
<1>2. IInv'
  BY <1>1, IInvStep DEF CurrentInv, ProfileInv
<1>3. AllAlone'
  BY <1>1 DEF CurrentInv, AllAlone, Alone, Busy, vars
<1>4. screen \in [Screen -> ScreenState]
  BY DEF CurrentInv, ProfileInv, AllSound
<1>5. ASSUME NEW t \in Screen, screen'[t] = screen[t]
      PROVE  Current(t)'
  <2>1. Spares(HostOf[t], FollowLink(t, screen[t].loaded))
    BY <1>1 DEF Spares, Passes
  <2> QED BY <1>2, <1>5, <2>1, StaysCurrent
<1>6. CASE \E r \in ScreenState : screen' = Front(s, Appearing(Me(s), r))
  <2>1. PICK r \in ScreenState : screen' = Front(s, Appearing(Me(s), r))
    BY <1>6
  <2>2. Appearing(Me(s), r).hidden \/ Appearing(Me(s), r).title = "Edit Profile"
    <3> DEFINE N == r.nameReads \cup {r.UserID}
               n == r.followReads + 1
               own == [r EXCEPT !.phase = "shown", !.nameReads = N, !.title = "Edit Profile",
                                !.hidden = FALSE]
               other == [r EXCEPT !.phase = "shown", !.nameReads = N, !.hidden = TRUE,
                                  !.followReads = n]
    <3>1. Appearing(Me(s), r) = IF r.UserID = Me(s) THEN own ELSE other
      BY DEF Appearing, ScreenState
    <3> HIDE DEF N, n
    <3>2. own.title = "Edit Profile" /\ other.hidden
      BY DEF ScreenState
    <3> HIDE DEF own, other
    <3> QED BY <3>1, <3>2
  <2>3. Current(s)'
    BY <2>1, <2>2, HiddenIsCurrent DEF Front
  <2>4. ASSUME NEW t \in Screen \ {s}
        PROVE  \/ screen'[t] = screen[t] /\ (HostOf[t] # HostOf[s] \/ ~Shown(t))
               \/ screen'[t].phase = "covered"
    BY <1>4, <2>1 DEF Front, ScreenState
  <2>5. \A t \in Screen : Current(t)'
    BY <1>5, <2>3, <2>4, HiddenIsCurrent
  <2>6. \A t \in Screen \ {s} : Shown(t)' => Shown(t) /\ HostOf[t] # HostOf[s]
    BY <2>4 DEF Shown
  <2>7. OneShown'
    BY <2>6 DEF CurrentInv, OneShown
  <2> QED BY <1>1, <1>2, <1>3, <2>5, <2>7 DEF CurrentInv, ProfileInv
<1>7. ASSUME NEW q, screen' = [screen EXCEPT ![s] = q],
             q.phase = "shown" => screen[s].phase = "shown",
             \/ q.phase # "shown"
             \/ KeepsButton(q, screen[s])
             \/ /\ q.title = (IF Found(s) THEN "Unfollow" ELSE "Follow")
                /\ q.loaded = screen[s].loaded
      PROVE  CurrentInv'
  <2>1. screen'[s] = q /\ \A t \in Screen \ {s} : screen'[t] = screen[t]
    BY <1>4, <1>7
  <2>2. ASSUME screen'[s].loaded = screen[s].loaded
        PROVE  Sees(HostOf[s], Far(FollowLink(s, screen[s].loaded)))' <=> Found(s)
    <3>1. FollowLink(s, screen[s].loaded)' = FollowLink(s, screen[s].loaded)
      BY <2>2 DEF FollowLink, Me
    <3> QED BY <1>1, <3>1 DEF vars, Sees, Found, Far
  <2>3. Current(s)'
    <3>1. CASE q.phase # "shown"
      BY <2>1, <3>1, HiddenIsCurrent
    <3>2. CASE KeepsButton(q, screen[s])
      <4>1. Current(s)
        BY DEF CurrentInv
      <4> QED BY <2>1, <2>2, <3>2, <4>1 DEF Current, KeepsButton, Tappable, Shown, Found
    <3>3. CASE /\ q.title = (IF Found(s) THEN "Unfollow" ELSE "Follow")
               /\ q.loaded = screen[s].loaded
      BY <2>1, <2>2, <3>3 DEF Current
    <3> QED BY <1>7, <3>1, <3>2, <3>3
  <2>4. \A t \in Screen : Current(t)'
    BY <1>5, <2>1, <2>3
  <2>5. \A t \in Screen : Shown(t)' => Shown(t)
    BY <1>7, <2>1 DEF Shown
  <2>6. OneShown'
    BY <2>5 DEF CurrentInv, OneShown
  <2> QED BY <1>1, <1>2, <1>3, <2>4, <2>6 DEF CurrentInv, ProfileInv
<1> QED BY <1>4, <1>6, <1>7, LookShape

(* A tap on one screen; the others in front belong to other accounts.      *)
LEMMA TapCurrent ==
    ASSUME OwnPhones, CurrentInv, ProfileInv', NEW s \in Screen, TapFollow(s) \/ TapUnfollow(s)
    PROVE  CurrentInv'
<1>1. AllSound /\ IInv /\ IInv' /\ TypeOK
  BY DEF CurrentInv, ProfileInv, IInv
<1> PICK d \in Device : d = HostOf[s]
  BY MeIsUser
<1> PICK l \in Link : l = FollowLink(s, screen[s].loaded)
  BY <1>1, TapCases
<1>2. PICK act \in {"attach", "detach"} :
         Tap(d, l, act) /\ screen' = [screen EXCEPT ![s] = Turned(screen[s], act)]
  BY <1>1, TapCases
<1>3. l.user = AccountOf[d] /\ Shown(s)
  BY <1>1, TapCases DEF FollowLink, Me
<1>4. /\ screen'[s] = Turned(screen[s], act)
      /\ \A t \in Screen \ {s} : screen'[t] = screen[t]
      /\ screen[s] \in ScreenState
  BY <1>1, <1>2 DEF AllSound
<1>5. screen'[s].title = (IF act = "attach" THEN "Unfollow" ELSE "Follow")
      /\ screen'[s].loaded = screen[s].loaded
      /\ screen'[s].phase = screen[s].phase
  BY <1>4 DEF Turned, ScreenState
<1>6. Current(s)'
  <2>1. Sees(d, Far(l))' <=> act = "attach"
    <3>1. Far(l) \in Halves(l)
      BY DEF Halves
    <3> QED BY <1>1, <1>2, <3>1, TapSeen
  <2>2. Sees(HostOf[s], Far(FollowLink(s, screen[s].loaded)))' <=> act = "attach"
    <3>1. FollowLink(s, screen[s].loaded)' = l
      BY <1>5 DEF FollowLink, Me
    <3> QED BY <2>1, <3>1
  <2> QED BY <1>5, <2>2 DEF Current
<1>7. ASSUME NEW e \in Device, NEW m \in Link, m # l
      PROVE  Spares(e, m)
  BY <1>2, <1>3, <1>7 DEF Spares, Passes
<1>8. ASSUME NEW t \in Screen \ {s} PROVE Current(t)'
  <2>1. ASSUME Shown(t), screen[t].title \in {"Follow", "Unfollow"}
        PROVE  Spares(HostOf[t], FollowLink(t, screen[t].loaded))
    <3>1. HostOf[t] # d /\ HostOf[t] \in Device
      BY <1>3, <2>1, MeIsUser DEF CurrentInv, OneShown
    <3>2. /\ FollowLink(t, screen[t].loaded) \in Link
          /\ FollowLink(t, screen[t].loaded).user = AccountOf[HostOf[t]]
      BY <1>1, <2>1, OfferedLink
    <3>3. AccountOf[HostOf[t]] # AccountOf[d]
      BY <1>3, <3>1 DEF OwnPhones
    <3>4. FollowLink(t, screen[t].loaded) # l
      BY <1>3, <3>2, <3>3
    <3> QED BY <1>7, <3>1, <3>2, <3>4
  <2> QED BY <1>1, <1>4, <2>1, StaysCurrent
<1>9. AllAlone'
  <2>1. ASSUME NEW e \in Device, NEW m \in Link, m.user = AccountOf[e]
        PROVE  Alone(e, m)'
    <3>1. Alone(e, m)
      BY <2>1 DEF CurrentInv, AllAlone
    <3>2. CASE m = l
      <4>1. e = d
        BY <1>3, <2>1, <3>2 DEF OwnPhones
      <4> QED BY <1>1, <1>2, <1>3, <3>1, <3>2, <4>1, AloneTap
    <3>3. CASE m # l
      <4>1. NoTapOn(m)
        BY <1>2, <1>3, <3>3 DEF NoTapOn, Passes
      <4> QED BY <1>1, <3>1, <4>1, AloneStep
    <3> QED BY <3>2, <3>3
  <2> QED BY <2>1 DEF AllAlone
<1>10. OneShown'
  <2>1. \A t \in Screen : Shown(t)' => Shown(t)
    BY <1>4, <1>5 DEF Shown
  <2> QED BY <2>1 DEF CurrentInv, OneShown
<1> QED BY <1>6, <1>8, <1>9, <1>10 DEF CurrentInv

(* The network, and the death of one phone.                                *)
LEMMA PassingCurrent ==
    ASSUME CurrentInv, ProfileInv', NEW d \in Device, ProfileDeliver(d) \/ Dies(d)
    PROVE  CurrentInv'
<1>1. IInv' /\ TypeOK
  BY DEF CurrentInv, ProfileInv, IInv
<1>2. \A l \in Link : NoTapOn(l)
  BY DEF ProfileDeliver, Dies, NoTapOn, Passes
<1>3. AllAlone'
  BY <1>1, <1>2, AloneStep DEF CurrentInv, AllAlone
<1>4. ASSUME NEW s \in Screen PROVE Current(s)' /\ (Shown(s)' => Shown(s))
  <2>1. CASE ProfileDeliver(d)
    <3>1. Spares(HostOf[s], FollowLink(s, screen[s].loaded)) /\ screen' = screen
      BY <2>1 DEF ProfileDeliver, Spares, Passes
    <3> QED BY <1>1, <3>1, StaysCurrent DEF Shown
  <2>2. CASE Dies(d) /\ HostOf[s] = d
    <3>1. screen'[s].phase = "closed"
      BY <2>2 DEF Dies, Closed
    <3> QED BY <3>1, HiddenIsCurrent DEF Shown
  <2>3. CASE Dies(d) /\ HostOf[s] # d
    <3>1. screen'[s] = screen[s] /\ Spares(HostOf[s], FollowLink(s, screen[s].loaded))
      BY <2>3 DEF Dies, Spares, Passes
    <3> QED BY <1>1, <3>1, StaysCurrent DEF Shown
  <2> QED BY <2>1, <2>2, <2>3
<1> QED BY <1>3, <1>4 DEF CurrentInv, OneShown

LEMMA SameScreensCurrent ==
    ASSUME CurrentInv, ProfileInv', UNCHANGED vars, UNCHANGED screen
    PROVE  CurrentInv'
<1>1. AllAlone'
  BY DEF CurrentInv, AllAlone, Alone, Busy, vars
<1>2. \A s \in Screen : Spares(HostOf[s], FollowLink(s, screen[s].loaded)) /\ screen'[s] = screen[s]
  BY DEF Spares, Passes
<1>3. \A s \in Screen : Current(s)'
  BY <1>2, StaysCurrent DEF ProfileInv
<1>4. OneShown'
  BY DEF CurrentInv, OneShown, Shown
<1> QED BY <1>1, <1>3, <1>4 DEF CurrentInv

LEMMA CurrentStep ==
    ASSUME OwnPhones, CurrentInv, [ProfileNext]_profileVars
    PROVE  CurrentInv'
<1>1. ProfileInv'
  BY ProfileInvStep DEF CurrentInv
<1>2. CASE UNCHANGED profileVars
  BY <1>1, <1>2, SameScreensCurrent DEF profileVars, vars
<1>3. ASSUME NEW u \in User, Completes(u) PROVE CurrentInv'
  BY <1>1, <1>3, SameScreensCurrent DEF Completes
<1>4. CASE ProfileNext
  BY <1>1, <1>3, <1>4, ProfileCases, LookCurrent, TapCurrent, PassingCurrent
<1> QED BY <1>2, <1>4

LEMMA CurrentInit == ProfileInit => CurrentInv
<1> SUFFICES ASSUME ProfileInit PROVE CurrentInv
  OBVIOUS
<1>1. ProfileInv
  BY ProfileInvInit
<1>2. AllAlone
  BY AloneInit DEF ProfileInit, AllAlone
<1>3. \A s \in Screen : ~Shown(s)
  BY DEF ProfileInit, Shown, Closed
<1> QED BY <1>1, <1>2, <1>3 DEF CurrentInv, OneShown, Current, Tappable

(* Where every phone has an account of its own, a button that can be       *)
(* tapped tells the relation as its phone sees it, over any number of      *)
(* screens, drops, resends and late answers, and after a kill too.         *)
THEOREM TitlesAreCurrent == OwnPhones => (ProfileSpec => []TitleIsCurrent)
<1> SUFFICES ASSUME OwnPhones PROVE ProfileSpec => []TitleIsCurrent
  OBVIOUS
<1>1. CurrentInv /\ [ProfileNext]_profileVars => CurrentInv'
  BY CurrentStep
<1>2. CurrentInv => TitleIsCurrent
  BY DEF CurrentInv, Current, TitleIsCurrent
<1> QED BY <1>1, <1>2, CurrentInit, PTL DEF ProfileSpec

-----------------------------------------------------------------------------
(* Flags of a phone that shares its account with no other: a screen that   *)
(* keeps isFollowing is right, or the user was unfollowed elsewhere.       *)

Kept(s) == s \notin outdated /\ screen[s].isFollowing => Found(s)

MeantInv == CurrentInv /\ \A s \in Screen : Kept(s)

(* A screen with the same flag for the same user, if it is spared.         *)
LEMMA StaysKept ==
    ASSUME CurrentInv, CurrentInv', NEW s \in Screen, Kept(s),
           screen'[s].isFollowing => screen[s].isFollowing /\ screen'[s].loaded = screen[s].loaded,
           s \in outdated => s \in outdated',
           screen[s].isFollowing => Spares(HostOf[s], FollowLink(s, screen[s].loaded))
    PROVE  Kept(s)'
<1>1. SUFFICES ASSUME s \notin outdated, screen'[s].isFollowing
               PROVE  Found(s)'
  BY DEF Kept
<1>2. /\ screen[s].isFollowing /\ screen'[s].loaded = screen[s].loaded
      /\ IInv /\ IInv' /\ Sound(s, screen[s])
  BY <1>1 DEF CurrentInv, ProfileInv, AllSound
<1>3. PICK l \in Link : l = FollowLink(s, screen[s].loaded) /\ l.user = AccountOf[HostOf[s]]
  BY <1>2, MeIsUser DEF Sound, FollowLink, Link, Me
<1>4. PICK d \in Device : d = HostOf[s]
  BY MeIsUser
<1>5. Alone(d, l) /\ Spares(d, l) /\ Far(l) \in Halves(l)
  BY <1>2, <1>3, <1>4 DEF CurrentInv, AllAlone, Halves
<1>6. Sees(d, Far(l))' <=> Sees(d, Far(l))
  BY <1>2, <1>5, SeenStays
<1>7. FollowLink(s, screen[s].loaded)' = l
  BY <1>2, <1>3 DEF FollowLink, Me
<1>8. Found(s)' <=> Sees(d, Far(l))'
  BY <1>4, <1>7 DEF Found
<1>9. Found(s)
  BY <1>1, <1>2 DEF Kept
<1> QED BY <1>3, <1>4, <1>6, <1>8, <1>9 DEF Found

(* A look sets the flag from the answer, clears it or leaves it alone.     *)
LEMMA LookFlag ==
    ASSUME screen \in [Screen -> ScreenState], NEW s \in Screen, LookSteps(s),
           NEW t \in Screen, screen'[t].isFollowing
    PROVE  /\ screen'[t].loaded = screen[t].loaded
           /\ \/ screen[t].isFollowing /\ (t \in outdated => t \in outdated')
              \/ t = s /\ Found(s)
<1>1. screen[s] \in ScreenState /\ screen[t] \in ScreenState
  OBVIOUS
<1>2. ASSUME NEW r, screen' = Front(s, r), UNCHANGED outdated,
             r.isFollowing => screen[s].isFollowing /\ r.loaded = screen[s].loaded
      PROVE  /\ screen'[t].loaded = screen[t].loaded /\ screen[t].isFollowing
             /\ t \in outdated => t \in outdated'
  <2>1. CASE t = s
    BY <1>2, <2>1 DEF Front
  <2>2. CASE t # s /\ HostOf[t] = HostOf[s] /\ Shown(t)
    <3>1. screen'[t] = [screen[t] EXCEPT !.phase = "covered"]
      BY <1>2, <2>2 DEF Front
    <3> QED BY <1>1, <1>2, <3>1 DEF ScreenState
  <2>3. CASE t # s /\ ~(HostOf[t] = HostOf[s] /\ Shown(t))
    <3>1. screen'[t] = screen[t]
      BY <1>2, <2>3 DEF Front
    <3> QED BY <1>2, <3>1
  <2> QED BY <2>1, <2>2, <2>3
<1>3. ASSUME NEW r \in ScreenState
      PROVE  Appearing(Me(s), r).isFollowing = r.isFollowing
             /\ Appearing(Me(s), r).loaded = r.loaded
  <2> DEFINE N == r.nameReads \cup {r.UserID}
             n == r.followReads + 1
             own == [r EXCEPT !.phase = "shown", !.nameReads = N, !.title = "Edit Profile",
                              !.hidden = FALSE]
             other == [r EXCEPT !.phase = "shown", !.nameReads = N, !.hidden = TRUE,
                                !.followReads = n]
  <2>1. Appearing(Me(s), r) = IF r.UserID = Me(s) THEN own ELSE other
    BY DEF Appearing, ScreenState
  <2> HIDE DEF N, n
  <2>2. /\ own.isFollowing = r.isFollowing /\ own.loaded = r.loaded
        /\ other.isFollowing = r.isFollowing /\ other.loaded = r.loaded
    BY DEF ScreenState
  <2> HIDE DEF own, other
  <2> QED BY <2>1, <2>2
<1>4. ASSUME NEW u \in User, Open(s, u)
      PROVE  /\ screen'[t].loaded = screen[t].loaded /\ screen[t].isFollowing
             /\ t \in outdated => t \in outdated'
  <2> DEFINE x == [Closed EXCEPT !.loaded = u, !.UserID = u]
  <2>1. x \in ScreenState /\ ~x.isFollowing
    BY DEF Closed, ScreenState, Title
  <2>2. screen' = Front(s, Appearing(Me(s), x)) /\ UNCHANGED outdated
    BY <1>4 DEF Open
  <2> HIDE DEF x
  <2>3. ~Appearing(Me(s), x).isFollowing
    BY <1>3, <2>1
  <2> QED BY <1>2, <2>2, <2>3
<1>5. CASE Reappear(s)
  <2>1. screen' = Front(s, Appearing(Me(s), screen[s])) /\ UNCHANGED outdated
    BY <1>5 DEF Reappear
  <2>2. /\ Appearing(Me(s), screen[s]).isFollowing = screen[s].isFollowing
        /\ Appearing(Me(s), screen[s]).loaded = screen[s].loaded
    BY <1>1, <1>3
  <2> QED BY <1>2, <2>1, <2>2
<1>6. ASSUME NEW q, screen' = [screen EXCEPT ![s] = q], UNCHANGED outdated,
             q.isFollowing = screen[s].isFollowing, q.loaded = screen[s].loaded
      PROVE  /\ screen'[t].loaded = screen[t].loaded /\ screen[t].isFollowing
             /\ t \in outdated => t \in outdated'
  <2>1. CASE t = s
    BY <1>6, <2>1
  <2>2. CASE t # s
    BY <1>6, <2>2
  <2> QED BY <2>1, <2>2
<1>7. ASSUME NEW u \in User, u \in profiled, NameReply(s, u)
      PROVE  /\ screen'[t].loaded = screen[t].loaded /\ screen[t].isFollowing
             /\ t \in outdated => t \in outdated'
  <2> DEFINE N == screen[s].nameReads \ {u}
             q == [screen[s] EXCEPT !.nameReads = N, !.name = u]
  <2>1. screen' = [screen EXCEPT ![s] = q] /\ UNCHANGED outdated
    BY <1>7 DEF NameReply
  <2> HIDE DEF N
  <2>2. q.isFollowing = screen[s].isFollowing /\ q.loaded = screen[s].loaded
    BY <1>1 DEF ScreenState
  <2> HIDE DEF q
  <2> QED BY <1>6, <2>1, <2>2
<1>8. CASE AuthCallback(s)
  <2> DEFINE q == [screen[s] EXCEPT !.told = TRUE, !.UserID = Me(s)]
  <2>1. screen' = [screen EXCEPT ![s] = q] /\ UNCHANGED outdated
    BY <1>8 DEF AuthCallback
  <2>2. q.isFollowing = screen[s].isFollowing /\ q.loaded = screen[s].loaded
    BY <1>1 DEF ScreenState
  <2> HIDE DEF q
  <2> QED BY <1>6, <2>1, <2>2
<1>9. CASE Cover(s) \/ TapEdit(s)
  <2> DEFINE q == [screen[s] EXCEPT !.phase = "covered"]
  <2>1. screen' = [screen EXCEPT ![s] = q] /\ UNCHANGED outdated
    BY <1>9 DEF Cover, TapEdit
  <2>2. q.isFollowing = screen[s].isFollowing /\ q.loaded = screen[s].loaded
    BY <1>1 DEF ScreenState
  <2> HIDE DEF q
  <2> QED BY <1>6, <2>1, <2>2
<1>10. CASE Close(s)
  <2>1. t # s
    BY <1>10 DEF Close, Closed
  <2> QED BY <1>10, <2>1 DEF Close
<1>11. CASE FollowReply(s)
  <2> DEFINE n == screen[s].followReads - 1
             yes == [screen[s] EXCEPT !.followReads = n, !.hidden = FALSE,
                                      !.title = "Unfollow", !.isFollowing = TRUE]
             no == [screen[s] EXCEPT !.followReads = n, !.hidden = FALSE, !.title = "Follow"]
  <2>1. /\ screen' = [screen EXCEPT ![s] = IF Found(s) THEN yes ELSE no]
        /\ outdated' = IF Found(s) THEN outdated \ {s} ELSE outdated
    BY <1>11 DEF FollowReply, Found
  <2> HIDE DEF n
  <2>2. /\ yes.loaded = screen[s].loaded
        /\ no.loaded = screen[s].loaded /\ no.isFollowing = screen[s].isFollowing
    BY <1>1 DEF ScreenState
  <2> HIDE DEF yes, no
  <2>3. CASE t = s
    <3>1. CASE Found(s)
      BY <2>1, <2>2, <2>3, <3>1
    <3>2. CASE ~Found(s)
      BY <2>1, <2>2, <2>3, <3>2
    <3> QED BY <3>1, <3>2
  <2>4. CASE t # s
    BY <2>1, <2>4
  <2> QED BY <2>3, <2>4
<1> QED BY <1>4, <1>5, <1>7, <1>8, <1>9, <1>10, <1>11 DEF LookSteps

LEMMA LookMeant ==
    ASSUME MeantInv, CurrentInv', NEW s \in Screen, LookSteps(s)
    PROVE  MeantInv'
<1>1. CurrentInv /\ screen \in [Screen -> ScreenState]
  BY DEF MeantInv, CurrentInv, ProfileInv, AllSound
<1>2. UNCHANGED vars
  BY LookSound DEF MeantInv, CurrentInv, ProfileInv
<1>3. ASSUME NEW t \in Screen PROVE Kept(t)'
  <2>1. SUFFICES ASSUME screen'[t].isFollowing PROVE Kept(t)'
    BY DEF Kept
  <2>2. screen'[t].loaded = screen[t].loaded
    BY <1>1, <2>1, LookFlag
  <2>3. CASE screen[t].isFollowing /\ (t \in outdated => t \in outdated')
    <3>1. Spares(HostOf[t], FollowLink(t, screen[t].loaded)) /\ Kept(t)
      BY <1>2 DEF Spares, Passes, MeantInv
    <3> QED BY <1>1, <2>2, <2>3, <3>1, StaysKept
  <2>4. CASE t = s /\ Found(s)
    <3>1. FollowLink(s, screen[s].loaded)' = FollowLink(s, screen[s].loaded)
      BY <2>2, <2>4 DEF FollowLink, Me
    <3>2. Found(s)'
      BY <1>2, <2>4, <3>1 DEF vars, Sees, Found, Far
    <3> QED BY <2>4, <3>2 DEF Kept
  <2> QED BY <1>1, <2>1, <2>3, <2>4, LookFlag
<1> QED BY <1>3 DEF MeantInv

(* A tap tells its own screen; an unfollow outdates the others that keep   *)
(* the flag, a follow finds them right.                                    *)
LEMMA TapMeant ==
    ASSUME OwnPhones, MeantInv, CurrentInv', NEW s \in Screen, TapFollow(s) \/ TapUnfollow(s)
    PROVE  MeantInv'
<1>1. /\ CurrentInv /\ AllSound /\ TypeOK /\ screen \in [Screen -> ScreenState]
      /\ \A t \in Screen : Kept(t) /\ Sound(t, screen[t])
  BY DEF MeantInv, CurrentInv, ProfileInv, IInv, AllSound
<1> PICK d \in Device : d = HostOf[s]
  BY MeIsUser
<1> PICK l \in Link : l = FollowLink(s, screen[s].loaded)
  BY <1>1, TapCases
<1>2. /\ Shown(s) /\ screen[s].UserID # Me(s)
      /\ screen[s].UserID = screen[s].loaded /\ screen[s].loaded \in User
      /\ l.user = AccountOf[d]
  BY <1>1 DEF TapFollow, TapUnfollow, Tappable, Sound, Shown, FollowLink, Me
<1>3. /\ \A t \in Screen \ {s} : screen'[t] = screen[t] /\ (t \in outdated => t \in outdated')
      /\ screen'[s].loaded = screen[s].loaded
  <2>1. PICK act \in {"attach", "detach"} :
           screen' = [screen EXCEPT ![s] = Turned(screen[s], act)]
    BY <1>1, TapCases
  <2>2. Turned(screen[s], act).loaded = screen[s].loaded
    BY <1>1 DEF Turned, ScreenState
  <2>3. \A t \in Screen \ {s} : t \in outdated => t \in outdated'
    BY DEF TapFollow, TapUnfollow
  <2> QED BY <1>1, <2>1, <2>2, <2>3
<1>4. Far(l) \in Halves(l)
  BY DEF Halves
<1>5. ASSUME TapFollow(s) PROVE Tap(d, l, "attach") /\ Sees(d, Far(l))'
  <2>1. Tap(d, l, "attach")
    BY <1>2, <1>5 DEF TapFollow, Attach, Tap, TapWrites
  <2> QED BY <1>1, <1>4, <2>1, TapSeen
<1>6. ASSUME TapUnfollow(s) PROVE Tap(d, l, "detach")
  BY <1>2, <1>6 DEF TapUnfollow, Detach, Tap, TapWrites
<1>7. ASSUME NEW t \in Screen, HostOf[t] = d, screen[t].loaded = screen[s].loaded, TapFollow(s)
      PROVE  Found(t)'
  <2>1. FollowLink(t, screen[t].loaded)' = l
    BY <1>3, <1>7 DEF FollowLink, Me
  <2> QED BY <1>5, <1>7, <2>1 DEF Found
<1>8. Kept(s)'
  <2>1. CASE TapFollow(s)
    BY <1>7, <2>1 DEF Kept
  <2>2. CASE TapUnfollow(s)
    <3>1. ~screen'[s].isFollowing
      <4>1. screen' = [screen EXCEPT ![s] = Turned(screen[s], "detach")]
        BY <2>2 DEF TapUnfollow, Turned
      <4>2. ~Turned(screen[s], "detach").isFollowing
        BY <1>1 DEF Turned, ScreenState
      <4> QED BY <1>1, <4>1, <4>2
    <3> QED BY <3>1 DEF Kept
  <2> QED BY <2>1, <2>2
<1>9. ASSUME NEW t \in Screen \ {s} PROVE Kept(t)'
  <2>1. SUFFICES ASSUME screen[t].isFollowing PROVE Kept(t)'
    BY <1>3 DEF Kept
  <2>2. CASE FollowLink(t, screen[t].loaded) = l
    <3>1. HostOf[t] = d /\ screen[t].loaded = screen[s].loaded /\ Me(t) = Me(s)
      <4>1. AccountOf[HostOf[t]] = AccountOf[d] /\ screen[t].loaded = screen[s].loaded
        BY <2>2 DEF FollowLink, Me
      <4> QED BY <4>1, MeIsUser DEF OwnPhones, Me
    <3>2. CASE TapFollow(s)
      BY <1>7, <3>1, <3>2 DEF Kept
    <3>3. CASE TapUnfollow(s)
      <4>1. t \in outdated'
        BY <1>2, <2>1, <3>1, <3>3 DEF TapUnfollow, Keeping
      <4> QED BY <4>1 DEF Kept
    <3> QED BY <3>2, <3>3
  <2>3. CASE FollowLink(t, screen[t].loaded) # l
    <3>1. Spares(HostOf[t], FollowLink(t, screen[t].loaded))
      BY <1>5, <1>6, <2>3 DEF Spares, Passes
    <3> QED BY <1>1, <1>3, <3>1, StaysKept
  <2> QED BY <2>2, <2>3
<1> QED BY <1>8, <1>9 DEF MeantInv

LEMMA PassingMeant ==
    ASSUME MeantInv, CurrentInv', NEW d \in Device, ProfileDeliver(d) \/ Dies(d)
    PROVE  MeantInv'
<1>1. ASSUME NEW s \in Screen PROVE Kept(s)'
  <2>1. CurrentInv /\ Kept(s)
    BY DEF MeantInv
  <2>2. CASE ProfileDeliver(d)
    <3>1. /\ Spares(HostOf[s], FollowLink(s, screen[s].loaded))
          /\ screen' = screen /\ outdated' = outdated
      BY <2>2 DEF ProfileDeliver, Spares, Passes
    <3> QED BY <2>1, <3>1, StaysKept
  <2>3. CASE Dies(d) /\ HostOf[s] = d
    <3>1. ~screen'[s].isFollowing
      BY <2>3 DEF Dies, Closed
    <3> QED BY <3>1 DEF Kept
  <2>4. CASE Dies(d) /\ HostOf[s] # d
    <3>1. /\ screen'[s] = screen[s] /\ (s \in outdated => s \in outdated')
          /\ Spares(HostOf[s], FollowLink(s, screen[s].loaded))
      BY <2>4 DEF Dies, Spares, Passes
    <3> QED BY <2>1, <3>1, StaysKept
  <2> QED BY <2>2, <2>3, <2>4
<1> QED BY <1>1 DEF MeantInv

LEMMA MeantStep ==
    ASSUME OwnPhones, MeantInv, [ProfileNext]_profileVars
    PROVE  MeantInv'
<1>1. CurrentInv'
  BY CurrentStep DEF MeantInv
<1>2. ASSUME UNCHANGED vars, UNCHANGED <<screen, outdated>> PROVE MeantInv'
  <2>1. \A s \in Screen : Found(s)' <=> Found(s)
    BY <1>2 DEF vars, Found, Sees, Far, FollowLink, Me
  <2> QED BY <1>1, <1>2, <2>1 DEF MeantInv, Kept
<1>3. CASE UNCHANGED profileVars
  BY <1>2, <1>3 DEF profileVars, vars
<1>4. ASSUME NEW u \in User, Completes(u) PROVE MeantInv'
  BY <1>2, <1>4 DEF Completes
<1>5. CASE ProfileNext
  BY <1>1, <1>4, <1>5, ProfileCases, LookMeant, TapMeant, PassingMeant
<1> QED BY <1>3, <1>5

LEMMA MeantImplies == MeantInv => FollowIsMeant
<1> SUFFICES ASSUME MeantInv,
                    NEW s \in Screen \ outdated, Tappable(s), screen[s].UserID # Me(s)
             PROVE  screen[s].title = IF screen[s].isFollowing THEN "Unfollow" ELSE "Follow"
  BY DEF FollowIsMeant
<1>1. Sound(s, screen[s]) /\ Current(s) /\ Kept(s)
  BY DEF MeantInv, CurrentInv, ProfileInv, AllSound
<1>2. screen[s].title \in (IF screen[s].isFollowing THEN {"Follow", "Unfollow"} ELSE {"Follow"})
  BY <1>1 DEF Sound, Tappable, Shown
<1> QED BY <1>1, <1>2 DEF Current, Kept, Found

(* Where every phone has an account of its own, a tap follows under Follow *)
(* and unfollows under Unfollow, on every screen that still acts on        *)
(* another user and whose flag no unfollow on a second screen outdated.    *)
THEOREM FollowsAreMeant == OwnPhones => (ProfileSpec => []FollowIsMeant)
<1> SUFFICES ASSUME OwnPhones PROVE ProfileSpec => []FollowIsMeant
  OBVIOUS
<1>1. MeantInv /\ [ProfileNext]_profileVars => MeantInv'
  BY MeantStep
<1>2. ProfileInit => MeantInv
  BY CurrentInit DEF MeantInv, Kept, ProfileInit, Closed
<1> QED BY <1>1, <1>2, MeantImplies, PTL DEF ProfileSpec
=============================================================================
