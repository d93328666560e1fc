--------------------------- MODULE ClubViewProofs ---------------------------
(***************************************************************************)
(* The club screen: its button does what it says, only founders get the    *)
(* editor, and every step of a screen is a step of Links or leaves the     *)
(* lists alone, so what is proved of Links holds behind the screens too.   *)
(***************************************************************************)
EXTENDS ClubView, LinksProofs

-----------------------------------------------------------------------------
(* Founders.                                                               *)

LEMMA AdminNotHalf ==
    ASSUME NEW l \in Link, NEW u, NEW c
    PROVE  AdminEntry(u, c) \notin Halves(l)
BY LinkFields DEF AdminEntry, Halves, Near, Far, NearList, FarList

(* A read of admin_clubs finds a club exactly when the user founded it.    *)
LEMMA AdminSeen ==
    ASSUME TypeOK, AdminsKept, NEW d \in Device, NEW u \in User, NEW c \in Club
    PROVE  Sees(d, AdminEntry(u, c)) <=> <<u, c>> \in Founded
<1> DEFINE p == AdminEntry(u, c)
<1>1. ASSUME <<u, c>> \in Founded PROVE Sees(d, p)
  <2>1. p \in tree /\ ~Covered(pending[d], p)
    BY <1>1 DEF AdminsKept
  <2> QED BY <2>1, SeesServer
<1>2. ASSUME p \in Leaf PROVE <<u, c>> \in Founded
  <2>1. PICK f \in Founded : p \in FoundingLeaves(f[1], f[2])
    BY <1>2, AdminNotHalf DEF Leaf, FoundedLeaves
  <2>2. f = <<f[1], f[2]>>
    BY FoundedAssumption
  <2>3. u = f[1] /\ c = f[2]
    BY <2>1 DEF FoundingLeaves, AdminEntry
  <2> QED BY <2>2, <2>3
<1>3. ASSUME Sees(d, p) PROVE p \in Leaf
  <2>1. pending[d] \in Seq(WriteSet)
    BY DEF TypeOK
  <2>2. \A i \in 1..Len(pending[d]) : pending[d][i].put \subseteq Leaf
    BY <2>1 DEF WriteSet
  <2> QED BY <1>3, <2>2 DEF Sees, Latest, TypeOK
<1> QED BY <1>1, <1>2, <1>3

LEMMA AdminsInit == Init => AdminsKept
<1> SUFFICES ASSUME Init PROVE AdminsKept
  OBVIOUS
<1>1. ASSUME NEW f \in Founded PROVE AdminEntry(f[1], f[2]) \in tree
  BY DEF Init, FoundedLeaves, FoundingLeaves
<1>2. \A d \in Device : \A p : ~Covered(pending[d], p)
  BY DEF Init, Covered
<1> QED BY <1>1, <1>2 DEF AdminsKept

LEMMA AdminsStep == TypeOK /\ AdminsKept /\ [Next]_vars => AdminsKept'
<1> SUFFICES ASSUME TypeOK, AdminsKept, [Next]_vars, NEW f \in Founded
             PROVE  /\ AdminEntry(f[1], f[2]) \in tree'
                    /\ \A d \in Device : ~Covered(pending[d], AdminEntry(f[1], f[2]))'
  BY DEF AdminsKept
<1> DEFINE p == AdminEntry(f[1], f[2])
<1>1. p \in tree /\ \A d \in Device : ~Covered(pending[d], p)
  BY DEF AdminsKept
<1>2. \A m \in Link : p \notin Halves(m)
  BY AdminNotHalf
<1> HIDE DEF p
<1>3. CASE UNCHANGED vars
  BY <1>1, <1>3 DEF vars, p
<1>4. ASSUME NEW d \in Device, NEW m \in Link, NEW act \in {"attach", "detach"},
             Tap(d, m, act)
      PROVE  p \in tree' /\ \A e \in Device : ~Covered(pending[e], p)'
  <2>1. tree' = tree /\ \A e \in Device \ {d} : pending'[e] = pending[e]
    BY <1>4, TapQueue
  <2>2. Covered(pending'[d], p) <=> Covered(pending[d], p)
    BY <1>2, <1>4, TapQueue
  <2> QED BY <1>1, <2>1, <2>2
<1>5. ASSUME NEW d \in Device, Serve(d)
      PROVE  p \in tree' /\ \A e \in Device : ~Covered(pending[e], p)'
  <2>1. sent[d] + 1 \in 1..Len(pending[d])
    BY <1>5 DEF Serve, TypeOK
  <2>2. p \notin pending[d][sent[d] + 1].drop
    BY <1>1, <2>1 DEF Covered
  <2> QED BY <1>1, <1>5, <2>2 DEF Serve, Applied
<1>6. ASSUME NEW d \in Device, Ack(d)
      PROVE  p \in tree' /\ \A e \in Device : ~Covered(pending[e], p)'
  <2>1. /\ pending[d] \in Seq(WriteSet) /\ pending[d] # <<>>
        /\ pending'[d] = Tail(pending[d])
        /\ \A e \in Device \ {d} : pending'[e] = pending[e]
        /\ tree' = tree
    BY <1>6 DEF TypeOK, Ack
  <2>2. /\ Len(Tail(pending[d])) = Len(pending[d]) - 1
        /\ \A i \in 1..Len(Tail(pending[d])) :
              i + 1 \in 1..Len(pending[d]) /\ Tail(pending[d])[i] = pending[d][i + 1]
    BY <2>1
  <2>3. ~Covered(Tail(pending[d]), p)
    BY <1>1, <2>2 DEF Covered
  <2> QED BY <1>1, <2>1, <2>3
<1>7. ASSUME NEW d \in Device, Resend(d)
      PROVE  p \in tree' /\ \A e \in Device : ~Covered(pending[e], p)'
  BY <1>1, <1>7 DEF Resend
<1>8. ASSUME NEW d \in Device, Kill(d)
      PROVE  p \in tree' /\ \A e \in Device : ~Covered(pending[e], p)'
  <2>1. /\ tree' = tree
        /\ pending'[d] = <<>>
        /\ \A e \in Device \ {d} : pending'[e] = pending[e]
    BY <1>8 DEF TypeOK, Kill, Forget
  <2> QED BY <1>1, <2>1 DEF Covered
<1>9. CASE Next
  BY <1>4, <1>5, <1>6, <1>7, <1>8, <1>9, NextCases DEF p
<1> QED BY <1>3, <1>9 DEF p

-----------------------------------------------------------------------------
(* Screens.                                                                *)

LEMMA MeIsUser ==
    ASSUME NEW s \in Screen
    PROVE  HostOf[s] \in Device /\ Me(s) \in User
BY HostAssumption, AccountAssumption DEF Me

LEMMA ClosedSound ==
    ASSUME NEW s \in Screen
    PROVE  Sound(s, Closed)
<1>1. Closed \in ScreenState
  BY DEF Closed, ScreenState, Title
<1>2. <<Me(s), NoClub>> \notin Founded
  BY FoundedAssumption, NoneAssumption
<1> QED BY <1>1, <1>2 DEF Sound, Closed

(* An appearance keeps a screen sound: its button is hidden.               *)
LEMMA AppearingSound ==
    ASSUME NEW s \in Screen, NEW r \in ScreenState, r.ClubKey \in Club,
           r.isAdmin => <<Me(s), r.ClubKey>> \in Founded,
           <<Me(s), r.ClubKey>> \in Founded => r.memberReads = 0
    PROVE  Sound(s, Appearing(r))
<1>1. ASSUME NEW up \in BOOLEAN, NEW n \in Nat
      PROVE  [r EXCEPT !.phase = "shown", !.hidden = TRUE, !.analytics = FALSE,
                       !.adminReads = n, !.alert = up] \in ScreenState
  BY DEF ScreenState
<1>2. Appearing(r) \in ScreenState
  <2>1. r.adminReads + 1 \in Nat
    BY DEF ScreenState
  <2>2. (r.ClubEventKey # NoEvent) \in BOOLEAN
    OBVIOUS
  <2> QED BY <1>1, <2>1, <2>2, Zenon DEF Appearing
<1> QED BY <1>2 DEF Sound, Appearing, ScreenState

LEMMA CoveredSound ==
    ASSUME NEW s \in Screen, NEW r, Sound(s, r), r.phase # "closed"
    PROVE  Sound(s, [r EXCEPT !.phase = "covered", !.alert = FALSE])
BY DEF Sound, ScreenState

(* Bringing one sound screen to the front leaves all screens sound.        *)
LEMMA FrontSound ==
    ASSUME NEW s \in Screen, NEW r, Sound(s, r), \A t \in Screen : Sound(t, screen[t])
    PROVE  /\ Front(s, r) \in [Screen -> ScreenState]
           /\ \A t \in Screen : Sound(t, Front(s, r)[t])
<1>1. ASSUME NEW t \in Screen PROVE Sound(t, Front(s, r)[t])
  <2>1. CASE t = s
    BY <2>1 DEF Front
  <2>2. CASE t # s /\ HostOf[t] = HostOf[s] /\ Shown(t)
    BY <2>2, CoveredSound DEF Front, Shown
  <2>3. CASE t # s /\ ~(HostOf[t] = HostOf[s] /\ Shown(t))
    BY <2>3 DEF Front
  <2> QED BY <2>1, <2>2, <2>3
<1>2. \A t \in Screen : Front(s, r)[t] \in ScreenState
  BY <1>1 DEF Sound
<1>3. Front(s, r) = [t \in Screen |-> Front(s, r)[t]]
  BY DEF Front
<1> QED BY <1>1, <1>2, <1>3

(* Changing one screen to a sound state leaves all screens sound.          *)
LEMMA OneSound ==
    ASSUME NEW s \in Screen, NEW r, Sound(s, r),
           screen \in [Screen -> ScreenState], \A t \in Screen : Sound(t, screen[t]),
           screen' = [screen EXCEPT ![s] = r]
    PROVE  /\ screen' \in [Screen -> ScreenState]
           /\ \A t \in Screen : Sound(t, screen'[t])
BY DEF Sound

-----------------------------------------------------------------------------
(* Answers.                                                                *)

(* What holds of all screens between two steps.                            *)
AllSound ==
    /\ screen \in [Screen -> ScreenState]
    /\ \A s \in Screen : Sound(s, screen[s])

LEMMA ReadsAreNat ==
    ASSUME AllSound, NEW s \in Screen
    PROVE  /\ Sound(s, screen[s])
           /\ screen[s] \in ScreenState
           /\ screen[s].adminReads \in Nat
           /\ screen[s].memberReads \in Nat
<1>1. Sound(s, screen[s]) /\ screen[s] \in ScreenState
  BY DEF AllSound
<1> QED BY <1>1 DEF ScreenState

(* A screen that waits for an answer is open.                              *)
LEMMA WaitingIsOpen ==
    ASSUME NEW s \in Screen, NEW r, Sound(s, r), r.adminReads # 0 \/ r.memberReads # 0
    PROVE  r.phase # "closed" /\ r.ClubKey \in Club
<1>1. r # Closed
  BY DEF Closed
<1> QED BY <1>1 DEF Sound

(* The answer about admin_clubs.                                           *)
LEMMA AdminReplySound ==
    ASSUME TypeOK, AdminsKept, AllSound, NEW s \in Screen, AdminReply(s)
    PROVE  AllSound'
<1> DEFINE r == screen[s]
           n == r.adminReads - 1
           founder == <<Me(s), r.ClubKey>> \in Founded
<1>1. /\ Sound(s, r)
      /\ r \in ScreenState
      /\ r.adminReads \in Nat \ {0}
      /\ r.memberReads \in Nat
  BY ReadsAreNat DEF AdminReply
<1>2. r.phase # "closed" /\ r.ClubKey \in Club
  BY <1>1, WaitingIsOpen
<1>3. Sees(HostOf[s], AdminEntry(Me(s), r.ClubKey)) <=> founder
  BY <1>2, MeIsUser, AdminSeen
<1>4. n \in Nat /\ r.memberReads + 1 \in Nat
  BY <1>1
<1> HIDE DEF n
<1>5. CASE founder
  <2> DEFINE q == [r EXCEPT !.adminReads = n, !.isAdmin = TRUE, !.memberReads = r.memberReads,
                            !.hidden = FALSE, !.title = "Edit Club", !.analytics = TRUE]
  <2>1. screen' = [screen EXCEPT ![s] = q]
    BY <1>3, <1>5 DEF AdminReply, n
  <2>2. q \in ScreenState
    BY <1>1, <1>4 DEF ScreenState, Title
  <2>3. Sound(s, q)
    BY <1>1, <1>2, <1>5, <2>2 DEF Sound, ScreenState
  <2> HIDE DEF q
  <2> QED BY <2>1, <2>3, OneSound DEF AllSound
<1>6. CASE ~founder
  <2> DEFINE m == r.memberReads + 1
             q == [r EXCEPT !.adminReads = n, !.isAdmin = FALSE, !.memberReads = m]
  <2>1. r.isAdmin = FALSE
    BY <1>1, <1>6 DEF Sound, ScreenState
  <2>2. screen' = [screen EXCEPT ![s] = q]
    BY <1>3, <1>6, <2>1 DEF AdminReply, n
  <2>3. m \in Nat
    BY <1>4
  <2> HIDE DEF m
  <2>4. q \in ScreenState
    BY <1>1, <1>4, <2>3 DEF ScreenState
  <2>5. Sound(s, q)
    BY <1>1, <1>2, <1>6, <2>1, <2>4 DEF Sound, ScreenState
  <2> HIDE DEF q
  <2> QED BY <2>2, <2>5, OneSound DEF AllSound
<1> QED BY <1>5, <1>6

(* The answer about clubs.                                                 *)
LEMMA MemberReplySound ==
    ASSUME AllSound, NEW s \in Screen, MemberReply(s)
    PROVE  AllSound'
<1> DEFINE r == screen[s]
           n == r.memberReads - 1
           found == Sees(HostOf[s], Near(ClubLink(s)))
<1>1. /\ Sound(s, r)
      /\ r \in ScreenState
      /\ r.memberReads \in Nat \ {0}
  BY ReadsAreNat DEF MemberReply
<1>2. /\ r.phase # "closed" /\ r.ClubKey \in Club
      /\ <<Me(s), r.ClubKey>> \notin Founded
      /\ ~r.isAdmin
  <2>1. r.phase # "closed" /\ r.ClubKey \in Club
    BY <1>1, WaitingIsOpen
  <2> QED BY <1>1, <2>1 DEF Sound
<1>3. n \in Nat
  BY <1>1
<1> HIDE DEF n
<1>4. CASE found
  <2> DEFINE q == [r EXCEPT !.memberReads = n, !.hidden = FALSE, !.title = "Leave Club",
                            !.isMember = TRUE]
  <2>1. screen' = [screen EXCEPT ![s] = q]
    BY <1>4 DEF MemberReply, n
  <2>2. q \in ScreenState
    BY <1>1, <1>3 DEF ScreenState, Title
  <2>3. Sound(s, q)
    BY <1>1, <1>2, <2>2 DEF Sound, ScreenState
  <2> HIDE DEF q
  <2> QED BY <2>1, <2>3, OneSound DEF AllSound
<1>5. CASE ~found /\ ~r.isMember
  <2> DEFINE q == [r EXCEPT !.memberReads = n, !.hidden = FALSE, !.title = "Join Club"]
  <2>1. screen' = [screen EXCEPT ![s] = q]
    BY <1>5 DEF MemberReply, n
  <2>2. q \in ScreenState
    BY <1>1, <1>3 DEF ScreenState, Title
  <2>3. Sound(s, q)
    BY <1>1, <1>2, <1>5, <2>2 DEF Sound, ScreenState
  <2> HIDE DEF q
  <2> QED BY <2>1, <2>3, OneSound DEF AllSound
<1>6. CASE ~found /\ r.isMember
  <2> DEFINE q == [r EXCEPT !.memberReads = n]
  <2>1. screen' = [screen EXCEPT ![s] = q]
    BY <1>6 DEF MemberReply, n
  <2>2. q \in ScreenState
    BY <1>1, <1>3 DEF ScreenState
  <2>3. Sound(s, q)
    BY <1>1, <1>2, <2>2 DEF Sound, ScreenState
  <2> HIDE DEF q
  <2> QED BY <2>1, <2>3, OneSound DEF AllSound
<1> QED BY <1>4, <1>5, <1>6

-----------------------------------------------------------------------------
(* Appearances and taps.                                                   *)

LEMMA OpenSound ==
    ASSUME AllSound, NEW s \in Screen, NEW c \in Club, NEW e \in Event \cup {NoEvent},
           Open(s, c, e)
    PROVE  AllSound'
<1> DEFINE r == [Closed EXCEPT !.ClubKey = c, !.ClubEventKey = e]
<1>1. /\ r \in ScreenState
      /\ r.ClubKey \in Club
      /\ ~r.isAdmin
      /\ r.memberReads = 0
  BY DEF Closed, ScreenState, Title
<1>2. screen' = Front(s, Appearing(r))
  BY DEF Open
<1> HIDE DEF r
<1>3. Sound(s, Appearing(r))
  BY <1>1, AppearingSound
<1> QED BY <1>2, <1>3, FrontSound DEF AllSound

LEMMA ReappearSound ==
    ASSUME AllSound, NEW s \in Screen, Reappear(s)
    PROVE  AllSound'
<1>1. /\ Sound(s, screen[s]) /\ screen[s] \in ScreenState
      /\ screen[s].phase = "covered"
  BY ReadsAreNat DEF Reappear
<1>2. Sound(s, Appearing(screen[s]))
  BY <1>1, AppearingSound DEF Sound
<1> QED BY <1>2, FrontSound DEF AllSound, Reappear

LEMMA LeaveSound ==
    ASSUME AllSound, NEW s \in Screen, Cover(s) \/ Close(s)
    PROVE  AllSound'
<1>1. Sound(s, screen[s]) /\ screen[s].phase = "shown"
  BY ReadsAreNat DEF Cover, Close, Shown
<1>2. CASE Cover(s)
  <2> DEFINE r == [screen[s] EXCEPT !.phase = "covered", !.alert = FALSE]
  <2>1. Sound(s, r)
    BY <1>1, CoveredSound
  <2>2. screen' = [screen EXCEPT ![s] = r]
    BY <1>2 DEF Cover
  <2> HIDE DEF r
  <2> QED BY <2>1, <2>2, OneSound DEF AllSound
<1>3. CASE Close(s)
  BY <1>3, ClosedSound, OneSound DEF AllSound, Close
<1> QED BY <1>2, <1>3

(* A tap finds a button that is no founder's, and turns it round.          *)
LEMMA TapSound ==
    ASSUME AllSound, NEW s \in Screen, TapJoin(s) \/ TapLeave(s)
    PROVE  AllSound' /\ ClubLink(s) \in Link
<1> DEFINE r == screen[s]
<1>1. /\ Sound(s, r) /\ r \in ScreenState
      /\ r.phase = "shown" /\ ~r.hidden /\ ~r.isAdmin
  BY ReadsAreNat DEF TapJoin, TapLeave, Tappable, Shown
<1>2. <<Me(s), r.ClubKey>> \notin Founded /\ r.ClubKey \in Club
  BY <1>1 DEF Sound
<1>3. ClubLink(s) \in Link
  BY <1>2, MeIsUser DEF ClubLink, Link
<1>4. CASE TapJoin(s)
  <2> DEFINE q == [r EXCEPT !.title = "Leave Club", !.isMember = TRUE]
  <2>1. screen' = [screen EXCEPT ![s] = q]
    BY <1>4 DEF TapJoin
  <2>2. q \in ScreenState
    BY <1>1 DEF ScreenState, Title
  <2>3. Sound(s, q)
    BY <1>1, <1>2, <2>2 DEF Sound, ScreenState
  <2> HIDE DEF q
  <2> QED BY <1>3, <2>1, <2>3, OneSound DEF AllSound
<1>5. CASE TapLeave(s)
  <2> DEFINE q == [r EXCEPT !.title = "Join Club", !.isMember = FALSE]
  <2>1. screen' = [screen EXCEPT ![s] = q]
    BY <1>5 DEF TapLeave
  <2>2. q \in ScreenState
    BY <1>1 DEF ScreenState, Title
  <2>3. Sound(s, q)
    BY <1>1, <1>2, <2>2 DEF Sound, ScreenState
  <2> HIDE DEF q
  <2> QED BY <1>3, <2>1, <2>3, OneSound DEF AllSound
<1> QED BY <1>4, <1>5

(* Confirm checks in to the scanned event and drops the prompt.            *)
LEMMA ConfirmSound ==
    ASSUME AllSound, NEW s \in Screen, Confirm(s)
    PROVE  AllSound' /\ CheckIn(s) \in Link
<1> DEFINE r == screen[s]
           q == [r EXCEPT !.alert = FALSE]
<1>1. Sound(s, r) /\ r \in ScreenState /\ r.phase = "shown" /\ r.alert
  BY ReadsAreNat DEF Confirm, Shown
<1>2. r.ClubEventKey \in Event
  BY <1>1 DEF Sound, ScreenState
<1>3. CheckIn(s) \in Link
  BY <1>2, MeIsUser DEF CheckIn, Link
<1>4. screen' = [screen EXCEPT ![s] = q]
  BY DEF Confirm
<1>5. q \in ScreenState
  BY <1>1 DEF ScreenState
<1>6. Sound(s, q)
  BY <1>1, <1>5 DEF Sound, ScreenState
<1> HIDE DEF q
<1> QED BY <1>3, <1>4, <1>6, OneSound DEF AllSound

(* A club without a description kills the phone of the screen it is on.     *)
LEMMA InfoKills ==
    ASSUME NEW s \in Screen, InfoReply(s)
    PROVE  \E d \in Device : ClubKill(d)
<1>1. HostOf[s] \in Device
  BY HostAssumption
<1> QED BY <1>1 DEF InfoReply

LEMMA KillSound ==
    ASSUME AllSound, NEW d \in Device, ClubKill(d)
    PROVE  AllSound'
<1>1. \A s \in Screen : screen'[s] = Closed \/ screen'[s] = screen[s]
  BY DEF ClubKill
<1>2. \A s \in Screen : Sound(s, screen'[s])
  BY <1>1, ClosedSound DEF AllSound
<1>3. screen' = [s \in Screen |-> screen'[s]]
  BY DEF ClubKill
<1> QED BY <1>2, <1>3 DEF AllSound, Sound

-----------------------------------------------------------------------------
(* Every step of a screen is a step of Links, or none.                     *)
LEMMA ScreenStepIsLinkStep ==
    ASSUME ClubInv, [ClubNext]_clubVars
    PROVE  [Next]_vars /\ AllSound'
<1>1. AllSound /\ TypeOK /\ AdminsKept
  BY DEF ClubInv, AllSound
<1>2. CASE UNCHANGED clubVars
  BY <1>1, <1>2 DEF clubVars, vars, AllSound
<1>3. ASSUME NEW s \in Screen, NEW c \in Club, NEW e \in Event \cup {NoEvent}, Open(s, c, e)
      PROVE  [Next]_vars /\ AllSound'
  BY <1>1, <1>3, OpenSound DEF Open
<1>4. ASSUME NEW s \in Screen, Cover(s) \/ Reappear(s) \/ Close(s)
      PROVE  [Next]_vars /\ AllSound'
  <2>1. UNCHANGED vars
    BY <1>4 DEF Cover, Reappear, Close
  <2> QED BY <1>1, <1>4, <2>1, LeaveSound, ReappearSound
<1>5. ASSUME NEW s \in Screen, AdminReply(s) \/ MemberReply(s)
      PROVE  [Next]_vars /\ AllSound'
  <2>1. UNCHANGED vars
    BY <1>5 DEF AdminReply, MemberReply
  <2> QED BY <1>1, <1>5, <2>1, AdminReplySound, MemberReplySound
<1>6. ASSUME NEW s \in Screen, TapJoin(s) \/ TapLeave(s)
      PROVE  [Next]_vars /\ AllSound'
  <2>1. AllSound' /\ ClubLink(s) \in Link
    BY <1>1, <1>6, TapSound
  <2>2. Attach(HostOf[s], ClubLink(s)) \/ Detach(HostOf[s], ClubLink(s))
    BY <1>6 DEF TapJoin, TapLeave
  <2> QED BY <2>1, <2>2, MeIsUser DEF Next
<1>7. ASSUME NEW s \in Screen, Confirm(s)
      PROVE  [Next]_vars /\ AllSound'
  <2>1. AllSound' /\ CheckIn(s) \in Link
    BY <1>1, <1>7, ConfirmSound
  <2> QED BY <1>7, <2>1, MeIsUser DEF Next, Confirm
<1>8. ASSUME NEW d \in Device, ClubDeliver(d)
      PROVE  [Next]_vars /\ AllSound'
  BY <1>1, <1>8 DEF ClubDeliver, Next, AllSound
<1>9. ASSUME NEW d \in Device, ClubKill(d)
      PROVE  [Next]_vars /\ AllSound'
  BY <1>1, <1>9, KillSound DEF ClubKill, Next
<1>10. CASE ClubNext
  BY <1>3, <1>4, <1>5, <1>6, <1>7, <1>8, <1>9, <1>10, InfoKills DEF ClubNext
<1> QED BY <1>2, <1>10

LEMMA ClubInvInit == ClubInit => ClubInv
<1> SUFFICES ASSUME ClubInit PROVE ClubInv
  OBVIOUS
<1>1. TypeOK /\ AdminsKept
  BY TypeInit, AdminsInit DEF ClubInit
<1>2. \A s \in Screen : Sound(s, screen[s])
  BY ClosedSound DEF ClubInit
<1>3. screen \in [Screen -> ScreenState]
  BY <1>2 DEF ClubInit, Sound
<1> QED BY <1>1, <1>2, <1>3 DEF ClubInv

LEMMA ClubInvStep == ClubInv /\ [ClubNext]_clubVars => ClubInv'
<1> SUFFICES ASSUME ClubInv, [ClubNext]_clubVars PROVE ClubInv'
  OBVIOUS
<1>1. [Next]_vars /\ AllSound'
  BY ScreenStepIsLinkStep
<1>2. TypeOK' /\ AdminsKept'
  BY <1>1, TypeStep, AdminsStep DEF ClubInv
<1> QED BY <1>1, <1>2 DEF ClubInv, AllSound

(* The inductive invariant of the club screens.                            *)
THEOREM ClubInduction == ClubSpec => []ClubInv
  BY ClubInvInit, ClubInvStep, PTL DEF ClubSpec

(* Screens stay within their type.                                         *)
THEOREM ClubTypeCorrect == ClubSpec => []ClubTypeOK
<1>1. ClubInv => ClubTypeOK
  BY DEF ClubInv, ClubTypeOK
<1> QED BY <1>1, ClubInduction, PTL

(* A visible title names what a tap will do.                               *)
THEOREM TitleIsTruthful == ClubSpec => []TitleMatchesAction
<1>1. ClubInv => TitleMatchesAction
  BY DEF ClubInv, Sound, TitleMatchesAction
<1> QED BY <1>1, ClubInduction, PTL

(* The editor is offered to founders and to nobody else.                   *)
THEOREM EditorsAreFounders == ClubSpec => []OnlyFoundersEdit
<1>1. ClubInv => OnlyFoundersEdit
  BY DEF ClubInv, Sound, OnlyFoundersEdit, Tappable, Shown
<1> QED BY <1>1, ClubInduction, PTL

(* The club screens implement Links.                                       *)
THEOREM ClubImplementsLinks == ClubSpec => Spec
<1>1. ClubInit => Init
  BY DEF ClubInit
<1>2. ClubInv /\ [ClubNext]_clubVars => [Next]_vars
  BY ScreenStepIsLinkStep
<1> QED BY <1>1, <1>2, ClubInduction, PTL DEF ClubSpec, Spec

(* Behind the club screens, too, the two-sided lists stay in step.         *)
THEOREM ClubIntegrity == ClubSpec => []LinkIntegrity
  BY ClubImplementsLinks, Integrity, PTL

-----------------------------------------------------------------------------
(* Offers on a phone that shares its account with no other.                *)

OwnPhones == \A d, e \in Device : AccountOf[d] = AccountOf[e] => d = e

Found(s) == Sees(HostOf[s], Near(ClubLink(s)))

(* With or without the prompt in front of it.                              *)
Offers(s) == Shown(s) /\ ~screen[s].hidden /\ ~screen[s].isAdmin

Current(s) == Offers(s) => (screen[s].isMember <=> Found(s))

OneShown == \A s, t \in Screen : Shown(s) /\ Shown(t) /\ HostOf[s] = HostOf[t] => s = t

AllAlone == \A d \in Device, l \in Link : l.user = AccountOf[d] => Alone(d, l)

CurrentInv ==
    ClubInv /\ IInv /\ OneShown /\ AllAlone /\ \A s \in Screen : Current(s)

LEMMA OfferedLink ==
    ASSUME AllSound, NEW s \in Screen, Offers(s)
    PROVE  ClubLink(s) \in Link /\ ClubLink(s).user = AccountOf[HostOf[s]]
<1>1. Sound(s, screen[s]) /\ screen[s].phase = "shown" /\ ~screen[s].hidden /\ ~screen[s].isAdmin
  BY DEF AllSound, Offers, Shown
<1>2. screen[s].ClubKey \in Club /\ <<Me(s), screen[s].ClubKey>> \notin Founded
  BY <1>1 DEF Sound
<1> QED BY <1>2, MeIsUser DEF ClubLink, Link, Me

(* A screen whose offer did not change stays current in a step that spares *)
(* its link.                                                               *)
KeepsOffer(q, r) ==
    /\ q.hidden = r.hidden /\ q.isAdmin = r.isAdmin /\ q.isMember = r.isMember
    /\ q.ClubKey = r.ClubKey
    /\ q.phase = "shown" => r.phase = "shown"

LEMMA StaysCurrent ==
    ASSUME CurrentInv, IInv', NEW s \in Screen, KeepsOffer(screen'[s], screen[s]),
           Offers(s) => Spares(HostOf[s], ClubLink(s))
    PROVE  Current(s)'
<1>1. SUFFICES ASSUME Offers(s)' PROVE screen'[s].isMember <=> Found(s)'
  BY DEF Current
<1>2. Offers(s)
  BY <1>1 DEF Offers, Shown, KeepsOffer
<1>3. PICK l \in Link : l = ClubLink(s) /\ l.user = AccountOf[HostOf[s]]
  BY <1>2, OfferedLink DEF CurrentInv, ClubInv, AllSound
<1>4. PICK d \in Device : d = HostOf[s]
  BY MeIsUser
<1>5. Alone(d, l) /\ IInv /\ Spares(d, l) /\ Near(l) \in Halves(l)
  BY <1>2, <1>3, <1>4 DEF CurrentInv, AllAlone, Halves
<1>6. Sees(d, Near(l))' <=> Sees(d, Near(l))
  BY <1>5, SeenStays
<1>7. ClubLink(s)' = l
  BY <1>3 DEF ClubLink, Me, KeepsOffer
<1>8. Current(s)
  BY DEF CurrentInv
<1> QED BY <1>2, <1>3, <1>4, <1>6, <1>7, <1>8 DEF Current, KeepsOffer, Found

(* A screen that is behind another, or hides its button, offers nothing.   *)
LEMMA HiddenIsCurrent ==
    ASSUME NEW s \in Screen, screen'[s].phase # "shown" \/ screen'[s].hidden \/ screen'[s].isAdmin
    PROVE  Current(s)'
BY DEF Current, Offers, Shown

LookSteps(s) ==
    \/ \E c \in Club, e \in Event \cup {NoEvent} : Open(s, c, e)
    \/ Cover(s) \/ Reappear(s) \/ Close(s) \/ AdminReply(s) \/ MemberReply(s)

(* What a look does to the screens: one comes to the front, or one changes *)
(* and goes away, becomes an editor, keeps its offer, or takes the answer. *)
LEMMA LookShape ==
    ASSUME screen \in [Screen -> ScreenState], NEW s \in Screen, LookSteps(s)
    PROVE  \/ \E r \in ScreenState : screen' = Front(s, Appearing(r))
           \/ \E q : /\ screen' = [screen EXCEPT ![s] = q]
                     /\ q.phase = "shown" => screen[s].phase = "shown"
                     /\ \/ q.phase # "shown" \/ q.isAdmin
                        \/ KeepsOffer(q, screen[s])
                        \/ q.ClubKey = screen[s].ClubKey /\ (q.isMember <=> Found(s))
<1> DEFINE r == screen[s]
<1>1. r \in ScreenState
  OBVIOUS
<1>2. ASSUME NEW c \in Club, NEW e \in Event \cup {NoEvent}, Open(s, c, e)
      PROVE  \E x \in ScreenState : screen' = Front(s, Appearing(x))
  <2> DEFINE x == [Closed EXCEPT !.ClubKey = c, !.ClubEventKey = e]
  <2>1. x \in ScreenState
    BY DEF Closed, ScreenState, Title
  <2>2. screen' = Front(s, Appearing(x))
    BY <1>2 DEF Open
  <2> HIDE DEF x
  <2> QED BY <2>1, <2>2
<1>3. CASE Reappear(s)
  BY <1>1, <1>3 DEF Reappear
<1>4. ASSUME Cover(s)
      PROVE  \E q : screen' = [screen EXCEPT ![s] = q] /\ q.phase # "shown"
  <2> DEFINE q == [r EXCEPT !.phase = "covered", !.alert = FALSE]
  <2>1. screen' = [screen EXCEPT ![s] = q]
    BY <1>4 DEF Cover
  <2>2. q.phase # "shown"
    BY <1>1 DEF ScreenState
  <2> HIDE DEF q
  <2> QED BY <2>1, <2>2
<1>5. ASSUME Close(s)
      PROVE  \E q : screen' = [screen EXCEPT ![s] = q] /\ q.phase # "shown"
  <2>1. screen' = [screen EXCEPT ![s] = Closed]
    BY <1>5 DEF Close
  <2>2. Closed.phase # "shown"
    BY DEF Closed
  <2> QED BY <2>1, <2>2
<1>6. ASSUME AdminReply(s)
      PROVE  \E q : /\ screen' = [screen EXCEPT ![s] = q]
                    /\ q.phase = r.phase
                    /\ q.isAdmin \/ KeepsOffer(q, r)
  <2> DEFINE n == r.adminReads - 1
             found == Sees(HostOf[s], AdminEntry(Me(s), r.ClubKey))
             m == r.memberReads + 1
             yes == [r EXCEPT !.adminReads = n, !.isAdmin = TRUE, !.memberReads = r.memberReads,
                              !.hidden = FALSE, !.title = "Edit Club", !.analytics = TRUE]
             old == [r EXCEPT !.adminReads = n, !.isAdmin = TRUE, !.memberReads = r.memberReads]
             no == [r EXCEPT !.adminReads = n, !.isAdmin = FALSE, !.memberReads = m]
  <2>1. r.isAdmin = TRUE \/ r.isAdmin = FALSE
    BY <1>1 DEF ScreenState
  <2>2. found => screen' = [screen EXCEPT ![s] = yes]
    BY <1>6 DEF AdminReply
  <2>3. ~found /\ r.isAdmin = TRUE => screen' = [screen EXCEPT ![s] = old]
    BY <1>6 DEF AdminReply
  <2>4. ~found /\ r.isAdmin = FALSE => screen' = [screen EXCEPT ![s] = no]
    BY <1>6 DEF AdminReply
  <2> HIDE DEF n, m, found
  <2>5. /\ yes.phase = r.phase /\ yes.isAdmin
        /\ old.phase = r.phase /\ old.isAdmin
        /\ no.phase = r.phase /\ (r.isAdmin = FALSE => KeepsOffer(no, r))
    BY <1>1 DEF ScreenState, KeepsOffer
  <2> HIDE DEF yes, old, no
  <2>6. CASE found
    BY <2>2, <2>5, <2>6
  <2>7. CASE ~found /\ r.isAdmin = TRUE
    BY <2>3, <2>5, <2>7
  <2>8. CASE ~found /\ r.isAdmin = FALSE
    BY <2>4, <2>5, <2>8
  <2> QED BY <2>1, <2>6, <2>7, <2>8
<1>7. ASSUME MemberReply(s)
      PROVE  \E q : /\ screen' = [screen EXCEPT ![s] = q]
                    /\ q.phase = r.phase
                    /\ \/ KeepsOffer(q, r)
                       \/ q.ClubKey = r.ClubKey /\ (q.isMember <=> Found(s))
  <2> DEFINE n == r.memberReads - 1
             yes == [r EXCEPT !.memberReads = n, !.hidden = FALSE, !.title = "Leave Club",
                              !.isMember = TRUE]
             no == [r EXCEPT !.memberReads = n, !.hidden = FALSE, !.title = "Join Club"]
             same == [r EXCEPT !.memberReads = n]
  <2>1. /\ Found(s) => screen' = [screen EXCEPT ![s] = yes]
        /\ ~Found(s) /\ ~r.isMember => screen' = [screen EXCEPT ![s] = no]
        /\ ~Found(s) /\ r.isMember => screen' = [screen EXCEPT ![s] = same]
    BY <1>7 DEF MemberReply, Found
  <2> HIDE DEF n
  <2>2. /\ yes.phase = r.phase /\ yes.ClubKey = r.ClubKey /\ yes.isMember
        /\ no.phase = r.phase /\ no.ClubKey = r.ClubKey /\ (no.isMember <=> r.isMember)
        /\ same.phase = r.phase /\ KeepsOffer(same, r)
    BY <1>1 DEF ScreenState, KeepsOffer
  <2> HIDE DEF yes, no, same
  <2>3. CASE Found(s)
    BY <2>1, <2>2, <2>3
  <2>4. CASE ~Found(s) /\ ~r.isMember
    BY <2>1, <2>2, <2>4
  <2>5. CASE ~Found(s) /\ r.isMember
    BY <2>1, <2>2, <2>5
  <2> QED BY <2>3, <2>4, <2>5
<1> QED BY <1>2, <1>3, <1>4, <1>5, <1>6, <1>7 DEF LookSteps, KeepsOffer

(* Screens that only look: the database stays, one screen changes and may  *)
(* cover another.                                                          *)
LEMMA LookCurrent ==
    ASSUME CurrentInv, ClubInv', IInv', NEW s \in Screen, LookSteps(s)
    PROVE  CurrentInv'
<1>1. UNCHANGED vars
  BY DEF LookSteps, Open, Cover, Reappear, Close, AdminReply, MemberReply
<1>2. ClubInv' /\ IInv'
  OBVIOUS
<1>3. AllAlone'
  BY <1>1 DEF CurrentInv, AllAlone, Alone, Busy, vars
<1>4. screen \in [Screen -> ScreenState]
  BY DEF CurrentInv, ClubInv
<1>5. ASSUME NEW t \in Screen, KeepsOffer(screen'[t], screen[t])
      PROVE  Current(t)'
  <2>1. Spares(HostOf[t], ClubLink(t))
    BY <1>1 DEF Spares, Passes
  <2> QED BY <1>2, <1>5, <2>1, StaysCurrent
<1>6. CASE \E r \in ScreenState : screen' = Front(s, Appearing(r))
  <2>1. PICK r \in ScreenState : screen' = Front(s, Appearing(r))
    BY <1>6
  <2>2. Appearing(r).hidden
    BY DEF Appearing, ScreenState
  <2>3. Current(s)'
    BY <2>1, <2>2, HiddenIsCurrent DEF Front
  <2>4. ASSUME NEW t \in Screen \ {s}
        PROVE  \/ screen'[t] = screen[t] /\ (HostOf[t] # HostOf[s] \/ ~Shown(t))
               \/ screen'[t].phase = "covered"
    BY <1>4, <2>1 DEF Front, ScreenState
  <2>5. \A t \in Screen : Current(t)'
    BY <1>5, <2>3, <2>4, HiddenIsCurrent DEF KeepsOffer
  <2>6. \A t \in Screen \ {s} : Shown(t)' => Shown(t) /\ HostOf[t] # HostOf[s]
    BY <2>4 DEF Shown
  <2>7. OneShown'
    BY <2>6 DEF CurrentInv, OneShown
  <2> QED BY <1>2, <1>3, <2>5, <2>7 DEF CurrentInv
<1>7. ASSUME NEW q, screen' = [screen EXCEPT ![s] = q],
             q.phase = "shown" => screen[s].phase = "shown",
             \/ q.phase # "shown" \/ q.isAdmin
             \/ KeepsOffer(q, screen[s])
             \/ q.ClubKey = screen[s].ClubKey /\ (q.isMember <=> Found(s))
      PROVE  CurrentInv'
  <2>1. screen'[s] = q /\ \A t \in Screen \ {s} : screen'[t] = screen[t]
    BY <1>4, <1>7
  <2>2. Current(s)'
    <3>1. CASE q.phase # "shown" \/ q.isAdmin
      BY <2>1, <3>1, HiddenIsCurrent
    <3>2. CASE KeepsOffer(q, screen[s])
      BY <1>5, <2>1, <3>2
    <3>3. CASE q.ClubKey = screen[s].ClubKey /\ (q.isMember <=> Found(s))
      <4>1. ClubLink(s)' = ClubLink(s)
        BY <2>1, <3>3 DEF ClubLink, Me
      <4>2. Found(s)' <=> Found(s)
        BY <1>1, <4>1 DEF vars, Sees, Found, Near
      <4> QED BY <2>1, <3>3, <4>2 DEF Current
    <3> QED BY <1>7, <3>1, <3>2, <3>3
  <2>3. \A t \in Screen : Current(t)'
    BY <1>5, <2>1, <2>2 DEF KeepsOffer
  <2>4. \A t \in Screen : Shown(t)' => Shown(t)
    BY <1>7, <2>1 DEF Shown
  <2>5. OneShown'
    BY <2>4 DEF CurrentInv, OneShown
  <2> QED BY <1>2, <1>3, <2>3, <2>5 DEF CurrentInv
<1> QED BY <1>4, <1>6, <1>7, LookShape

(* Join, leave and Confirm, as taps of Links.                              *)
LEMMA TapCases ==
    ASSUME AllSound, NEW s \in Screen, TapJoin(s) \/ TapLeave(s) \/ Confirm(s)
    PROVE  \E l \in Link, act \in {"attach", "detach"} :
              /\ Shown(s)
              /\ Tap(HostOf[s], l, act)
              /\ \A t \in Screen \ {s} : screen'[t] = screen[t]
              /\ l.user = AccountOf[HostOf[s]]
              /\ screen'[s].phase = screen[s].phase
              /\ \/ /\ l = ClubLink(s) /\ screen'[s].ClubKey = screen[s].ClubKey
                    /\ screen'[s].isMember <=> act = "attach"
                 \/ KeepsOffer(screen'[s], screen[s]) /\ l.kind = "event"
<1>1. screen[s] \in ScreenState /\ screen \in [Screen -> ScreenState]
  BY DEF AllSound
<1>2. CASE TapJoin(s)
  <2> DEFINE q == [screen[s] EXCEPT !.title = "Leave Club", !.isMember = TRUE]
  <2>1. screen' = [screen EXCEPT ![s] = q]
    BY <1>2 DEF TapJoin
  <2>2. Shown(s) /\ Tap(HostOf[s], ClubLink(s), "attach")
    BY <1>2 DEF TapJoin, Tappable, Attach, Tap, TapWrites
  <2>3. ClubLink(s) \in Link /\ ClubLink(s).user = AccountOf[HostOf[s]]
    BY <1>2, TapSound DEF ClubLink, Me
  <2>4. q.phase = screen[s].phase /\ q.ClubKey = screen[s].ClubKey /\ q.isMember
    BY <1>1 DEF ScreenState
  <2> HIDE DEF q
  <2> QED BY <1>1, <2>1, <2>2, <2>3, <2>4
<1>3. CASE TapLeave(s)
  <2> DEFINE q == [screen[s] EXCEPT !.title = "Join Club", !.isMember = FALSE]
  <2>1. screen' = [screen EXCEPT ![s] = q]
    BY <1>3 DEF TapLeave
  <2>2. Shown(s) /\ Tap(HostOf[s], ClubLink(s), "detach")
    BY <1>3 DEF TapLeave, Tappable, Detach, Tap, TapWrites
  <2>3. ClubLink(s) \in Link /\ ClubLink(s).user = AccountOf[HostOf[s]]
    BY <1>3, TapSound DEF ClubLink, Me
  <2>4. q.phase = screen[s].phase /\ q.ClubKey = screen[s].ClubKey /\ ~q.isMember
    BY <1>1 DEF ScreenState
  <2> HIDE DEF q
  <2> QED BY <1>1, <2>1, <2>2, <2>3, <2>4
<1>4. CASE Confirm(s)
  <2> DEFINE q == [screen[s] EXCEPT !.alert = FALSE]
  <2>1. screen' = [screen EXCEPT ![s] = q]
    BY <1>4 DEF Confirm
  <2>2. Shown(s) /\ Tap(HostOf[s], CheckIn(s), "attach")
    BY <1>4 DEF Confirm, Attach, Tap, TapWrites
  <2>3. /\ CheckIn(s) \in Link /\ CheckIn(s).user = AccountOf[HostOf[s]]
        /\ CheckIn(s).kind = "event"
    BY <1>4, ConfirmSound DEF CheckIn, Me
  <2>4. q.phase = screen[s].phase /\ KeepsOffer(q, screen[s])
    BY <1>1 DEF ScreenState, KeepsOffer
  <2> HIDE DEF q
  <2> QED BY <1>1, <2>1, <2>2, <2>3, <2>4
<1> QED BY <1>2, <1>3, <1>4

(* A tap on one screen; the others in front belong to other accounts.      *)
LEMMA TapCurrent ==
    ASSUME OwnPhones, CurrentInv, ClubInv', IInv', NEW s \in Screen,
           TapJoin(s) \/ TapLeave(s) \/ Confirm(s)
    PROVE  CurrentInv'
<1>1. AllSound /\ IInv /\ TypeOK
  BY DEF CurrentInv, ClubInv, AllSound
<1>2. PICK l \in Link, act \in {"attach", "detach"} :
         /\ Shown(s)
         /\ Tap(HostOf[s], l, act)
         /\ \A t \in Screen \ {s} : screen'[t] = screen[t]
         /\ l.user = AccountOf[HostOf[s]]
         /\ screen'[s].phase = screen[s].phase
         /\ \/ /\ l = ClubLink(s) /\ screen'[s].ClubKey = screen[s].ClubKey
               /\ screen'[s].isMember <=> act = "attach"
            \/ KeepsOffer(screen'[s], screen[s]) /\ l.kind = "event"
  BY <1>1, TapCases
<1> PICK d \in Device : d = HostOf[s]
  BY MeIsUser
<1>3. ASSUME NEW e \in Device, NEW m \in Link, m # l
      PROVE  Spares(e, m) /\ NoTapOn(m)
  BY <1>2, <1>3 DEF Spares, NoTapOn, Passes
<1>4. Current(s)'
  <2>1. CASE /\ l = ClubLink(s) /\ screen'[s].ClubKey = screen[s].ClubKey
             /\ screen'[s].isMember <=> act = "attach"
    <3>1. ClubLink(s)' = l
      BY <2>1 DEF ClubLink, Me
    <3>2. Near(l) \in Halves(l)
      BY DEF Halves
    <3>3. Sees(d, Near(l))' <=> act = "attach"
      BY <1>1, <1>2, <3>2, TapSeen
    <3>4. Found(s)' <=> act = "attach"
      BY <3>1, <3>3 DEF Found
    <3> QED BY <2>1, <3>4 DEF Current
  <2>2. CASE KeepsOffer(screen'[s], screen[s]) /\ l.kind = "event"
    <3>1. ClubLink(s) # l
      BY <2>2 DEF ClubLink
    <3>2. Offers(s) => Spares(HostOf[s], ClubLink(s))
      BY <1>1, <1>3, <3>1, OfferedLink, MeIsUser
    <3> QED BY <2>2, <3>2, StaysCurrent
  <2> QED BY <1>2, <2>1, <2>2
<1>5. ASSUME NEW t \in Screen \ {s} PROVE Current(t)'
  <2>1. ASSUME Offers(t) PROVE Spares(HostOf[t], ClubLink(t))
    <3>1. HostOf[t] # d /\ HostOf[t] \in Device
      BY <1>2, <2>1, MeIsUser DEF CurrentInv, OneShown, Offers
    <3>2. ClubLink(t) \in Link /\ ClubLink(t).user = AccountOf[HostOf[t]]
      BY <1>1, <2>1, OfferedLink
    <3>3. AccountOf[HostOf[t]] # AccountOf[d]
      BY <3>1 DEF OwnPhones
    <3> QED BY <1>2, <1>3, <3>1, <3>2, <3>3
  <2>2. KeepsOffer(screen'[t], screen[t])
    BY <1>2 DEF KeepsOffer
  <2> QED BY <2>1, <2>2, StaysCurrent
<1>6. AllAlone'
  <2>1. ASSUME NEW e \in Device, NEW m \in Link, m.user = AccountOf[e]
        PROVE  Alone(e, m)'
    <3>1. Alone(e, m)
      BY <2>1 DEF CurrentInv, AllAlone
    <3>2. CASE m = l
      <4>1. e = d
        BY <1>2, <2>1, <3>2 DEF OwnPhones
      <4> QED BY <1>1, <1>2, <3>1, <3>2, <4>1, AloneTap
    <3>3. CASE m # l
      BY <1>1, <1>3, <3>1, <3>3, AloneStep
    <3> QED BY <3>2, <3>3
  <2> QED BY <2>1 DEF AllAlone
<1>7. OneShown'
  <2>1. \A t \in Screen : Shown(t)' => Shown(t)
    BY <1>2 DEF Shown
  <2> QED BY <2>1 DEF CurrentInv, OneShown
<1> QED BY <1>4, <1>5, <1>6, <1>7 DEF CurrentInv

(* The network, and the death of one phone.                                *)
LEMMA PassingCurrent ==
    ASSUME CurrentInv, ClubInv', IInv', NEW d \in Device, ClubDeliver(d) \/ ClubKill(d)
    PROVE  CurrentInv'
<1>1. TypeOK
  BY DEF CurrentInv, ClubInv
<1>2. \A l \in Link : NoTapOn(l)
  BY DEF ClubDeliver, ClubKill, NoTapOn, Passes
<1>3. AllAlone'
  BY <1>1, <1>2, AloneStep DEF CurrentInv, AllAlone
<1>4. ASSUME NEW s \in Screen PROVE Current(s)' /\ (Shown(s)' => Shown(s))
  <2>1. CASE ClubDeliver(d)
    <3>1. Spares(HostOf[s], ClubLink(s)) /\ screen' = screen
      BY <2>1 DEF ClubDeliver, Spares, Passes
    <3> QED BY <3>1, StaysCurrent DEF Shown, KeepsOffer
  <2>2. CASE ClubKill(d) /\ HostOf[s] = d
    <3>1. screen'[s].phase = "closed"
      BY <2>2 DEF ClubKill, Closed
    <3> QED BY <3>1, HiddenIsCurrent DEF Shown
  <2>3. CASE ClubKill(d) /\ HostOf[s] # d
    <3>1. screen'[s] = screen[s] /\ Spares(HostOf[s], ClubLink(s))
      BY <2>3 DEF ClubKill, Spares, Passes
    <3> QED BY <3>1, StaysCurrent DEF Shown, KeepsOffer
  <2> QED BY <2>1, <2>2, <2>3
<1> QED BY <1>3, <1>4 DEF CurrentInv, OneShown

LEMMA CurrentStep ==
    ASSUME OwnPhones, CurrentInv, [ClubNext]_clubVars
    PROVE  CurrentInv'
<1>1. ClubInv' /\ IInv'
  <2>1. [Next]_vars
    BY ScreenStepIsLinkStep DEF CurrentInv
  <2> QED BY <2>1, ClubInvStep, IInvStep DEF CurrentInv
<1>2. CASE UNCHANGED clubVars
  <2>1. AllAlone'
    BY <1>2 DEF CurrentInv, clubVars, AllAlone, Alone, Busy
  <2>2. \A s \in Screen : Spares(HostOf[s], ClubLink(s)) /\ KeepsOffer(screen'[s], screen[s])
    BY <1>2 DEF clubVars, vars, Spares, Passes, KeepsOffer
  <2>3. \A s \in Screen : Current(s)'
    BY <1>1, <2>2, StaysCurrent
  <2>4. OneShown'
    BY <1>2 DEF CurrentInv, clubVars, OneShown, Shown
  <2> QED BY <1>1, <2>1, <2>3, <2>4 DEF CurrentInv
<1>3. ASSUME NEW s \in Screen, LookSteps(s)
      PROVE  CurrentInv'
  BY <1>1, <1>3, LookCurrent
<1>4. ASSUME NEW s \in Screen, TapJoin(s) \/ TapLeave(s) \/ Confirm(s)
      PROVE  CurrentInv'
  BY <1>1, <1>4, TapCurrent
<1>5. ASSUME NEW d \in Device, ClubDeliver(d) \/ ClubKill(d)
      PROVE  CurrentInv'
  BY <1>1, <1>5, PassingCurrent
<1>6. CASE ClubNext
  BY <1>3, <1>4, <1>5, <1>6, InfoKills DEF ClubNext, LookSteps
<1> QED BY <1>2, <1>6

LEMMA CurrentInit == ClubInit => CurrentInv
<1> SUFFICES ASSUME ClubInit PROVE CurrentInv
  OBVIOUS
<1>1. ClubInv /\ IInv
  BY ClubInvInit, IInvInit DEF ClubInit
<1>2. AllAlone
  BY AloneInit DEF ClubInit, AllAlone
<1>3. \A s \in Screen : ~Shown(s)
  BY DEF ClubInit, Shown, Closed
<1> QED BY <1>1, <1>2, <1>3 DEF CurrentInv, OneShown, Current, Offers

(* Where every phone has an account of its own, a button that can be       *)
(* tapped offers to leave exactly when the phone sees the club in its      *)
(* user's list, over any number of screens, reads, drops and kills.        *)
THEOREM OffersAreCurrent == OwnPhones => (ClubSpec => []OfferIsCurrent)
<1> SUFFICES ASSUME OwnPhones PROVE ClubSpec => []OfferIsCurrent
  OBVIOUS
<1>1. CurrentInv /\ [ClubNext]_clubVars => CurrentInv'
  BY CurrentStep
<1>2. CurrentInv => OfferIsCurrent
  BY DEF CurrentInv, Current, Offers, Found, OfferIsCurrent, Tappable
<1> QED BY <1>1, <1>2, CurrentInit, PTL DEF ClubSpec

-----------------------------------------------------------------------------
(* The button comes back.                                                  *)

(* A screen in state r that waits for nothing shows its button, or knows   *)
(* of a membership; the analytics button follows the last answer.          *)
Settled(s, r) ==
    r.phase # "closed" =>
        /\ r.isMember => <<Me(s), r.ClubKey>> \notin Founded
        /\ r.hidden /\ r.adminReads = 0 /\ r.memberReads = 0 => r.isMember
        /\ r.analytics => r.isAdmin
        /\ r.isAdmin /\ r.adminReads = 0 => r.analytics

Waits(s) == screen[s].adminReads # 0 \/ screen[s].memberReads # 0

Stuck(s) == Shown(s) /\ screen[s].hidden /\ ~Waits(s)

(* ... and if the button stays away, the membership was given up.          *)
StuckIsOutdated(s) == Stuck(s) => ~Found(s)

ReturnInv ==
    CurrentInv /\ \A s \in Screen : Settled(s, screen[s]) /\ StuckIsOutdated(s)

LEMMA AppearingSettled ==
    ASSUME NEW s \in Screen, NEW r \in ScreenState,
           r.isMember => <<Me(s), r.ClubKey>> \notin Founded,
           r.analytics => r.isAdmin
    PROVE  Settled(s, Appearing(r)) /\ Appearing(r).adminReads # 0
<1> DEFINE n == r.adminReads + 1
           up == r.ClubEventKey # NoEvent
           q == [r EXCEPT !.phase = "shown", !.hidden = TRUE, !.analytics = FALSE,
                          !.adminReads = n, !.alert = up]
<1>1. n # 0
  BY DEF ScreenState
<1>2. Appearing(r) = q
  BY DEF Appearing
<1> HIDE DEF n, up
<1>3. q.adminReads = n /\ q.isMember = r.isMember /\ q.ClubKey = r.ClubKey /\ q.analytics = FALSE
  BY DEF ScreenState
<1> HIDE DEF q
<1> QED BY <1>1, <1>2, <1>3 DEF Settled

(* A look leaves every screen settled, and its own one not stuck unless    *)
(* the answer was that the club is gone.                                   *)
LEMMA LookSettled ==
    ASSUME ReturnInv, NEW s \in Screen, LookSteps(s)
    PROVE  /\ Settled(s, screen'[s])
           /\ StuckIsOutdated(s)'
<1> DEFINE r == screen[s]
<1>1. /\ r \in ScreenState /\ Sound(s, r) /\ Settled(s, r)
      /\ screen \in [Screen -> ScreenState]
      /\ AllSound /\ TypeOK /\ AdminsKept
  BY DEF ReturnInv, CurrentInv, ClubInv, AllSound
<1>2. UNCHANGED vars
  BY DEF LookSteps, Open, Cover, Reappear, Close, AdminReply, MemberReply
<1>3. ASSUME NEW x \in ScreenState, screen' = Front(s, Appearing(x)),
             x.isMember => <<Me(s), x.ClubKey>> \notin Founded,
             x.analytics => x.isAdmin
      PROVE  Settled(s, screen'[s]) /\ StuckIsOutdated(s)'
  <2>1. screen'[s] = Appearing(x)
    BY <1>3 DEF Front
  <2> QED BY <1>3, <2>1, AppearingSettled DEF StuckIsOutdated, Stuck, Waits
<1>4. ASSUME NEW c \in Club, NEW e \in Event \cup {NoEvent}, Open(s, c, e)
      PROVE  Settled(s, screen'[s]) /\ StuckIsOutdated(s)'
  <2> DEFINE x == [Closed EXCEPT !.ClubKey = c, !.ClubEventKey = e]
  <2>1. x \in ScreenState /\ ~x.isMember /\ ~x.analytics
    BY DEF Closed, ScreenState, Title
  <2>2. screen' = Front(s, Appearing(x))
    BY <1>4 DEF Open
  <2> HIDE DEF x
  <2> QED BY <1>3, <2>1, <2>2
<1>5. CASE Reappear(s)
  <2>1. r.phase # "closed" /\ screen' = Front(s, Appearing(r))
    BY <1>5 DEF Reappear
  <2> QED BY <1>1, <1>3, <2>1 DEF Settled
<1>6. CASE Cover(s)
  <2> DEFINE q == [r EXCEPT !.phase = "covered", !.alert = FALSE]
  <2>1. screen' = [screen EXCEPT ![s] = q] /\ r.phase = "shown"
    BY <1>6 DEF Cover, Shown
  <2>2. /\ q.phase = "covered" /\ q.hidden = r.hidden /\ q.isMember = r.isMember
        /\ q.ClubKey = r.ClubKey /\ q.analytics = r.analytics /\ q.isAdmin = r.isAdmin
        /\ q.adminReads = r.adminReads /\ q.memberReads = r.memberReads
    BY <1>1 DEF ScreenState
  <2> HIDE DEF q
  <2>3. screen'[s] = q
    BY <1>1, <2>1
  <2> QED BY <1>1, <2>1, <2>2, <2>3 DEF Settled, StuckIsOutdated, Stuck, Shown
<1>7. CASE Close(s)
  <2>1. screen'[s] = Closed
    BY <1>1, <1>7 DEF Close
  <2>2. Closed.phase = "closed"
    BY DEF Closed
  <2> QED BY <2>1, <2>2 DEF Settled, StuckIsOutdated, Stuck, Shown
<1>8. CASE AdminReply(s)
  <2> DEFINE n == r.adminReads - 1
             found == Sees(HostOf[s], AdminEntry(Me(s), r.ClubKey))
             m == r.memberReads + 1
             yes == [r EXCEPT !.adminReads = n, !.isAdmin = TRUE, !.memberReads = r.memberReads,
                              !.hidden = FALSE, !.title = "Edit Club", !.analytics = TRUE]
             no == [r EXCEPT !.adminReads = n, !.isAdmin = FALSE, !.memberReads = m]
  <2>1. r.phase # "closed" /\ r.ClubKey \in Club
    BY <1>1, <1>8, WaitingIsOpen DEF AdminReply
  <2>2. found <=> <<Me(s), r.ClubKey>> \in Founded
    BY <1>1, <2>1, MeIsUser, AdminSeen
  <2>3. ~found => r.isAdmin = FALSE
    BY <1>1, <2>2 DEF Sound, ScreenState
  <2>4. found => screen' = [screen EXCEPT ![s] = yes]
    BY <1>8 DEF AdminReply
  <2>5. ~found => screen' = [screen EXCEPT ![s] = no]
    BY <1>8, <2>3 DEF AdminReply
  <2>6. m # 0
    BY <1>1 DEF ScreenState
  <2> HIDE DEF n, m, found
  <2>7. /\ yes.isMember = r.isMember /\ yes.ClubKey = r.ClubKey /\ yes.hidden = FALSE
        /\ yes.analytics = TRUE /\ yes.isAdmin = TRUE
        /\ no.isMember = r.isMember /\ no.ClubKey = r.ClubKey /\ no.memberReads = m
        /\ no.analytics = r.analytics /\ no.isAdmin = FALSE
    BY <1>1 DEF ScreenState
  <2> HIDE DEF yes, no
  <2>8. CASE found
    <3>1. screen'[s] = yes
      BY <1>1, <2>4, <2>8
    <3> QED BY <1>1, <2>1, <2>7, <3>1 DEF Settled, StuckIsOutdated, Stuck
  <2>9. CASE ~found
    <3>1. screen'[s] = no
      BY <1>1, <2>5, <2>9
    <3> QED BY <1>1, <2>1, <2>3, <2>6, <2>7, <2>9, <3>1
            DEF Settled, StuckIsOutdated, Stuck, Waits
  <2> QED BY <2>8, <2>9
<1>9. CASE MemberReply(s)
  <2> DEFINE n == r.memberReads - 1
             yes == [r EXCEPT !.memberReads = n, !.hidden = FALSE, !.title = "Leave Club",
                              !.isMember = TRUE]
             no == [r EXCEPT !.memberReads = n, !.hidden = FALSE, !.title = "Join Club"]
             same == [r EXCEPT !.memberReads = n]
  <2>1. r.phase # "closed" /\ r.memberReads # 0
    <3>1. r.memberReads # 0
      BY <1>1, <1>9 DEF MemberReply, ScreenState
    <3> QED BY <1>1, <3>1, WaitingIsOpen
  <2>2. <<Me(s), r.ClubKey>> \notin Founded
    BY <1>1, <2>1 DEF Sound
  <2>3. /\ Found(s) => screen' = [screen EXCEPT ![s] = yes]
        /\ ~Found(s) /\ ~r.isMember => screen' = [screen EXCEPT ![s] = no]
        /\ ~Found(s) /\ r.isMember => screen' = [screen EXCEPT ![s] = same]
    BY <1>9 DEF MemberReply, Found
  <2> HIDE DEF n
  <2>4. /\ yes.ClubKey = r.ClubKey /\ yes.hidden = FALSE
        /\ yes.analytics = r.analytics /\ yes.isAdmin = r.isAdmin
        /\ yes.adminReads = r.adminReads
        /\ no.ClubKey = r.ClubKey /\ no.hidden = FALSE
        /\ no.analytics = r.analytics /\ no.isAdmin = r.isAdmin
        /\ no.adminReads = r.adminReads
        /\ same.ClubKey = r.ClubKey /\ same.isMember = r.isMember
        /\ same.analytics = r.analytics /\ same.isAdmin = r.isAdmin
        /\ same.adminReads = r.adminReads
    BY <1>1 DEF ScreenState
  <2> HIDE DEF yes, no, same
  <2>5. CASE Found(s) \/ (~Found(s) /\ ~r.isMember)
    <3>1. screen'[s] = yes \/ screen'[s] = no
      BY <1>1, <2>3, <2>5
    <3> QED BY <1>1, <2>1, <2>2, <2>4, <3>1 DEF Settled, StuckIsOutdated, Stuck
  <2>6. CASE ~Found(s) /\ r.isMember
    <3>1. screen'[s] = same
      BY <1>1, <2>3, <2>6
    <3>2. ClubLink(s)' = ClubLink(s)
      BY <2>4, <3>1 DEF ClubLink, Me
    <3>3. ~Found(s)'
      BY <1>2, <2>6, <3>2 DEF vars, Sees, Found, Near
    <3> QED BY <1>1, <2>1, <2>2, <2>4, <2>6, <3>1, <3>3 DEF Settled, StuckIsOutdated
  <2> QED BY <2>5, <2>6
<1> QED BY <1>4, <1>5, <1>6, <1>7, <1>8, <1>9 DEF LookSteps

(* Taps turn a button that is there; Confirm only drops the prompt.        *)
SameWait(q, r) ==
    /\ q.phase = r.phase /\ q.hidden = r.hidden /\ q.isMember = r.isMember
    /\ q.ClubKey = r.ClubKey /\ q.analytics = r.analytics /\ q.isAdmin = r.isAdmin
    /\ q.adminReads = r.adminReads /\ q.memberReads = r.memberReads

(* A stuck screen that its step leaves alone stays outdated.               *)
LEMMA StaysStuck ==
    ASSUME ReturnInv, IInv', NEW s \in Screen, SameWait(screen'[s], screen[s]),
           Stuck(s) => Spares(HostOf[s], ClubLink(s))
    PROVE  Settled(s, screen'[s]) /\ StuckIsOutdated(s)'
<1>1. Settled(s, screen'[s])
  BY DEF ReturnInv, Settled, SameWait
<1>2. ASSUME Stuck(s)' PROVE ~Found(s)'
  <2>1. Stuck(s)
    BY <1>2 DEF Stuck, Shown, Waits, SameWait
  <2>2. /\ screen[s].phase # "closed" /\ screen[s].isMember
        /\ ~Found(s) /\ Sound(s, screen[s])
    BY <2>1 DEF ReturnInv, CurrentInv, ClubInv, Settled, StuckIsOutdated, Stuck, Shown, Waits
  <2>3. screen[s].ClubKey \in Club /\ <<Me(s), screen[s].ClubKey>> \notin Founded
    BY <2>2 DEF Sound, ReturnInv, Settled
  <2>4. PICK l \in Link : l = ClubLink(s) /\ l.user = AccountOf[HostOf[s]]
    BY <2>3, MeIsUser DEF ClubLink, Link, Me
  <2>5. PICK d \in Device : d = HostOf[s]
    BY MeIsUser
  <2>6. Alone(d, l) /\ IInv /\ Spares(d, l) /\ Near(l) \in Halves(l)
    BY <2>1, <2>4, <2>5 DEF ReturnInv, CurrentInv, AllAlone, Halves
  <2>7. Sees(d, Near(l))' <=> Sees(d, Near(l))
    BY <2>6, SeenStays
  <2>8. ClubLink(s)' = l
    BY <2>4 DEF ClubLink, Me, SameWait
  <2> QED BY <2>2, <2>4, <2>5, <2>7, <2>8 DEF Found
<1> QED BY <1>1, <1>2 DEF StuckIsOutdated

LEMMA TapShows ==
    ASSUME ReturnInv, NEW s \in Screen, TapJoin(s) \/ TapLeave(s)
    PROVE  Settled(s, screen'[s]) /\ ~screen'[s].hidden
<1> DEFINE r == screen[s]
           join == [r EXCEPT !.title = "Leave Club", !.isMember = TRUE]
           leave == [r EXCEPT !.title = "Join Club", !.isMember = FALSE]
<1>1. /\ r \in ScreenState /\ Sound(s, r) /\ Settled(s, r)
      /\ screen \in [Screen -> ScreenState]
  BY DEF ReturnInv, CurrentInv, ClubInv
<1>2. r.phase = "shown" /\ ~r.hidden /\ ~r.isAdmin
  BY DEF TapJoin, TapLeave, Tappable, Shown
<1>3. <<Me(s), r.ClubKey>> \notin Founded
  BY <1>1, <1>2 DEF Sound
<1>4. screen' = [screen EXCEPT ![s] = join] \/ screen' = [screen EXCEPT ![s] = leave]
  BY DEF TapJoin, TapLeave
<1>5. /\ join.hidden = r.hidden /\ join.ClubKey = r.ClubKey
      /\ join.analytics = r.analytics /\ join.isAdmin = r.isAdmin
      /\ leave.hidden = r.hidden /\ leave.ClubKey = r.ClubKey
      /\ leave.analytics = r.analytics /\ leave.isAdmin = r.isAdmin
  BY <1>1 DEF ScreenState
<1> HIDE DEF join, leave
<1>6. screen'[s] = join \/ screen'[s] = leave
  BY <1>1, <1>4
<1> QED BY <1>1, <1>2, <1>3, <1>5, <1>6 DEF Settled

LEMMA ReturnStep ==
    ASSUME OwnPhones, ReturnInv, [ClubNext]_clubVars
    PROVE  ReturnInv'
<1>1. CurrentInv'
  BY CurrentStep DEF ReturnInv
<1>2. /\ screen \in [Screen -> ScreenState] /\ AllSound /\ OneShown
      /\ IInv'
  BY <1>1 DEF ReturnInv, CurrentInv, ClubInv, AllSound
<1>3. SUFFICES ASSUME NEW t \in Screen
               PROVE  Settled(t, screen'[t]) /\ StuckIsOutdated(t)'
  BY <1>1 DEF ReturnInv, Settled
<1>4. CASE UNCHANGED clubVars
  <2>1. Spares(HostOf[t], ClubLink(t)) /\ SameWait(screen'[t], screen[t])
    BY <1>4 DEF clubVars, vars, Spares, Passes, SameWait
  <2> QED BY <1>2, <2>1, StaysStuck
<1>5. ASSUME NEW s \in Screen, LookSteps(s)
      PROVE  Settled(t, screen'[t]) /\ StuckIsOutdated(t)'
  <2>1. CASE t = s
    BY <1>5, <2>1, LookSettled
  <2>2. CASE t # s
    <3>1. UNCHANGED vars
      BY <1>5 DEF LookSteps, Open, Cover, Reappear, Close, AdminReply, MemberReply
    <3>2. Spares(HostOf[t], ClubLink(t))
      BY <3>1 DEF Spares, Passes
    <3>3. CASE screen'[t] = screen[t]
      BY <1>2, <3>2, <3>3, StaysStuck DEF SameWait
    <3>4. CASE /\ Shown(t)
               /\ screen'[t] = [screen[t] EXCEPT !.phase = "covered", !.alert = FALSE]
      <4> DEFINE r == screen[t]
                 q == [r EXCEPT !.phase = "covered", !.alert = FALSE]
      <4>1. r \in ScreenState /\ r.phase = "shown" /\ Settled(t, r)
        BY <1>2, <3>4 DEF Shown, ReturnInv
      <4>2. /\ q.phase = "covered" /\ q.hidden = r.hidden /\ q.isMember = r.isMember
            /\ q.ClubKey = r.ClubKey /\ q.analytics = r.analytics /\ q.isAdmin = r.isAdmin
            /\ q.adminReads = r.adminReads /\ q.memberReads = r.memberReads
        BY <4>1 DEF ScreenState
      <4>3. screen'[t] = q
        BY <3>4
      <4> HIDE DEF q
      <4> QED BY <4>1, <4>2, <4>3 DEF Settled, StuckIsOutdated, Stuck, Shown
    <3>5. CASE \E x : screen' = Front(s, x)
      BY <2>2, <3>3, <3>4, <3>5 DEF Front
    <3>6. CASE \E x : screen' = [screen EXCEPT ![s] = x]
      BY <1>2, <2>2, <3>3, <3>6
    <3> QED BY <1>2, <1>5, <3>5, <3>6, LookShape
  <2> QED BY <2>1, <2>2
<1>6. ASSUME NEW s \in Screen, TapJoin(s) \/ TapLeave(s) \/ Confirm(s)
      PROVE  Settled(t, screen'[t]) /\ StuckIsOutdated(t)'
  <2>1. PICK l \in Link, act \in {"attach", "detach"} :
           /\ Shown(s)
           /\ Tap(HostOf[s], l, act)
           /\ \A x \in Screen \ {s} : screen'[x] = screen[x]
           /\ l.user = AccountOf[HostOf[s]]
    BY <1>2, <1>6, TapCases
  <2>2. CASE t = s /\ (TapJoin(s) \/ TapLeave(s))
    BY <2>2, TapShows DEF StuckIsOutdated, Stuck
  <2>3. CASE t = s /\ Confirm(s)
    <3> DEFINE r == screen[s]
               q == [r EXCEPT !.alert = FALSE]
    <3>1. screen' = [screen EXCEPT ![s] = q] /\ r \in ScreenState
      BY <1>2, <2>3 DEF Confirm
    <3>2. SameWait(q, r)
      BY <3>1 DEF ScreenState, SameWait
    <3> HIDE DEF q
    <3>3. SameWait(screen'[s], screen[s])
      BY <1>2, <3>1, <3>2
    <3>4. Tap(HostOf[s], CheckIn(s), "attach") /\ CheckIn(s) \in Link
      BY <1>2, <2>3, ConfirmSound DEF Confirm, Attach, Tap, TapWrites
    <3>5. CheckIn(s) # ClubLink(s)
      BY DEF CheckIn, ClubLink
    <3>6. Spares(HostOf[s], ClubLink(s))
      BY <3>4, <3>5, MeIsUser DEF Spares, Passes
    <3> QED BY <1>2, <2>3, <3>3, <3>6, StaysStuck
  <2>4. CASE t # s
    <3>1. ASSUME Stuck(t) PROVE Spares(HostOf[t], ClubLink(t))
      <4>1. HostOf[t] # HostOf[s] /\ HostOf[t] \in Device /\ HostOf[s] \in Device
        BY <1>2, <2>1, <2>4, <3>1, MeIsUser DEF OneShown, Stuck
      <4>2. AccountOf[HostOf[t]] # AccountOf[HostOf[s]]
        BY <4>1 DEF OwnPhones
      <4>3. ClubLink(t) # l
        BY <2>1, <4>2 DEF ClubLink, Me
      <4> QED BY <2>1, <4>1, <4>3 DEF Spares, Passes
    <3>2. SameWait(screen'[t], screen[t])
      BY <2>1, <2>4 DEF SameWait
    <3> QED BY <1>2, <3>1, <3>2, StaysStuck
  <2> QED BY <1>6, <2>2, <2>3, <2>4
<1>7. ASSUME NEW d \in Device, ClubDeliver(d) \/ (ClubKill(d) /\ HostOf[t] # d)
      PROVE  Settled(t, screen'[t]) /\ StuckIsOutdated(t)'
  <2>1. screen'[t] = screen[t] /\ Spares(HostOf[t], ClubLink(t))
    BY <1>7 DEF ClubDeliver, ClubKill, Spares, Passes
  <2> QED BY <1>2, <2>1, StaysStuck DEF SameWait
<1>8. ASSUME NEW d \in Device, ClubKill(d), HostOf[t] = d
      PROVE  Settled(t, screen'[t]) /\ StuckIsOutdated(t)'
  <2>1. screen'[t] = Closed
    BY <1>8 DEF ClubKill
  <2>2. Closed.phase = "closed"
    BY DEF Closed
  <2> QED BY <2>1, <2>2 DEF Settled, StuckIsOutdated, Stuck, Shown
<1>9. CASE ClubNext
  BY <1>5, <1>6, <1>7, <1>8, <1>9, InfoKills DEF ClubNext, LookSteps
<1> QED BY <1>4, <1>9

LEMMA ReturnInit == ClubInit => ReturnInv
<1> SUFFICES ASSUME ClubInit PROVE ReturnInv
  OBVIOUS
<1>1. \A s \in Screen : screen[s].phase = "closed"
  BY DEF ClubInit, Closed
<1> QED BY <1>1, CurrentInit DEF ReturnInv, Settled, StuckIsOutdated, Stuck, Shown

(* Where every phone has an account of its own, a screen that waits for    *)
(* nothing has its button back, unless its club was left behind it.        *)
THEOREM ButtonsReturn == OwnPhones => (ClubSpec => []ButtonReturns)
<1> SUFFICES ASSUME OwnPhones PROVE ClubSpec => []ButtonReturns
  OBVIOUS
<1>1. ReturnInv /\ [ClubNext]_clubVars => ReturnInv'
  BY ReturnStep
<1>2. ReturnInv => ButtonReturns
  <2> SUFFICES ASSUME ReturnInv, NEW s \in Screen, Shown(s),
                      screen[s].adminReads = 0, screen[s].memberReads = 0
               PROVE  /\ ~screen[s].hidden \/ Outdated(s)
                      /\ screen[s].analytics <=> screen[s].isAdmin
    BY DEF ButtonReturns
  <2>1. Settled(s, screen[s]) /\ StuckIsOutdated(s) /\ screen[s].phase # "closed"
    BY DEF ReturnInv, Shown
  <2> QED BY <2>1 DEF Settled, StuckIsOutdated, Stuck, Waits, Outdated, Found
<1> QED BY <1>1, <1>2, ReturnInit, PTL DEF ClubSpec
=============================================================================
