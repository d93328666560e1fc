----------------------------- MODULE CheckInProofs -----------------------------
(***************************************************************************)
(* Check-ins, for every number of phones, users, clubs and events and for  *)
(* every length of the write queues.                                       *)
(***************************************************************************)
EXTENDS CheckIn, DatabaseProofs

-----------------------------------------------------------------------------
(* Leaves.                                                                 *)

(* Everything that speaks of event e.                                      *)
Told(e) == EventNode(e) \cup {Near(Attended(u, e)) : u \in User}

LEMMA ToldRecords ==
    ASSUME NEW u, NEW e
    PROVE  /\ Near(Attended(u, e)) = [root |-> "users", of |-> u, list |-> "events", key |-> e]
           /\ Far(Attended(u, e)) = [root |-> "events", of |-> e, list |-> "members", key |-> u]
           /\ Fields(e) = [root |-> "events", of |-> e, list |-> "fields", key |-> e]
           /\ Attended(u, e).kind = "event"
           /\ Attended(u, e).user = u /\ Attended(u, e).key = e
BY DEF Near, Far, Attended, Fields, NearList, FarRoot, FarList

LEMMA AttendedIsLink ==
    ASSUME NEW u \in User, NEW e \in Event
    PROVE  Attended(u, e) \in Link
BY DEF Attended, Link

LEMMA ToldLeaves ==
    ASSUME NEW e \in Event
    PROVE  /\ Told(e) \subseteq CheckInLeaf
           /\ EventNode(e) \subseteq Told(e)
           /\ Fields(e) \in EventNode(e)
           /\ \A u \in User : Halves(Attended(u, e)) \subseteq Told(e)
<1>1. EventNode(e) \subseteq CheckInLeaf
  BY DEF CheckInLeaf
<1>2. \A u \in User : Halves(Attended(u, e)) \subseteq Leaf
  BY AttendedIsLink DEF Leaf
<1>3. \A u \in User : Near(Attended(u, e)) \in CheckInLeaf
  BY <1>2 DEF CheckInLeaf, Halves
<1>4. \A u \in User : Far(Attended(u, e)) \in EventNode(e)
  BY DEF EventNode
<1> QED BY <1>1, <1>3, <1>4 DEF Told, EventNode, Halves

(* No leaf speaks of two events.                                           *)
LEMMA ToldApart ==
    ASSUME NEW e \in Event, NEW f \in Event, e # f
    PROVE  Told(e) \cap Told(f) = {}
<1> SUFFICES ASSUME NEW p \in Told(e), p \in Told(f) PROVE FALSE
  OBVIOUS
<1>1. ASSUME NEW g \in {e, f}
      PROVE  p \in Told(g) => \/ p.root = "users" /\ p.key = g
                              \/ p.root = "events" /\ p.of = g
  BY ToldRecords DEF Told, EventNode
<1> QED BY <1>1

LEMMA FieldsApart ==
    ASSUME NEW e, NEW u, NEW f
    PROVE  Fields(e) \notin Halves(Attended(u, f))
BY ToldRecords DEF Halves

LEMMA FoundedApart ==
    ASSUME NEW e
    PROVE  FoundedLeaves \cap Told(e) = {}
<1> SUFFICES ASSUME NEW p \in FoundedLeaves, p \in Told(e) PROVE FALSE
  OBVIOUS
<1>1. p.root = "clubs" \/ (p.root = "users" /\ p.list = "admin_clubs")
  BY DEF FoundedLeaves, FoundingLeaves, AdminEntry
<1>2. p.root = "events" \/ (p.root = "users" /\ p.list = "events")
  BY ToldRecords DEF Told, EventNode
<1> QED BY <1>1, <1>2

-----------------------------------------------------------------------------
(* Types.  No write of the app clears an event's fields or takes an event  *)
(* out of a user's list, and only that of the fields clears the members.   *)

CheckInWrite ==
    {w \in [drop : SUBSET CheckInLeaf, put : SUBSET CheckInLeaf] :
        /\ w.put \subseteq w.drop
        /\ \A e \in Event : Fields(e) \in w.drop => Fields(e) \in w.put
        /\ \A u \in User, e \in Event :
              LET l == Attended(u, e)
              IN  /\ Near(l) \in w.drop => Near(l) \in w.put
                  /\ Far(l) \in w.drop => Far(l) \in w.put \/ Fields(e) \in w.drop}

(* A prompt is about an event whose code the phone's user was shown.       *)
PhoneSound(d) ==
    /\ phone[d].prompt => phone[d].ClubEventKey # NoEvent
    /\ phone[d].ClubEventKey # NoEvent => <<Me(d), phone[d].ClubEventKey>> \in offered

Typed ==
    /\ tree \subseteq CheckInLeaf
    /\ QueuesOf(CheckInWrite)
    /\ wanted \subseteq Link /\ torn \subseteq Link
    /\ phone \in [Device -> PhoneState]
    /\ early \subseteq made /\ made \subseteq Event
    /\ offered \subseteq User \X made
    /\ \A d \in Device : PhoneSound(d)

LEMMA TypedImplies == Typed => CheckInTypeOK
<1> SUFFICES ASSUME Typed PROVE CheckInTypeOK
  OBVIOUS
<1>1. ASSUME NEW d \in Device
      PROVE  /\ \A i \in 1..Len(pending[d]) : pending[d][i] \in CheckInWrite
             /\ sent[d] \in 0..Len(pending[d])
  BY DEF Typed, QueuesOf
<1> QED BY <1>1 DEF CheckInTypeOK, Typed, CheckInWrite

(* What the prompt asks about.                                             *)
LEMMA Prompted ==
    ASSUME Typed, NEW d \in Device, phone[d].prompt
    PROVE  /\ phone[d].ClubEventKey \in Event /\ phone[d].ClubEventKey \in made
           /\ Me(d) \in User
           /\ <<Me(d), phone[d].ClubEventKey>> \in offered
<1>1. <<Me(d), phone[d].ClubEventKey>> \in offered
  BY DEF Typed, PhoneSound
<1> QED BY <1>1 DEF Typed

(* The two writes of Confirm.                                              *)
LEMMA ConfirmWrites ==
    ASSUME NEW u \in User, NEW e \in Event
    PROVE  LET ws == AttachWrites(Attended(u, e))
           IN  /\ ws \in Seq(CheckInWrite) /\ Len(ws) = 2
               /\ \A k \in 1..Len(ws) :
                     ws[k].put \subseteq Halves(Attended(u, e)) /\ ws[k].drop = ws[k].put
<1> DEFINE l == Attended(u, e)
<1>1. AttachWrites(l) = <<Update(Far(l)), Update(Near(l))>>
  BY ToldRecords DEF AttachWrites
<1>2. ASSUME NEW p \in Halves(l)
      PROVE  Update(p) \in CheckInWrite /\ Update(p).drop = {p} /\ Update(p).put = {p}
  BY ToldLeaves, FieldsApart DEF Update, CheckInWrite
<1>3. Far(l) \in Halves(l) /\ Near(l) \in Halves(l)
  BY DEF Halves
<1> DEFINE w1 == Update(Far(l))
           w2 == Update(Near(l))
           ws == AttachWrites(l)
<1>4. /\ w1 \in CheckInWrite /\ w1.put \subseteq Halves(l) /\ w1.drop = w1.put
      /\ w2 \in CheckInWrite /\ w2.put \subseteq Halves(l) /\ w2.drop = w2.put
  BY <1>2, <1>3
<1>5. ws = <<w1, w2>>
  BY <1>1
<1> HIDE DEF w1, w2, ws
<1>6. ws \in Seq(CheckInWrite) /\ Len(ws) = 2 /\ \A k \in 1..2 : ws[k] = w1 \/ ws[k] = w2
  BY <1>4, <1>5
<1> QED BY <1>4, <1>6 DEF ws

(* The one write of addNewEvent.                                           *)
LEMMA NewEventWrites ==
    ASSUME NEW e \in Event
    PROVE  LET ws == <<Overwrite(EventNode(e), {Fields(e)})>>
           IN  /\ ws \in Seq(CheckInWrite) /\ Len(ws) = 1
               /\ ws[1].drop = EventNode(e) /\ ws[1].put = {Fields(e)}
<1>1. ASSUME NEW f \in Event, Fields(f) \in EventNode(e)
      PROVE  Fields(f) = Fields(e)
  <2>1. Fields(f) \in Told(f) /\ Fields(f) \in Told(e)
    BY <1>1, ToldLeaves
  <2> QED BY <2>1, ToldApart
<1>2. ASSUME NEW u \in User, NEW f \in Event
      PROVE  /\ Near(Attended(u, f)) \notin EventNode(e)
             /\ Far(Attended(u, f)) \in EventNode(e) => f = e
  <2>1. Far(Attended(u, f)) \in Told(f)
    BY ToldLeaves DEF Halves
  <2>2. Far(Attended(u, f)) \in EventNode(e) => Far(Attended(u, f)) \in Told(e)
    BY ToldLeaves
  <2>3. \A p \in EventNode(e) : p.root = "events"
    BY ToldRecords DEF EventNode
  <2>4. Near(Attended(u, f)).root = "users"
    BY ToldRecords
  <2> QED BY <2>1, <2>2, <2>3, <2>4, ToldApart
<1>3. Overwrite(EventNode(e), {Fields(e)}) \in CheckInWrite
  BY <1>1, <1>2, ToldLeaves DEF Overwrite, CheckInWrite
<1> QED BY <1>3 DEF Overwrite

-----------------------------------------------------------------------------
(* Types are kept.                                                         *)

LEMMA TypedInit == CheckInInit => Typed
<1> SUFFICES ASSUME CheckInInit PROVE Typed
  OBVIOUS
<1>1. tree \subseteq CheckInLeaf
  BY DEF CheckInInit, CheckInLeaf, Leaf
<1>2. QueuesOf(CheckInWrite)
  BY EmptyQueues DEF CheckInInit
<1>3. Fresh \in PhoneState /\ Fresh.ClubEventKey = NoEvent /\ ~Fresh.prompt
  BY DEF Fresh, PhoneState
<1>4. /\ phone \in [Device -> PhoneState]
      /\ \A d \in Device : PhoneSound(d)
  BY <1>3 DEF CheckInInit, PhoneSound
<1>5. /\ wanted \subseteq Link /\ torn \subseteq Link
      /\ early \subseteq made /\ made \subseteq Event
      /\ offered \subseteq User \X made
  BY DEF CheckInInit
<1> QED BY <1>1, <1>2, <1>4, <1>5 DEF Typed

(* A step of one phone's screens: what it may do to the phone.             *)
LEMMA PhoneStep ==
    ASSUME Typed, NEW d \in Device, NEW r \in PhoneState,
           phone' = [phone EXCEPT ![d] = r],
           offered \subseteq offered',
           r.prompt => r.ClubEventKey # NoEvent,
           r.ClubEventKey # NoEvent => <<Me(d), r.ClubEventKey>> \in offered'
    PROVE  /\ phone' \in [Device -> PhoneState]
           /\ \A e \in Device : PhoneSound(e)'
<1>1. /\ phone' \in [Device -> PhoneState]
      /\ phone'[d] = r
      /\ \A e \in Device \ {d} : phone'[e] = phone[e]
  BY DEF Typed
<1>2. \A e \in Device : Me(e)' = Me(e)
  BY DEF Me
<1> QED BY <1>1, <1>2 DEF Typed, PhoneSound

(* The screens alone.                                                      *)
LEMMA ScreensTyped ==
    ASSUME Typed, NEW d \in Device,
           \/ \E c \in Club : OpenClub(d, c)
           \/ Return(d) \/ Reappear(d) \/ Cancel(d)
           \/ \E e \in Event : Scan(d, e)
    PROVE  Typed' /\ UNCHANGED vars /\ early' = early /\ offered \subseteq offered'
<1>1. phone[d] \in PhoneState /\ PhoneSound(d)
  BY DEF Typed
<1>2. /\ UNCHANGED vars /\ early' = early /\ made' = made
      /\ offered \subseteq offered' /\ offered' \subseteq User \X made
      /\ phone' \in [Device -> PhoneState]
      /\ \A e \in Device : PhoneSound(e)'
  <2>1. ASSUME NEW c \in Club, OpenClub(d, c)
        PROVE  <1>2
    <3> DEFINE r == [phone[d] EXCEPT !.club = c]
    <3>1. r \in PhoneState /\ r.prompt = phone[d].prompt /\ r.ClubEventKey = phone[d].ClubEventKey
      BY <1>1 DEF PhoneState
    <3>2. phone' = [phone EXCEPT ![d] = r] /\ offered' = offered
      BY <2>1 DEF OpenClub
    <3> HIDE DEF r
    <3>3. phone' \in [Device -> PhoneState] /\ \A e \in Device : PhoneSound(e)'
      BY <1>1, <3>1, <3>2, PhoneStep DEF PhoneSound
    <3> QED BY <2>1, <3>3 DEF OpenClub, Typed
  <2>2. ASSUME Return(d)
        PROVE  <1>2
    <3> DEFINE r == [phone[d] EXCEPT !.club = NoClub, !.ClubEventKey = NoEvent]
    <3>1. r \in PhoneState /\ r.ClubEventKey = NoEvent /\ r.prompt = phone[d].prompt
      BY <1>1 DEF PhoneState
    <3>2. phone' = [phone EXCEPT ![d] = r] /\ offered' = offered /\ ~phone[d].prompt
      BY <2>2 DEF Return
    <3> HIDE DEF r
    <3>3. phone' \in [Device -> PhoneState] /\ \A e \in Device : PhoneSound(e)'
      BY <1>1, <3>1, <3>2, PhoneStep DEF PhoneSound
    <3> QED BY <2>2, <3>3 DEF Return, Typed
  <2>3. ASSUME Reappear(d)
        PROVE  <1>2
    <3> DEFINE r == [phone[d] EXCEPT !.prompt = TRUE]
    <3>1. r \in PhoneState /\ r.ClubEventKey = phone[d].ClubEventKey
      BY <1>1 DEF PhoneState
    <3>2. /\ phone' = [phone EXCEPT ![d] = r] /\ offered' = offered
          /\ phone[d].ClubEventKey # NoEvent
      BY <2>3 DEF Reappear
    <3> HIDE DEF r
    <3>3. phone' \in [Device -> PhoneState] /\ \A e \in Device : PhoneSound(e)'
      BY <1>1, <3>1, <3>2, PhoneStep DEF PhoneSound
    <3> QED BY <2>3, <3>3 DEF Reappear, Typed
  <2>4. ASSUME Cancel(d)
        PROVE  <1>2
    <3> DEFINE r == [phone[d] EXCEPT !.prompt = FALSE, !.segued = FALSE, !.scanned = NoEvent]
    <3>1. r \in PhoneState /\ ~r.prompt /\ r.ClubEventKey = phone[d].ClubEventKey
      BY <1>1 DEF PhoneState
    <3>2. phone' = [phone EXCEPT ![d] = r] /\ offered' = offered
      BY <2>4 DEF Cancel
    <3> HIDE DEF r
    <3>3. phone' \in [Device -> PhoneState] /\ \A e \in Device : PhoneSound(e)'
      BY <1>1, <3>1, <3>2, PhoneStep DEF PhoneSound
    <3> QED BY <2>4, <3>3 DEF Cancel, Typed
  <2>5. ASSUME NEW e \in Event, Scan(d, e), phone[d].segued
        PROVE  <1>2
    <3> DEFINE r == [phone[d] EXCEPT !.scanned = e]
    <3>1. r \in PhoneState /\ r.prompt = phone[d].prompt /\ r.ClubEventKey = phone[d].ClubEventKey
      BY <1>1 DEF PhoneState
    <3>2. phone' = [phone EXCEPT ![d] = r] /\ offered' = offered
      BY <2>5 DEF Scan
    <3> HIDE DEF r
    <3>3. phone' \in [Device -> PhoneState] /\ \A x \in Device : PhoneSound(x)'
      BY <1>1, <3>1, <3>2, PhoneStep DEF PhoneSound
    <3> QED BY <2>5, <3>2, <3>3 DEF Scan, Typed
  <2>6. ASSUME NEW e \in Event, Scan(d, e), ~phone[d].segued
        PROVE  <1>2
    <3> DEFINE r == [phone[d] EXCEPT !.scanned = e, !.segued = TRUE, !.club = ClubOf[e],
                                     !.ClubEventKey = e, !.prompt = TRUE]
    <3>1. ClubOf[e] \in Club /\ Me(d) \in User /\ e \in made /\ e # NoEvent
      BY <2>6, ClubOfAssumption, AccountAssumption, NoneAssumption DEF Me, Scan
    <3>2. r \in PhoneState /\ r.ClubEventKey = e
      BY <1>1, <3>1 DEF PhoneState
    <3>3. phone' = [phone EXCEPT ![d] = r] /\ offered' = offered \cup {<<Me(d), e>>}
      BY <2>6 DEF Scan
    <3> HIDE DEF r
    <3>4. phone' \in [Device -> PhoneState] /\ \A x \in Device : PhoneSound(x)'
      BY <3>1, <3>2, <3>3, PhoneStep
    <3>5. offered \subseteq offered' /\ offered' \subseteq User \X made
      BY <3>1, <3>3 DEF Typed
    <3>6. UNCHANGED vars /\ early' = early /\ made' = made
      BY <2>6 DEF Scan
    <3> QED BY <3>4, <3>5, <3>6
  <2> QED BY <2>1, <2>2, <2>3, <2>4, <2>5, <2>6
<1>3. QueuesOf(CheckInWrite)'
  BY <1>2 DEF Typed, QueuesOf, vars
<1> QED BY <1>2, <1>3 DEF Typed, vars

LEMMA AddNewEventTyped ==
    ASSUME Typed, NEW d \in Device, NEW e \in Event, AddNewEvent(d, e)
    PROVE  Typed'
<1> DEFINE ws == <<Overwrite(EventNode(e), {Fields(e)})>>
<1>1. ws \in Seq(CheckInWrite)
  BY NewEventWrites
<1>2. Submit(d, ws) /\ made' = made \cup {e} /\ UNCHANGED <<wanted, torn, phone, early, offered>>
  BY DEF AddNewEvent, linkVars
<1> HIDE DEF ws
<1>3. QueuesOf(CheckInWrite)' /\ tree' = tree
  BY <1>1, <1>2, SubmitQueue DEF Typed
<1>4. \A x \in Device : PhoneSound(x)'
  BY <1>2 DEF Typed, PhoneSound, Me
<1> QED BY <1>2, <1>3, <1>4 DEF Typed

(* Confirm, spelled out.                                                   *)
LEMMA ConfirmStep ==
    ASSUME Typed, NEW d \in Device, Confirm(d)
    PROVE  LET e == phone[d].ClubEventKey
               l == Attended(Me(d), e)
           IN  /\ e \in made /\ e \in Event /\ Me(d) \in User /\ <<Me(d), e>> \in offered
               /\ AttachWrites(l) \in Seq(CheckInWrite)
               /\ Submit(d, AttachWrites(l))
               /\ wanted' = wanted \cup {l} /\ l \in Link
               /\ torn' \subseteq torn \cup {l}
               /\ phone' = [phone EXCEPT ![d].prompt = FALSE]
               /\ early' = IF Premature(d, e) THEN early \cup {e} ELSE early
               /\ UNCHANGED <<made, offered>>
<1> DEFINE e == phone[d].ClubEventKey
           l == Attended(Me(d), e)
<1>1. e \in made /\ e \in Event /\ Me(d) \in User /\ <<Me(d), e>> \in offered
  BY Prompted DEF Confirm
<1>2. l \in Link
  BY <1>1, AttendedIsLink
<1>3. AttachWrites(l) \in Seq(CheckInWrite)
  BY <1>1, ConfirmWrites
<1>4. Attach(d, l) /\ Confirms(d, e)
  BY DEF Confirm
<1> HIDE DEF e, l
<1>5. /\ Submit(d, AttachWrites(l))
      /\ wanted' = wanted \cup {l}
      /\ torn' \subseteq torn \cup {l}
      /\ phone' = [phone EXCEPT ![d].prompt = FALSE]
      /\ early' = IF Premature(d, e) THEN early \cup {e} ELSE early
      /\ UNCHANGED <<made, offered>>
  BY <1>4 DEF Attach, Confirms, Judge
<1> QED BY <1>1, <1>2, <1>3, <1>5 DEF e, l

LEMMA ConfirmTyped ==
    ASSUME Typed, NEW d \in Device, Confirm(d)
    PROVE  Typed'
<1> DEFINE e == phone[d].ClubEventKey
           l == Attended(Me(d), e)
           r == [phone[d] EXCEPT !.prompt = FALSE]
<1>1. /\ e \in made
      /\ AttachWrites(l) \in Seq(CheckInWrite) /\ Submit(d, AttachWrites(l))
      /\ wanted' = wanted \cup {l} /\ l \in Link
      /\ torn' \subseteq torn \cup {l}
      /\ phone' = [phone EXCEPT ![d] = r]
      /\ early' \subseteq early \cup {e}
      /\ UNCHANGED <<made, offered>>
  BY ConfirmStep
<1>2. phone[d] \in PhoneState /\ PhoneSound(d)
  BY DEF Typed
<1>3. r \in PhoneState /\ ~r.prompt /\ r.ClubEventKey = phone[d].ClubEventKey
  BY <1>2 DEF PhoneState
<1> HIDE DEF r, l
<1>4. phone' \in [Device -> PhoneState] /\ \A x \in Device : PhoneSound(x)'
  BY <1>1, <1>2, <1>3, PhoneStep DEF PhoneSound
<1>5. QueuesOf(CheckInWrite)' /\ tree' = tree
  BY <1>1, SubmitQueue DEF Typed
<1>6. wanted' \subseteq Link /\ torn' \subseteq Link /\ early' \subseteq made'
  BY <1>1 DEF Typed
<1> QED BY <1>1, <1>4, <1>5, <1>6 DEF Typed

LEMMA DiesTyped ==
    ASSUME Typed, NEW d \in Device, Dies(d), UNCHANGED <<made, early, offered>>
    PROVE  Typed'
<1>1. QueuesOf(CheckInWrite)' /\ tree' = tree
  BY ForgetQueue DEF Typed, Dies, Kill
<1>2. wanted' \subseteq Link /\ torn' \subseteq Link
  BY DEF Typed, Dies, Kill
<1>3. Fresh \in PhoneState /\ Fresh.ClubEventKey = NoEvent /\ ~Fresh.prompt
  BY DEF Fresh, PhoneState
<1>4. phone' = [phone EXCEPT ![d] = Fresh]
  BY DEF Dies
<1>5. phone' \in [Device -> PhoneState] /\ \A x \in Device : PhoneSound(x)'
  BY <1>3, <1>4, PhoneStep
<1> QED BY <1>1, <1>2, <1>5 DEF Typed

LEMMA DeliverTyped ==
    ASSUME Typed, NEW d \in Device, CheckInDeliver(d)
    PROVE  Typed'
<1>1. QueuesOf(CheckInWrite) /\ UNCHANGED <<wanted, torn, made, phone, early, offered>>
  BY DEF Typed, CheckInDeliver, Deliver, linkVars
<1>2. QueuesOf(CheckInWrite)' /\ tree' \subseteq CheckInLeaf
  <2>1. CASE Serve(d)
    <3>1. /\ QueuesOf(CheckInWrite)'
          /\ sent[d] + 1 \in 1..Len(pending[d])
          /\ tree' = Applied(tree, pending[d][sent[d] + 1])
      BY <1>1, <2>1, ServeQueue
    <3>2. pending[d][sent[d] + 1] \in CheckInWrite
      BY <1>1, <3>1 DEF QueuesOf
    <3> QED BY <3>1, <3>2 DEF Typed, Applied, CheckInWrite
  <2>2. CASE Ack(d)
    BY <1>1, <2>2, AckQueue DEF Typed
  <2>3. CASE Resend(d)
    BY <1>1, <2>3, ResendQueue DEF Typed
  <2> QED BY <2>1, <2>2, <2>3 DEF CheckInDeliver, Deliver
<1>3. \A x \in Device : PhoneSound(x)'
  BY <1>1 DEF Typed, PhoneSound, Me
<1> QED BY <1>1, <1>2, <1>3 DEF Typed

-----------------------------------------------------------------------------
(* Steps.                                                                  *)

LEMMA CheckInCases ==
    ASSUME CheckInNext
    PROVE  \E d \in Device :
              \/ \/ \E c \in Club : OpenClub(d, c)
                 \/ Return(d) \/ Reappear(d) \/ Cancel(d)
                 \/ \E e \in Event : Scan(d, e)
              \/ \E e \in Event : AddNewEvent(d, e)
              \/ Confirm(d)
              \/ Dies(d) /\ UNCHANGED <<made, early, offered>>
              \/ CheckInDeliver(d)
BY DEF CheckInNext, CheckInKill, ScanForeign, TableAdded, OwnAdded

LEMMA TypedStep == Typed /\ [CheckInNext]_checkInVars => Typed'
<1> SUFFICES ASSUME Typed, [CheckInNext]_checkInVars PROVE Typed'
  OBVIOUS
<1>1. CASE UNCHANGED checkInVars
  BY <1>1 DEF Typed, QueuesOf, PhoneSound, Me, checkInVars
<1>2. CASE CheckInNext
  BY <1>2, CheckInCases, ScreensTyped, AddNewEventTyped, ConfirmTyped, DiesTyped, DeliverTyped
<1> QED BY <1>1, <1>2

(* Screens, queues and lists keep their types.                             *)
THEOREM CheckInTypeCorrect == CheckInSpec => []CheckInTypeOK
<1>1. CheckInInit => Typed
  BY TypedInit
<1>2. Typed /\ [CheckInNext]_checkInVars => Typed'
  BY TypedStep
<1>3. Typed => CheckInTypeOK
  BY TypedImplies
<1> QED BY <1>1, <1>2, <1>3, PTL DEF CheckInSpec

-----------------------------------------------------------------------------
(* Prompts.                                                                *)

LEMMA PromptedStep == Typed /\ AsPrompted /\ [CheckInNext]_checkInVars => AsPrompted'
<1> SUFFICES ASSUME Typed, AsPrompted, [CheckInNext]_checkInVars PROVE AsPrompted'
  OBVIOUS
<1>1. CASE UNCHANGED checkInVars
  BY <1>1 DEF AsPrompted, checkInVars
<1>2. ASSUME NEW d \in Device, Confirm(d)
      PROVE  AsPrompted'
  <2> DEFINE e == phone[d].ClubEventKey
             l == Attended(Me(d), e)
  <2>1. /\ <<Me(d), e>> \in offered /\ offered' = offered
        /\ wanted' = wanted \cup {l}
    BY <1>2, ConfirmStep
  <2>2. l.user = Me(d) /\ l.key = e
    BY ToldRecords
  <2> HIDE DEF l, e
  <2> QED BY <2>1, <2>2 DEF AsPrompted
<1>3. ASSUME NEW d \in Device,
             \/ \E c \in Club : OpenClub(d, c)
             \/ Return(d) \/ Reappear(d) \/ Cancel(d)
             \/ \E e \in Event : Scan(d, e)
      PROVE  AsPrompted'
  BY <1>3, ScreensTyped DEF AsPrompted, vars
<1>4. ASSUME NEW d \in Device,
             \/ \E e \in Event : AddNewEvent(d, e)
             \/ Dies(d) /\ UNCHANGED <<made, early, offered>>
             \/ CheckInDeliver(d)
      PROVE  AsPrompted'
  <2>1. wanted' = wanted /\ offered' = offered
    BY <1>4 DEF AddNewEvent, Dies, Kill, CheckInDeliver, Deliver, linkVars
  <2> QED BY <2>1 DEF AsPrompted
<1> QED BY <1>1, <1>2, <1>3, <1>4, CheckInCases

(* Whoever is recorded at an event was prompted for that event, by a       *)
(* screen that its code had opened for him, whatever codes his camera went *)
(* on to see.                                                              *)
THEOREM OnlyPromptedAttend == CheckInSpec => []AsPrompted
<1>1. CheckInInit => Typed /\ AsPrompted
  BY TypedInit DEF CheckInInit, AsPrompted
<1>2. Typed /\ [CheckInNext]_checkInVars => Typed'
  BY TypedStep
<1>3. Typed /\ AsPrompted /\ [CheckInNext]_checkInVars => AsPrompted'
  BY PromptedStep
<1> QED BY <1>1, <1>2, <1>3, PTL DEF CheckInSpec

-----------------------------------------------------------------------------
(* Whole events.                                                           *)

(* Unless somebody confirmed early, whatever speaks of an event comes      *)
(* after its fields: on the server, and in every queue.                    *)
WholeInv == \A e \in Event \ early : Guarded(Told(e), {Fields(e)})

LEMMA WholeInit == CheckInInit => WholeInv
<1> SUFFICES ASSUME CheckInInit, NEW e \in Event PROVE Guarded(Told(e), {Fields(e)})
  BY DEF WholeInv
<1>1. tree \cap Told(e) = {}
  BY FoundedApart DEF CheckInInit
<1>2. \A d \in Device : 1..Len(pending[d]) = {}
  BY EmptyQueues DEF CheckInInit
<1> QED BY <1>1, <1>2, GuardedInit

(* addNewEvent: the fields come first because nothing else about the event *)
(* is in that write.                                                       *)
LEMMA AddNewEventWhole ==
    ASSUME Typed, WholeInv, NEW d \in Device, NEW e \in Event, AddNewEvent(d, e)
    PROVE  WholeInv'
<1> DEFINE ws == <<Overwrite(EventNode(e), {Fields(e)})>>
<1>1. /\ ws \in Seq(CheckInWrite) /\ Len(ws) = 1
      /\ ws[1].drop = EventNode(e) /\ ws[1].put = {Fields(e)}
  BY NewEventWrites
<1>2. Submit(d, ws) /\ early' = early
  BY DEF AddNewEvent
<1> HIDE DEF ws
<1>3. QueuesOf(CheckInWrite)
  BY DEF Typed
<1> SUFFICES ASSUME NEW f \in Event \ early PROVE Guarded(Told(f), {Fields(f)})'
  BY <1>2 DEF WholeInv
<1>4. Guarded(Told(f), {Fields(f)})
  BY DEF WholeInv
<1>5. CASE f = e
  <2>1. \A k \in 1..Len(ws) : \E j \in 1..k : {Fields(f)} \subseteq ws[j].put
    BY <1>1, <1>5
  <2>2. \A k \in 1..Len(ws) : ws[k].drop \cap {Fields(f)} \subseteq ws[k].put
    BY <1>1, <1>5
  <2>3. \A x \in Device : \A i \in 1..Len(pending[x]) :
           pending[x][i].drop \cap {Fields(f)} \subseteq pending[x][i].put
    BY <1>3, QueuedWrite DEF CheckInWrite
  <2> QED BY <1>2, <1>3, <1>4, <1>1, <2>1, <2>2, <2>3, GuardedSubmit
<1>6. CASE f # e
  <2>1. Told(e) \cap Told(f) = {}
    BY <1>6, ToldApart
  <2>2. \A k \in 1..Len(ws) : ws[k].put \cap Told(f) = {} /\ ws[k].drop \cap {Fields(f)} \subseteq ws[k].put
    BY <1>1, <2>1, ToldLeaves
  <2> QED BY <1>1, <1>2, <1>3, <1>4, <2>2, GuardedAside
<1> QED BY <1>5, <1>6

(* Confirm: who sees the fields has them stored or before him.             *)
LEMMA ConfirmWhole ==
    ASSUME Typed, WholeInv, NEW d \in Device, Confirm(d)
    PROVE  WholeInv'
<1> DEFINE e == phone[d].ClubEventKey
           l == Attended(Me(d), e)
           ws == AttachWrites(l)
<1>1. /\ e \in Event /\ Me(d) \in User
      /\ ws \in Seq(CheckInWrite) /\ Submit(d, ws)
      /\ early' = IF Premature(d, e) THEN early \cup {e} ELSE early
  BY ConfirmStep
<1>2. \A k \in 1..Len(ws) : ws[k].put \subseteq Halves(l) /\ ws[k].drop = ws[k].put
  BY <1>1, ConfirmWrites
<1>3. QueuesOf(CheckInWrite)
  BY DEF Typed
<1>4. Halves(l) \subseteq Told(e) /\ \A f : Fields(f) \notin Halves(l)
  BY <1>1, ToldLeaves, FieldsApart
<1> HIDE DEF e, l, ws
<1> SUFFICES ASSUME NEW f \in Event, f \notin early' PROVE Guarded(Told(f), {Fields(f)})'
  BY DEF WholeInv
<1>5. Guarded(Told(f), {Fields(f)})
  BY <1>1 DEF WholeInv
<1>6. \A k \in 1..Len(ws) : ws[k].drop \cap {Fields(f)} \subseteq ws[k].put
  BY <1>2
<1>7. CASE f = e
  <2>1. Sees(d, Fields(f))
    BY <1>1, <1>7 DEF Premature
  <2>2. Fields(f) \in Told(f)
    BY ToldLeaves
  <2>3. Fields(f) \in tree \/ \E i \in 1..Len(pending[d]) : Fields(f) \in pending[d][i].put
    BY <2>1, LatestPut DEF Sees
  <2>4. \/ {Fields(f)} \subseteq tree
        \/ \E j \in (sent[d] + 1)..Len(pending[d]) : {Fields(f)} \subseteq pending[d][j].put
    <3>1. CASE \E i \in 1..Len(pending[d]) : Fields(f) \in pending[d][i].put
      <4>1. PICK i \in 1..Len(pending[d]) : Fields(f) \in pending[d][i].put
        BY <3>1
      <4>2. \/ {Fields(f)} \subseteq tree
            \/ \E j \in (sent[d] + 1)..i : {Fields(f)} \subseteq pending[d][j].put
        BY <1>5, <2>2, <4>1 DEF Guarded
      <4>3. \A j \in (sent[d] + 1)..i : j \in (sent[d] + 1)..Len(pending[d])
        BY <1>3, <4>1 DEF QueuesOf
      <4> QED BY <4>2, <4>3
    <3> QED BY <2>3, <3>1
  <2>5. \A x \in Device : \A i \in 1..Len(pending[x]) :
           pending[x][i].drop \cap {Fields(f)} \subseteq pending[x][i].put
    BY <1>3, QueuedWrite DEF CheckInWrite
  <2> QED BY <1>1, <1>3, <1>5, <1>6, <2>4, <2>5, GuardedSubmit
<1>8. CASE f # e
  <2>1. Told(e) \cap Told(f) = {}
    BY <1>1, <1>8, ToldApart
  <2>2. \A k \in 1..Len(ws) : ws[k].put \cap Told(f) = {}
    BY <1>2, <1>4, <2>1
  <2> QED BY <1>1, <1>3, <1>5, <1>6, <2>2, GuardedAside
<1> QED BY <1>7, <1>8

LEMMA WholeStep == Typed /\ WholeInv /\ [CheckInNext]_checkInVars => WholeInv'
<1> SUFFICES ASSUME Typed, WholeInv, [CheckInNext]_checkInVars PROVE WholeInv'
  OBVIOUS
<1>1. ASSUME early' = early, UNCHANGED <<tree, pending, sent>>
      PROVE  WholeInv'
  BY <1>1, GuardedSteady DEF WholeInv
<1>2. CASE UNCHANGED checkInVars
  BY <1>1, <1>2 DEF checkInVars
<1>3. ASSUME NEW d \in Device,
             \/ \E c \in Club : OpenClub(d, c)
             \/ Return(d) \/ Reappear(d) \/ Cancel(d)
             \/ \E e \in Event : Scan(d, e)
      PROVE  WholeInv'
  BY <1>1, <1>3, ScreensTyped DEF vars
<1>4. ASSUME NEW d \in Device, Dies(d), early' = early
      PROVE  WholeInv'
  BY <1>4, GuardedForget DEF WholeInv, Typed, Dies, Kill
<1>5. ASSUME NEW d \in Device, CheckInDeliver(d)
      PROVE  WholeInv'
  <2>1. early' = early /\ QueuesOf(CheckInWrite) /\ (Serve(d) \/ Ack(d) \/ Resend(d))
    BY <1>5 DEF CheckInDeliver, Deliver, Typed
  <2> QED BY <2>1, GuardedServe, GuardedAck, GuardedResend DEF WholeInv
<1> QED BY <1>2, <1>3, <1>4, <1>5, CheckInCases, AddNewEventWhole, ConfirmWhole

LEMMA WholeImplies == Typed /\ WholeInv => EventsAreWhole
<1> SUFFICES ASSUME Typed, WholeInv, NEW e \in Event \ early, NEW d \in Device,
                    NEW p \in Told(e), Sees(d, p)
             PROVE  Sees(d, Fields(e))
  BY DEF EventsAreWhole, Told
<1>1. \A w \in CheckInWrite : w.put \subseteq w.drop
  BY DEF CheckInWrite
<1>2. QueuesOf(CheckInWrite) /\ Guarded(Told(e), {Fields(e)}) /\ Fields(e) \in {Fields(e)}
  BY DEF Typed, WholeInv
<1> QED BY <1>1, <1>2, GuardedSeen

(* No list meets an event without its fields, on any phone and through any *)
(* path, unless somebody confirmed before the fields had arrived.          *)
THEOREM WholeEvents == CheckInSpec => []EventsAreWhole
<1>1. CheckInInit => Typed /\ WholeInv
  BY TypedInit, WholeInit
<1>2. Typed /\ [CheckInNext]_checkInVars => Typed'
  BY TypedStep
<1>3. Typed /\ WholeInv /\ [CheckInNext]_checkInVars => WholeInv'
  BY WholeStep
<1>4. Typed /\ WholeInv => EventsAreWhole
  BY WholeImplies
<1> QED BY <1>1, <1>2, <1>3, <1>4, PTL DEF CheckInSpec

-----------------------------------------------------------------------------
(* Check-ins that stand.                                                   *)

(* Everybody recorded at an event was put there by a check-in, and both    *)
(* halves of it stay, unless it was torn or somebody confirmed early.      *)
StandsInv ==
    /\ \A l \in wanted : l.user \in User /\ l.key \in made /\ l = Attended(l.user, l.key)
    /\ \A l \in wanted \ torn : l.key \notin early => \A p \in Halves(l) : Kept(p)

(* addNewEvent: the key is new, so nobody has checked in.                  *)
LEMMA AddNewEventStands ==
    ASSUME Typed, StandsInv, NEW d \in Device, NEW e \in Event, AddNewEvent(d, e)
    PROVE  StandsInv'
<1> DEFINE ws == <<Overwrite(EventNode(e), {Fields(e)})>>
<1>1. /\ ws \in Seq(CheckInWrite) /\ Len(ws) = 1
      /\ ws[1].drop = EventNode(e)
  BY NewEventWrites
<1>2. /\ Submit(d, ws) /\ e \notin made
      /\ made' = made \cup {e} /\ UNCHANGED <<wanted, torn, early>>
  BY DEF AddNewEvent, linkVars
<1> HIDE DEF ws
<1>3. QueuesOf(CheckInWrite) /\ made \subseteq Event
  BY DEF Typed
<1>4. ASSUME NEW l \in wanted \ torn, l.key \notin early, NEW p \in Halves(l)
      PROVE  Kept(p)'
  <2>1. l.user \in User /\ l.key \in made /\ l = Attended(l.user, l.key) /\ Kept(p)
    BY <1>4 DEF StandsInv
  <2>2. p \in Told(l.key) /\ l.key \in Event /\ l.key # e
    BY <1>2, <1>3, <2>1, ToldLeaves
  <2>3. p \notin Told(e)
    BY <2>2, ToldApart
  <2>4. p \notin EventNode(e)
    BY <2>3, ToldLeaves
  <2>5. \A k \in 1..Len(ws) : p \notin ws[k].drop
    BY <1>1, <2>4
  <2> QED BY <1>1, <1>2, <1>3, <2>1, <2>5, KeptSubmit
<1> QED BY <1>2, <1>4 DEF StandsInv

(* Confirm: whoever sees the fields when no other phone has them under way *)
(* has their write before his own two, or nowhere.                         *)
LEMMA ConfirmStands ==
    ASSUME Typed, StandsInv, NEW d \in Device, Confirm(d)
    PROVE  StandsInv'
<1> DEFINE e == phone[d].ClubEventKey
           u == Me(d)
           l == Attended(u, e)
           ws == AttachWrites(l)
<1>1. /\ e \in Event /\ u \in User /\ e \in made
      /\ ws \in Seq(CheckInWrite) /\ Submit(d, ws)
      /\ wanted' = wanted \cup {l} /\ made' = made
      /\ early' = IF Premature(d, e) THEN early \cup {e} ELSE early
  BY ConfirmStep
<1>2. Len(ws) = 2 /\ \A k \in 1..Len(ws) : ws[k].put \subseteq Halves(l) /\ ws[k].drop = ws[k].put
  BY <1>1, ConfirmWrites
<1>3. \A p \in Halves(l) : \E k \in 1..Len(ws) : p \in ws[k].put
  <2>1. ws = <<Update(Far(l)), Update(Near(l))>>
    BY ToldRecords DEF AttachWrites
  <2>2. Len(ws) = 2 /\ ws[1] = Update(Far(l)) /\ ws[2] = Update(Near(l))
    BY <2>1
  <2>3. 1 \in 1..2 /\ 2 \in 1..2
    OBVIOUS
  <2> QED BY <2>2, <2>3 DEF Halves, Update
<1>4. torn' = torn \cup {l} \/ torn' = torn \ {l}
  BY DEF Confirm, Attach, Judge
<1>5. l.user = u /\ l.key = e
  BY ToldRecords
<1>6. QueuesOf(CheckInWrite)
  BY DEF Typed
<1>7. e \notin early' => \A p \in Halves(l) : \A x \in Device \ {d} : Refilled(x, p)
  <2> SUFFICES ASSUME e \notin early', NEW p \in Halves(l), NEW x \in Device \ {d},
                      NEW i \in 1..Len(pending[x]), p \in pending[x][i].drop
               PROVE  \E j \in i..Len(pending[x]) : p \in pending[x][j].put
    BY DEF Refilled
  <2>1. Fields(e) \notin pending[x][i].drop
    BY <1>1 DEF Premature, Covered
  <2>2. pending[x][i] \in CheckInWrite
    BY <1>6, QueuedWrite
  <2>3. p = Near(l) \/ p = Far(l)
    BY DEF Halves
  <2>4. p \in pending[x][i].put
    BY <1>1, <2>1, <2>2, <2>3 DEF CheckInWrite
  <2>5. i \in i..Len(pending[x])
    BY <1>6 DEF QueuesOf
  <2> QED BY <2>4, <2>5
<1> HIDE DEF ws, l, u, e
<1>8. \A p : \A k \in 1..Len(ws) : p \in ws[k].drop => \E j \in k..Len(ws) : p \in ws[j].put
  <2>1. \A k \in 1..Len(ws) : k \in k..Len(ws)
    BY <1>2
  <2> QED BY <1>2, <2>1
<1>9. ASSUME NEW m \in wanted', m \notin torn', m.key \notin early', NEW p \in Halves(m)
      PROVE  Kept(p)'
  <2>1. CASE m = l
    BY <1>1, <1>3, <1>5, <1>6, <1>7, <1>8, <1>9, <2>1, KeptPut
  <2>2. CASE m # l
    <3>1. m \in wanted \ torn /\ m.key \notin early
      BY <1>1, <1>4, <1>9, <2>2
    <3>2. Kept(p)
      BY <1>9, <3>1 DEF StandsInv
    <3> QED BY <1>1, <1>6, <1>8, <3>2, KeptSubmit
  <2> QED BY <2>1, <2>2
<1>10. \A m \in wanted' : m.user \in User /\ m.key \in made' /\ m = Attended(m.user, m.key)
  <2>1. l = Attended(l.user, l.key)
    BY <1>5 DEF l
  <2> QED BY <1>1, <1>5, <2>1 DEF StandsInv
<1> QED BY <1>9, <1>10 DEF StandsInv

(* A death tears what its phone was still writing, and leaves the rest.    *)
LEMMA DiesStands ==
    ASSUME Typed, StandsInv, NEW d \in Device, Dies(d), UNCHANGED <<made, early>>
    PROVE  StandsInv'
<1>1. /\ Forget(d) /\ wanted' = wanted
      /\ torn' = torn \cup {l \in Link : Tear(d, l)}
  BY DEF Dies, Kill
<1>2. QueuesOf(CheckInWrite) /\ wanted \subseteq Link /\ \A w \in CheckInWrite : w.put \subseteq w.drop
  BY DEF Typed, CheckInWrite
<1>3. ASSUME NEW l \in wanted, l \notin torn', l.key \notin early, NEW p \in Halves(l)
      PROVE  Kept(p)'
  <2>1. l \notin torn /\ Landed(d, p)
    BY <1>1, <1>2, <1>3 DEF Tear
  <2>2. Kept(p)
    BY <1>3, <2>1 DEF StandsInv
  <2> QED BY <1>1, <1>2, <2>1, <2>2, KeptForget
<1> QED BY <1>1, <1>3 DEF StandsInv

LEMMA StandsStep == Typed /\ StandsInv /\ [CheckInNext]_checkInVars => StandsInv'
<1> SUFFICES ASSUME Typed, StandsInv, [CheckInNext]_checkInVars PROVE StandsInv'
  OBVIOUS
<1>1. ASSUME UNCHANGED <<tree, pending, sent, wanted, torn, early>>, made \subseteq made'
      PROVE  StandsInv'
  BY <1>1, KeptSteady DEF StandsInv
<1>2. CASE UNCHANGED checkInVars
  BY <1>1, <1>2 DEF checkInVars
<1>3. ASSUME NEW d \in Device,
             \/ \E c \in Club : OpenClub(d, c)
             \/ Return(d) \/ Reappear(d) \/ Cancel(d)
             \/ \E e \in Event : Scan(d, e)
      PROVE  StandsInv'
  <2>1. made' = made
    BY <1>3 DEF OpenClub, Return, Reappear, Cancel, Scan
  <2> QED BY <1>1, <1>3, <2>1, ScreensTyped DEF vars
<1>4. ASSUME NEW d \in Device, CheckInDeliver(d)
      PROVE  StandsInv'
  <2>1. /\ QueuesOf(CheckInWrite) /\ (Serve(d) \/ Ack(d) \/ Resend(d))
        /\ UNCHANGED <<wanted, torn, made, early>>
    BY <1>4 DEF CheckInDeliver, Deliver, Typed, linkVars
  <2> QED BY <2>1, KeptServe, KeptAck, KeptResend DEF StandsInv
<1> QED BY <1>2, <1>3, <1>4, CheckInCases, AddNewEventStands, ConfirmStands, DiesStands

LEMMA StandsImplies == Typed /\ StandsInv => AttendanceStands
<1> SUFFICES ASSUME Typed, StandsInv, NEW l \in wanted \ torn, l.key \notin early, AllLanded(l),
                    NEW p \in Halves(l)
             PROVE  p \in tree
  BY DEF AttendanceStands
<1>1. Kept(p) /\ \A d \in Device : Landed(d, p)
  BY DEF StandsInv, AllLanded
<1>2. QueuesOf(CheckInWrite) /\ \A w \in CheckInWrite : w.put \subseteq w.drop
  BY DEF Typed, CheckInWrite
<1> QED BY <1>1, <1>2, KeptLanded

(* Once its writes have landed a check-in is in both lists, whatever is    *)
(* sent again, unless a kill or a race tore it or somebody confirmed the   *)
(* event early.                                                            *)
THEOREM CheckInsStand == CheckInSpec => []AttendanceStands
<1>1. CheckInInit => Typed /\ StandsInv
  BY TypedInit DEF CheckInInit, StandsInv
<1>2. Typed /\ [CheckInNext]_checkInVars => Typed'
  BY TypedStep
<1>3. Typed /\ StandsInv /\ [CheckInNext]_checkInVars => StandsInv'
  BY StandsStep
<1>4. Typed /\ StandsInv => AttendanceStands
  BY StandsImplies
<1> QED BY <1>1, <1>2, <1>3, <1>4, PTL DEF CheckInSpec
=============================================================================
