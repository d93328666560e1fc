------------------------------- MODULE CheckIn -------------------------------
(***************************************************************************)
(* From the form of CreateClubEventViewController and the code that        *)
(* QRCodeViewController shows, over the scanner of CameraViewController    *)
(* and the prompt of the club screen, to EventsTableViewController and     *)
(* EventViewController, which list a club's events and one's own.  The     *)
(* code of an event can be scanned from the moment it is shown, also while *)
(* the event's fields still wait in the queue of the phone it was created  *)
(* on.  A list stops the app when it meets an event without its fields;    *)
(* its rows are only ever appended to and have no state here.  Of a        *)
(* phone's stacked screens the latest club screen and the latest camera    *)
(* are kept.  For events without a date see Feed.                          *)
(***************************************************************************)
EXTENDS Links

CONSTANTS AccountOf,     \* [Device -> User], who is signed in where
          ClubOf,        \* [Event -> Club]
          NoClub, NoEvent

ASSUME AccountAssumption == AccountOf \in [Device -> User]
ASSUME ClubOfAssumption == ClubOf \in [Event -> Club]
ASSUME NoneAssumption == NoClub \notin Club /\ NoEvent \notin Event

VARIABLES made,      \* events whose code was shown; childByAutoId never repeats a key
          phone,     \* [Device -> PhoneState]
          early,     \* history: events confirmed before their fields had arrived
          offered    \* history: <<u, e>>: a screen opened by e's code prompted u

checkInVars == <<tree, pending, sent, wanted, torn, made, phone, early, offered>>

PhoneState ==
    [segued : BOOLEAN,                      \* of the camera
     scanned : Event \cup {NoEvent},        \* ClubEventKey of the camera
     club : Club \cup {NoClub},             \* ClubKey of the club screen
     ClubEventKey : Event \cup {NoEvent},   \* of the club screen; NoEvent: not from the camera
     prompt : BOOLEAN]

Fresh ==
    [segued |-> FALSE, scanned |-> NoEvent, club |-> NoClub,
     ClubEventKey |-> NoEvent, prompt |-> FALSE]

-----------------------------------------------------------------------------
(* An event's node is the fields its creator typed and its members.        *)
Fields(e) == [root |-> "events", of |-> e, list |-> "fields", key |-> e]
Attended(u, e) == [kind |-> "event", user |-> u, key |-> e]
EventNode(e) == {Fields(e)} \cup {Far(Attended(u, e)) : u \in User}

CheckInLeaf == Leaf \cup UNION {EventNode(e) : e \in Event}

Me(d) == AccountOf[d]

(* The event's own write has not reached every reader: it waits on another *)
(* phone, or d does not see the fields at all.                             *)
Premature(d, e) ==
    \/ ~Sees(d, Fields(e))
    \/ \E x \in Device \ {d} : Covered(pending[x], Fields(e))

CheckInInit ==
    /\ wanted = {} /\ torn = {}
    /\ tree = FoundedLeaves
    /\ pending = [d \in Device |-> <<>>]
    /\ sent = [d \in Device |-> 0]
    /\ made = {} /\ early = {} /\ offered = {}
    /\ phone = [d \in Device |-> Fresh]

-----------------------------------------------------------------------------
(* A club screen opened from a list.                                       *)
OpenClub(d, c) ==
    /\ ~phone[d].prompt /\ phone[d].club = NoClub
    /\ phone' = [phone EXCEPT ![d].club = c]
    /\ UNCHANGED <<vars, made, early, offered>>

(* Back.  A camera that Cancel presented, and what it shows, has no Back.  *)
Return(d) ==
    /\ ~phone[d].prompt /\ phone[d].club # NoClub
    /\ phone[d].ClubEventKey = NoEvent \/ phone[d].segued
    /\ phone' = [phone EXCEPT ![d] = [@ EXCEPT !.club = NoClub, !.ClubEventKey = NoEvent]]
    /\ UNCHANGED <<vars, made, early, offered>>

(* Mutants: the node is set somewhere else; the key is that of an event    *)
(* which is there already.                                                 *)
AddNewEvent_Elsewhere(d, e) ==
    /\ ~phone[d].prompt /\ phone[d].club = ClubOf[e] /\ <<Me(d), ClubOf[e]>> \in Founded
    /\ e \notin made
    /\ Submit(d, <<Overwrite(EventNode(e), {[Fields(e) EXCEPT !.root = "clubs"]})>>)
    /\ made' = made \cup {e}
    /\ UNCHANGED <<linkVars, phone, early, offered>>
AddNewEvent_OldKey(d, e) ==
    /\ ~phone[d].prompt /\ phone[d].club = ClubOf[e] /\ <<Me(d), ClubOf[e]>> \in Founded
    /\ Submit(d, <<Overwrite(EventNode(e), {Fields(e)})>>)
    /\ made' = made \cup {e}
    /\ UNCHANGED <<linkVars, phone, early, offered>>

(* addNewEvent on the form an admin reaches from his club's screen: a new  *)
(* key, the node, and on to the screen that shows the code.                *)
AddNewEvent(d, e) ==
    /\ ~phone[d].prompt /\ phone[d].club = ClubOf[e] /\ <<Me(d), ClubOf[e]>> \in Founded
    /\ e \notin made
    /\ Submit(d, <<Overwrite(EventNode(e), {Fields(e)})>>)
    /\ made' = made \cup {e}
    /\ UNCHANGED <<linkVars, phone, early, offered>>

(* signIn: the running camera notes every code, the first opens the screen *)
(* of its club, which prompts as it appears.                               *)
Scan(d, e) ==
    /\ ~phone[d].prompt /\ e \in made
    /\ IF phone[d].segued
       THEN /\ phone' = [phone EXCEPT ![d].scanned = e]
            /\ UNCHANGED offered
       ELSE /\ phone' = [phone EXCEPT ![d] = [@ EXCEPT !.scanned = e, !.segued = TRUE, !.club = ClubOf[e],
                                                      !.ClubEventKey = e, !.prompt = TRUE]]
            /\ offered' = offered \cup {<<Me(d), e>>}
    /\ UNCHANGED <<vars, made, early>>

(* viewDidAppear once more, after a screen above this one.                 *)
Reappear(d) ==
    /\ ~phone[d].prompt /\ phone[d].ClubEventKey # NoEvent
    /\ phone' = [phone EXCEPT ![d].prompt = TRUE]
    /\ UNCHANGED <<vars, made, early, offered>>

Confirms(d, e) ==
    /\ phone' = [phone EXCEPT ![d].prompt = FALSE]
    /\ early' = IF Premature(d, e) THEN early \cup {e} ELSE early
    /\ UNCHANGED <<made, offered>>

(* Mutants: the camera's latest code; the node is set, not updated.        *)
Confirm_Camera(d) ==
    /\ phone[d].prompt /\ phone[d].scanned # NoEvent
    /\ Attach(d, Attended(Me(d), phone[d].scanned))
    /\ Confirms(d, phone[d].scanned)
Confirm_Sets(d) ==
    /\ phone[d].prompt
    /\ LET l == Attended(Me(d), phone[d].ClubEventKey)
       IN  /\ Submit(d, <<Overwrite(EventNode(l.key), {Far(l)}), Update(Near(l))>>)
           /\ wanted' = wanted \cup {l}
           /\ Judge(d, l)
    /\ Confirms(d, phone[d].ClubEventKey)

(* Confirm on the prompt: the two writes of a check-in.                    *)
Confirm(d) ==
    /\ phone[d].prompt
    /\ Attach(d, Attended(Me(d), phone[d].ClubEventKey))
    /\ Confirms(d, phone[d].ClubEventKey)

(* Cancel presents another camera, which has seen nothing yet.             *)
Cancel(d) ==
    /\ phone[d].prompt
    /\ phone' = [phone EXCEPT ![d] = [@ EXCEPT !.prompt = FALSE, !.segued = FALSE, !.scanned = NoEvent]]
    /\ UNCHANGED <<vars, made, early, offered>>

-----------------------------------------------------------------------------
(* The app dies, and is started again sooner or later.                     *)
Dies(d) ==
    /\ Kill(d)
    /\ phone' = [phone EXCEPT ![d] = Fresh]

CheckInKill(d) ==
    /\ Dies(d)
    /\ UNCHANGED <<made, early, offered>>

(* Any other code has no second part, which signIn takes for granted.      *)
ScanForeign(d) ==
    /\ ~phone[d].prompt
    /\ Dies(d)
    /\ UNCHANGED <<made, early, offered>>

(* childAdded below the club's events, in the table on its screen: a row,  *)
(* or no name to unwrap.                                                   *)
TableAdded(d, e) ==
    /\ phone[d].club = ClubOf[e]
    /\ \E p \in EventNode(e) : Sees(d, p)
    /\ ~Sees(d, Fields(e))
    /\ Dies(d)
    /\ UNCHANGED <<made, early, offered>>

(* childAdded below one's own events and the look-up of the event: a row,  *)
(* or no fields to unwrap.                                                 *)
OwnAdded(d, e) ==
    /\ Sees(d, Near(Attended(Me(d), e)))
    /\ ~Sees(d, Fields(e))
    /\ Dies(d)
    /\ UNCHANGED <<made, early, offered>>

CheckInDeliver(d) == Deliver(d) /\ UNCHANGED <<made, phone, early, offered>>

CheckInNext ==
    \E d \in Device :
        \/ Return(d) \/ Reappear(d) \/ Confirm(d) \/ Cancel(d)
        \/ \E c \in Club : OpenClub(d, c)
        \/ \E e \in Event :
             \/ AddNewEvent(d, e) \/ Scan(d, e)
             \/ TableAdded(d, e) \/ OwnAdded(d, e)
        \/ ScanForeign(d) \/ CheckInDeliver(d) \/ CheckInKill(d)

CheckInSpec == CheckInInit /\ [][CheckInNext]_checkInVars

-----------------------------------------------------------------------------
(* Variables stay within their type.                                       *)
CheckInTypeOK ==
    /\ tree \subseteq CheckInLeaf
    /\ \A d \in Device : /\ \A i \in 1..Len(pending[d]) :
                              /\ pending[d][i].drop \subseteq CheckInLeaf
                              /\ pending[d][i].put \subseteq pending[d][i].drop
                         /\ sent[d] \in 0..Len(pending[d])
    /\ wanted \subseteq Link /\ torn \subseteq Link
    /\ phone \in [Device -> PhoneState]
    /\ early \subseteq made /\ made \subseteq Event
    /\ offered \subseteq User \X made

(* A check-in stands: however the event's own write is repeated, and       *)
(* whoever else checks in, both lists hold it once its writes have landed, *)
(* unless a kill or a second phone tore it, or somebody confirmed before   *)
(* the event's fields had arrived.                                         *)
AttendanceStands ==
    \A l \in wanted \ torn : l.key \notin early /\ AllLanded(l) => Halves(l) \subseteq tree

(* No list meets an event without its fields, on any phone, unless         *)
(* somebody confirmed too early: neither through the members that others   *)
(* add to its node nor through its key below a user.                       *)
EventsAreWhole ==
    \A e \in Event \ early : \A d \in Device :
        (\E p \in EventNode(e) \cup {Near(Attended(u, e)) : u \in User} : Sees(d, p))
            => Sees(d, Fields(e))

(* Whoever is recorded at an event was prompted for it by a screen that    *)
(* its code had opened, although the camera goes on noting other codes     *)
(* behind that screen.                                                     *)
AsPrompted == \A l \in wanted : <<l.user, l.key>> \in offered
=============================================================================
