--------------------------------- MODULE Feed ---------------------------------
(***************************************************************************)
(* HomeViewController.swift: the feed of check-ins of the users one        *)
(* follows.  Every user who is followed gets an observer of his node; the  *)
(* observer reads every event in his list again at each change of the      *)
(* node, then his picture, and appends a row unless there is one of the    *)
(* same event name and user.  Observers are never removed.                 *)
(*                                                                         *)
(* Events come from CreateClubEventViewController: the code to scan is on  *)
(* the founder's screen whether or not the event's node has reached the    *)
(* server, and an event created without a date has no event_time.          *)
(***************************************************************************)
EXTENDS Integers, Sequences, FiniteSets, Functions

CONSTANTS User,         \* whom one may follow; they have a profile, since one
                        \* follows from a list that shows names
          Event,
          EventName, NameOf,   \* [Event -> EventName], event_name
          Undated,      \* events without event_time
          Attendees,    \* [Event -> SUBSET User], who may check in where
          MaxWatches,   \* bound on the observers, for TLC
          MaxReads      \* bound on the reads of one event for one user that are
                        \* running, with the downloads they led to, for TLC

ASSUME NameAssumption == NameOf \in [Event -> EventName]
ASSUME UndatedAssumption == Undated \subseteq Event
ASSUME AttendeesAssumption == Attendees \in [Event -> SUBSET User]
ASSUME BoundAssumption == MaxWatches \in Nat /\ MaxReads \in Nat

VARIABLES following,   \* the list, as this device sees it
          attends,     \* [User -> SUBSET Event], users/u/events
          stored,      \* events whose fields are on the server
          asking,      \* [User -> Nat], observers that wait for their first value
          watching,    \* [User -> Nat], observers that have had it
          reads,       \* [User \X Event -> Nat], reads of an event that are running
          pictures,    \* [User \X Event -> Nat], downloads that are running
          rows,        \* `events`: the rows
          event_names, \* user and event name of every row
          lost,        \* history: <<user, event>> one of whose downloads failed
          trap         \* what stopped the app: "none", "missing" or "undated"

feedVars == <<following, attends, stored, asking, watching, reads, pictures, rows, event_names,
              lost, trap>>

Pair == User \X Event
None == [p \in Pair |-> 0]
Live == trap = "none"

-----------------------------------------------------------------------------
FeedInit ==
    /\ following = {}
    /\ attends = [u \in User |-> {}]
    /\ stored \in SUBSET Event
    /\ asking = [u \in User |-> 0] /\ watching = [u \in User |-> 0]
    /\ reads = None /\ pictures = None
    /\ rows = <<>> /\ event_names = {}
    /\ lost = {}
    /\ trap = "none"

(* n observers of u are called with a node that lists events S.            *)
Called(u, S, n) ==
    /\ \A e \in S : reads[<<u, e>>] + pictures[<<u, e>>] + n <= MaxReads
    /\ reads' = [p \in Pair |-> IF p[1] = u /\ p[2] \in S THEN reads[p] + n ELSE reads[p]]

(* childAdded on following, at the start or on a tap on Follow.            *)
Follow(u) ==
    /\ Live
    /\ u \notin following
    /\ FoldFunction(+, 0, asking) + FoldFunction(+, 0, watching) < MaxWatches
    /\ following' = following \cup {u}
    /\ asking' = [asking EXCEPT ![u] = @ + 1]
    /\ UNCHANGED <<attends, stored, watching, reads, pictures, rows, event_names, lost, trap>>

(* Unfollow: the feed has no closure for it.                               *)
Unfollow(u) ==
    /\ u \in following
    /\ following' = following \ {u}
    /\ UNCHANGED <<attends, stored, asking, watching, reads, pictures, rows, event_names, lost, trap>>

(* The first value of an observer.                                         *)
FirstValue(u) ==
    /\ Live
    /\ asking[u] > 0
    /\ asking' = [asking EXCEPT ![u] = @ - 1]
    /\ watching' = [watching EXCEPT ![u] = @ + 1]
    /\ Called(u, attends[u], 1)
    /\ UNCHANGED <<following, attends, stored, pictures, rows, event_names, lost, trap>>

(* Mutant: childAdded on the events alone would have missed the change.    *)
CheckIn_Unseen(u, e) ==
    /\ Live
    /\ u \in Attendees[e] /\ e \notin attends[u]
    /\ attends' = [attends EXCEPT ![u] = @ \cup {e}]
    /\ UNCHANGED <<following, stored, asking, watching, reads, pictures, rows, event_names, lost, trap>>

(* User u confirms a check-in to e; every observer of u is called.         *)
CheckIn(u, e) ==
    /\ Live
    /\ u \in Attendees[e] /\ e \notin attends[u]
    /\ attends' = [attends EXCEPT ![u] = @ \cup {e}]
    /\ Called(u, attends'[u], watching[u])
    /\ UNCHANGED <<following, stored, asking, watching, pictures, rows, event_names, lost, trap>>

(* Any other change of u's node, a follower, a club or his profile, calls  *)
(* his observers as well.  (A profile edit clears his list: see Session.)  *)
Changed(u) ==
    /\ Live
    /\ Called(u, attends[u], watching[u])
    /\ UNCHANGED <<following, attends, stored, asking, watching, pictures, rows, event_names, lost, trap>>

(* addNewEvent's write reaches the server.                                 *)
Stored(e) ==
    /\ e \notin stored
    /\ stored' = stored \cup {e}
    /\ UNCHANGED <<following, attends, asking, watching, reads, pictures, rows, event_names, lost, trap>>

(* Mutants: the read ends and no download starts; the read is an observer. *)
EventReply_Skips(u, e) ==
    /\ Live
    /\ reads[<<u, e>>] > 0
    /\ reads' = [reads EXCEPT ![<<u, e>>] = @ - 1]
    /\ UNCHANGED <<following, attends, stored, asking, watching, pictures, rows, event_names, lost, trap>>
EventReply_Observes(u, e) ==
    /\ Live
    /\ reads' = [reads EXCEPT ![<<u, e>>] = @ - 1]
    /\ pictures' = [pictures EXCEPT ![<<u, e>>] = @ + 1]
    /\ UNCHANGED <<following, attends, stored, asking, watching, rows, event_names, lost, trap>>

(* An event arrives: if the node holds only the attendees `event_name!`    *)
(* stops the app, without a date `event_time!`; else the picture of the    *)
(* user is fetched.                                                        *)
EventReply(u, e) ==
    /\ Live
    /\ reads[<<u, e>>] > 0
    /\ reads' = [reads EXCEPT ![<<u, e>>] = @ - 1]
    /\ trap' = IF e \notin stored THEN "missing" ELSE IF e \in Undated THEN "undated" ELSE "none"
    /\ pictures' = IF trap' = "none" THEN [pictures EXCEPT ![<<u, e>>] = @ + 1] ELSE pictures
    /\ UNCHANGED <<following, attends, stored, asking, watching, rows, event_names, lost>>

(* Mutant: every picture makes a row.                                      *)
PictureReply_Again(u, e) ==
    /\ Live
    /\ pictures[<<u, e>>] > 0
    /\ Len(rows) < Cardinality(Pair)
    /\ pictures' = [pictures EXCEPT ![<<u, e>>] = @ - 1]
    /\ event_names' = event_names \cup {<<u, NameOf[e]>>}
    /\ rows' = Append(rows, [user |-> u, event |-> e])
    /\ UNCHANGED <<following, attends, stored, asking, watching, reads, lost, trap>>

(* The picture arrives; a name of this user that is listed is left alone.  *)
PictureReply(u, e) ==
    /\ Live
    /\ pictures[<<u, e>>] > 0
    /\ pictures' = [pictures EXCEPT ![<<u, e>>] = @ - 1]
    /\ event_names' = event_names \cup {<<u, NameOf[e]>>}
    /\ rows' = IF <<u, NameOf[e]>> \in event_names THEN rows
               ELSE Append(rows, [user |-> u, event |-> e])
    /\ UNCHANGED <<following, attends, stored, asking, watching, reads, lost, trap>>

PictureFails(u, e) ==
    /\ Live
    /\ pictures[<<u, e>>] > 0
    /\ pictures' = [pictures EXCEPT ![<<u, e>>] = @ - 1]
    /\ lost' = lost \cup {<<u, e>>}
    /\ UNCHANGED <<following, attends, stored, asking, watching, reads, rows, event_names, trap>>

FeedNext ==
    \/ \E u \in User : \/ Follow(u) \/ Unfollow(u) \/ FirstValue(u) \/ Changed(u)
                       \/ \E e \in Event : \/ CheckIn(u, e) \/ EventReply(u, e)
                                           \/ PictureReply(u, e) \/ PictureFails(u, e)
    \/ \E e \in Event : Stored(e)

FeedSpec == FeedInit /\ [][FeedNext]_feedVars

(* Reads and downloads are answered; nobody has to follow or check in.     *)
FeedFairSpec ==
    /\ FeedSpec
    /\ \A u \in User :
          /\ WF_feedVars(FirstValue(u))
          /\ \A e \in Event : /\ WF_feedVars(EventReply(u, e))
                              /\ WF_feedVars(PictureReply(u, e) \/ PictureFails(u, e))

-----------------------------------------------------------------------------
(* Variables stay within their type.                                       *)
FeedTypeOK ==
    /\ following \subseteq User
    /\ attends \in [User -> SUBSET Event] /\ stored \subseteq Event
    /\ asking \in [User -> Nat] /\ watching \in [User -> Nat]
    /\ reads \in [Pair -> Nat] /\ pictures \in [Pair -> Nat]
    /\ rows \in Seq([user : User, event : Event])
    /\ event_names \subseteq User \X EventName
    /\ lost \subseteq Pair
    /\ trap \in {"none", "missing", "undated"}

(* A check-in is listed once, although every change of a user's node looks *)
(* all his events up again and following him again adds an observer.       *)
FeedOnce ==
    \A i, j \in 1..Len(rows) :
        rows[i].user = rows[j].user /\ NameOf[rows[i].event] = NameOf[rows[j].event] => i = j

Shows(u, e) == \E i \in 1..Len(rows) : rows[i].user = u /\ NameOf[rows[i].event] = NameOf[e]

(* No check-in is missed: when nothing is under way for it, an event in    *)
(* the list of a user who is observed is in the feed by its name, unless   *)
(* his picture could not be had, whether the check-in came before, during  *)
(* or after the start of the observer.                                     *)
FeedComplete ==
    Live => \A u \in User, e \in Event :
        watching[u] > 0 /\ e \in attends[u] /\ reads[<<u, e>>] = 0 /\ pictures[<<u, e>>] = 0
            => Shows(u, e) \/ <<u, e>> \in lost

(* The check-ins of a followed user get into the feed.                     *)
FeedComes ==
    \A u \in User, e \in Event :
        u \in following /\ e \in attends[u] ~> (Shows(u, e) \/ <<u, e>> \in lost \/ ~Live)
=============================================================================
