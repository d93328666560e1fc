----------------------------- MODULE ScreenProofs -----------------------------
(***************************************************************************)
(* The screens that mix many answers.  The feed lists no check-in twice    *)
(* and misses none; the search opens what a row shows and is complete; the *)
(* charts count everybody; a table is its list.  For any number of users,  *)
(* events, entries, observers, searches, snapshots and answers under way.  *)
(*                                                                         *)
(* The screens share no state: each part is about one of the modules.      *)
(***************************************************************************)
EXTENDS Feed, Search, Analytics, LiveTable, FiniteSetTheorems, WellFoundedInduction, TLAPS

-----------------------------------------------------------------------------
(* Lists.                                                                  *)

(* A list with one more row.                                               *)
LEMMA OneMoreRow ==
    ASSUME NEW S, NEW s \in Seq(S), NEW r \in S
    PROVE  /\ Append(s, r) \in Seq(S)
           /\ Len(Append(s, r)) = Len(s) + 1
           /\ Append(s, r)[Len(s) + 1] = r
           /\ \A i \in 1..Len(s) : Append(s, r)[i] = s[i]
           /\ \A i \in 1..Len(Append(s, r)) : i = Len(s) + 1 \/ i \in 1..Len(s)
           /\ Len(s) \in Nat
<1>1. Len(s) \in Nat
  OBVIOUS
<1> QED BY <1>1

(* Two lists joined.                                                       *)
LEMMA Joined ==
    ASSUME NEW S, NEW a \in Seq(S), NEW b \in Seq(S)
    PROVE  /\ a \o b \in Seq(S)
           /\ Len(a \o b) = Len(a) + Len(b)
           /\ \A j \in 1..Len(a) : (a \o b)[j] = a[j]
<1>1. a \o b \in Seq(S)
  OBVIOUS
<1>2. Len(a \o b) = Len(a) + Len(b)
  OBVIOUS
<1>3. \A j \in 1..Len(a) : (a \o b)[j] = a[j]
  OBVIOUS
<1> QED BY <1>1, <1>2, <1>3

-----------------------------------------------------------------------------
(* Feed.                                                                   *)

(* The names the feed compares are those of its rows.                      *)
NamesAreRows ==
    \A u \in User, n \in EventName :
        <<u, n>> \in event_names
            <=> \E i \in 1..Len(rows) : rows[i].user = u /\ NameOf[rows[i].event] = n

FeedInv == FeedTypeOK /\ NamesAreRows /\ FeedOnce /\ FeedComplete

RowSet == [user : User, event : Event]

-----------------------------------------------------------------------------
(* Types.                                                                  *)

(* The reads that n calls of u's observers start.                          *)
ReadsAdded(u, S, n) ==
    /\ reads' \in [Pair -> Nat]
    /\ \A v \in User, e \in Event :
          reads'[<<v, e>>] = IF v = u /\ e \in S THEN reads[<<v, e>>] + n ELSE reads[<<v, e>>]

(* Observers that are called only add reads.                               *)
LEMMA CalledAdds ==
    ASSUME FeedTypeOK, NEW u \in User, NEW S \in SUBSET Event, NEW n \in Nat, Called(u, S, n)
    PROVE  ReadsAdded(u, S, n)
<1>1. reads \in [Pair -> Nat]
  BY DEF FeedTypeOK
<1>2. ASSUME NEW p \in Pair
      PROVE  (IF p[1] = u /\ p[2] \in S THEN reads[p] + n ELSE reads[p]) \in Nat
  <2>1. reads[p] \in Nat
    BY <1>1
  <2> QED BY <2>1
<1>3. reads' = [p \in Pair |-> IF p[1] = u /\ p[2] \in S THEN reads[p] + n ELSE reads[p]]
  BY DEF Called
<1>4. reads' \in [Pair -> Nat]
  BY <1>2, <1>3
<1>5. ASSUME NEW v \in User, NEW e \in Event
      PROVE  reads'[<<v, e>>] = IF v = u /\ e \in S THEN reads[<<v, e>>] + n ELSE reads[<<v, e>>]
  <2>1. <<v, e>> \in Pair
    BY DEF Pair
  <2> QED BY <1>3, <2>1
<1> QED BY <1>4, <1>5 DEF ReadsAdded

(* What FeedTypeOK says, in the terms the steps use.                       *)
LEMMA TypesOfFeed ==
    ASSUME FeedTypeOK
    PROVE  /\ asking \in [User -> Nat] /\ watching \in [User -> Nat]
           /\ reads \in [Pair -> Nat] /\ pictures \in [Pair -> Nat]
           /\ \A u \in User, e \in Event : <<u, e>> \in Pair
           /\ \A u \in User, e \in Event : reads[<<u, e>>] \in Nat /\ pictures[<<u, e>>] \in Nat
<1>1. \A u \in User, e \in Event : <<u, e>> \in Pair
  BY DEF Pair
<1>2. /\ asking \in [User -> Nat] /\ watching \in [User -> Nat]
      /\ reads \in [Pair -> Nat] /\ pictures \in [Pair -> Nat]
  BY DEF FeedTypeOK
<1> QED BY <1>1, <1>2

(* An answer moves one read or download on; the other counts stay.         *)
LEMMA CountMoves ==
    ASSUME NEW f \in [Pair -> Nat], NEW u \in User, NEW e \in Event,
           NEW n \in Nat
    PROVE  /\ [f EXCEPT ![<<u, e>>] = n] \in [Pair -> Nat]
           /\ [f EXCEPT ![<<u, e>>] = n][<<u, e>>] = n
           /\ \A v \in User, d \in Event :
                 <<v, d>> # <<u, e>> => [f EXCEPT ![<<u, e>>] = n][<<v, d>>] = f[<<v, d>>]
<1>1. <<u, e>> \in Pair /\ \A v \in User, d \in Event : <<v, d>> \in Pair
  BY DEF Pair
<1> QED BY <1>1

-----------------------------------------------------------------------------
(* Steps that leave the rows alone.                                        *)

LEMMA SameRows ==
    ASSUME FeedInv, UNCHANGED <<rows, event_names>>
    PROVE  /\ NamesAreRows' /\ FeedOnce'
           /\ \A u \in User, e \in Event : Shows(u, e)' <=> Shows(u, e)
BY DEF FeedInv, NamesAreRows, FeedOnce, Shows

LEMMA FollowInv ==
    ASSUME FeedInv, NEW u \in User, Follow(u) \/ Unfollow(u)
    PROVE  FeedInv'
<1>1. NamesAreRows' /\ FeedOnce' /\ \A v \in User, e \in Event : Shows(v, e)' <=> Shows(v, e)
  BY SameRows DEF Follow, Unfollow
<1>2. FeedTypeOK
  BY DEF FeedInv
<1>3. asking' \in [User -> Nat]
  <2>1. asking' = asking \/ asking' = [asking EXCEPT ![u] = asking[u] + 1]
    BY DEF Follow, Unfollow
  <2> QED BY <1>2, <2>1 DEF FeedTypeOK
<1>4. FeedTypeOK'
  BY <1>2, <1>3 DEF FeedTypeOK, Follow, Unfollow
<1>5. FeedComplete'
  BY <1>1 DEF FeedInv, FeedComplete, Live, Follow, Unfollow
<1> QED BY <1>1, <1>4, <1>5 DEF FeedInv

(* An observer's first value starts a read of every event it lists.        *)
LEMMA FirstValueInv ==
    ASSUME FeedInv, NEW u \in User, FirstValue(u)
    PROVE  FeedInv'
<1>1. NamesAreRows' /\ FeedOnce' /\ \A v \in User, e \in Event : Shows(v, e)' <=> Shows(v, e)
  BY SameRows DEF FirstValue
<1>2. FeedTypeOK /\ FeedComplete
  BY DEF FeedInv
<1>3. asking[u] \in Nat \ {0} /\ watching[u] \in Nat
  BY <1>2, TypesOfFeed DEF FirstValue
<1>4. /\ asking' = [asking EXCEPT ![u] = asking[u] - 1]
      /\ watching' = [watching EXCEPT ![u] = watching[u] + 1]
  BY DEF FirstValue
<1>5. asking[u] - 1 \in Nat /\ watching[u] + 1 \in Nat
  BY <1>3
<1>6. /\ asking' \in [User -> Nat] /\ watching' \in [User -> Nat]
      /\ \A v \in User : watching'[v] = IF v = u THEN watching[u] + 1 ELSE watching[v]
  BY <1>2, <1>4, <1>5 DEF FeedTypeOK
<1>7. PICK S \in SUBSET Event : S = attends[u] /\ Called(u, S, 1)
  BY <1>2 DEF FeedTypeOK, FirstValue
<1>8. /\ reads' \in [Pair -> Nat]
      /\ \A v \in User, e \in Event :
            reads'[<<v, e>>] = IF v = u /\ e \in S THEN reads[<<v, e>>] + 1 ELSE reads[<<v, e>>]
  <2>1. PICK n \in Nat : n = 1
    OBVIOUS
  <2>2. Called(u, S, n)
    BY <1>7, <2>1 DEF Called
  <2>3. ReadsAdded(u, S, n)
    BY <1>2, <2>2, CalledAdds
  <2> QED BY <2>1, <2>3 DEF ReadsAdded
<1>9. FeedTypeOK'
  BY <1>2, <1>6, <1>8 DEF FeedTypeOK, FirstValue
<1>10. FeedComplete'
  <2>1. SUFFICES ASSUME NEW v \in User, NEW e \in Event, watching'[v] > 0,
                        e \in attends[v], reads'[<<v, e>>] = 0, pictures[<<v, e>>] = 0
                 PROVE  Shows(v, e) \/ <<v, e>> \in lost
    BY <1>1 DEF FeedComplete, FirstValue
  <2>2. reads[<<v, e>>] \in Nat
    BY <1>2, TypesOfFeed
  <2>3. v # u /\ reads[<<v, e>>] = 0
    BY <1>7, <1>8, <2>1, <2>2
  <2> QED BY <1>2, <1>6, <2>1, <2>3 DEF FeedComplete, FirstValue
<1> QED BY <1>1, <1>9, <1>10 DEF FeedInv

(* A check-in has every observer look all the user's events up again.      *)
LEMMA CheckInInv ==
    ASSUME FeedInv, NEW u \in User, NEW c \in Event, CheckIn(u, c)
    PROVE  FeedInv'
<1>1. NamesAreRows' /\ FeedOnce' /\ \A v \in User, e \in Event : Shows(v, e)' <=> Shows(v, e)
  BY SameRows DEF CheckIn
<1>2. FeedTypeOK /\ FeedComplete
  BY DEF FeedInv
<1>3. /\ attends' = [attends EXCEPT ![u] = attends[u] \cup {c}]
      /\ attends' \in [User -> SUBSET Event]
  BY <1>2 DEF CheckIn, FeedTypeOK
<1>4. PICK S \in SUBSET Event : S = attends'[u] /\ Called(u, S, watching[u])
  BY <1>3 DEF CheckIn
<1>5. PICK n \in Nat : n = watching[u]
  BY <1>2, TypesOfFeed
<1>6. /\ reads' \in [Pair -> Nat]
      /\ \A v \in User, e \in Event :
            reads'[<<v, e>>] = IF v = u /\ e \in S THEN reads[<<v, e>>] + n ELSE reads[<<v, e>>]
  <2>1. Called(u, S, n)
    BY <1>4, <1>5 DEF Called
  <2>2. ReadsAdded(u, S, n)
    BY <1>2, <2>1, CalledAdds
  <2> QED BY <2>2 DEF ReadsAdded
<1>7. FeedTypeOK'
  BY <1>2, <1>3, <1>6 DEF FeedTypeOK, CheckIn
<1>8. FeedComplete'
  <2>1. SUFFICES ASSUME NEW v \in User, NEW e \in Event, watching[v] > 0,
                        e \in attends'[v], reads'[<<v, e>>] = 0, pictures[<<v, e>>] = 0
                 PROVE  Shows(v, e) \/ <<v, e>> \in lost
    BY <1>1 DEF FeedComplete, CheckIn
  <2>2. reads[<<v, e>>] \in Nat
    BY <1>2, TypesOfFeed
  <2>3. v # u
    BY <1>4, <1>5, <1>6, <2>1, <2>2
  <2>4. reads[<<v, e>>] = 0 /\ e \in attends[v]
    BY <1>2, <1>3, <1>6, <2>1, <2>3 DEF FeedTypeOK
  <2> QED BY <1>2, <2>1, <2>4 DEF FeedComplete, CheckIn
<1> QED BY <1>1, <1>7, <1>8 DEF FeedInv

(* So does any other change of a user's node.                              *)
LEMMA ChangedInv ==
    ASSUME FeedInv, NEW u \in User, Changed(u)
    PROVE  FeedInv'
<1>1. NamesAreRows' /\ FeedOnce' /\ \A v \in User, e \in Event : Shows(v, e)' <=> Shows(v, e)
  BY SameRows DEF Changed
<1>2. FeedTypeOK /\ FeedComplete
  BY DEF FeedInv
<1>3. PICK S \in SUBSET Event : Called(u, S, watching[u])
  BY <1>2 DEF FeedTypeOK, Changed
<1>4. PICK n \in Nat : n = watching[u]
  BY <1>2, TypesOfFeed
<1>5. /\ reads' \in [Pair -> Nat]
      /\ \A v \in User, e \in Event :
            reads'[<<v, e>>] = IF v = u /\ e \in S THEN reads[<<v, e>>] + n ELSE reads[<<v, e>>]
  <2>1. Called(u, S, n)
    BY <1>3, <1>4 DEF Called
  <2>2. ReadsAdded(u, S, n)
    BY <1>2, <2>1, CalledAdds
  <2> QED BY <2>2 DEF ReadsAdded
<1>6. FeedTypeOK'
  BY <1>2, <1>5 DEF FeedTypeOK, Changed
<1>7. FeedComplete'
  <2>1. SUFFICES ASSUME NEW v \in User, NEW e \in Event, watching[v] > 0,
                        e \in attends[v], reads'[<<v, e>>] = 0, pictures[<<v, e>>] = 0
                 PROVE  Shows(v, e) \/ <<v, e>> \in lost
    BY <1>1 DEF FeedComplete, Changed
  <2>2. reads[<<v, e>>] \in Nat
    BY <1>2, TypesOfFeed
  <2>3. reads[<<v, e>>] = 0
    BY <1>5, <2>1, <2>2
  <2> QED BY <1>2, <2>1, <2>3 DEF FeedComplete, Changed
<1> QED BY <1>1, <1>6, <1>7 DEF FeedInv

LEMMA StoredInv ==
    ASSUME FeedInv, NEW e \in Event, Stored(e)
    PROVE  FeedInv'
<1>1. NamesAreRows' /\ FeedOnce' /\ \A v \in User, d \in Event : Shows(v, d)' <=> Shows(v, d)
  BY SameRows DEF Stored
<1>2. FeedTypeOK'
  BY DEF FeedInv, FeedTypeOK, Stored
<1>3. FeedComplete'
  BY <1>1 DEF FeedInv, FeedComplete, Live, Stored
<1> QED BY <1>1, <1>2, <1>3 DEF FeedInv

(* An event that arrives turns into a download, or stops the app.          *)
LEMMA EventReplyInv ==
    ASSUME FeedInv, NEW u \in User, NEW e \in Event, EventReply(u, e)
    PROVE  FeedInv'
<1>1. NamesAreRows' /\ FeedOnce' /\ \A v \in User, d \in Event : Shows(v, d)' <=> Shows(v, d)
  BY SameRows DEF EventReply
<1>2. FeedTypeOK /\ FeedComplete
  BY DEF FeedInv
<1>3. /\ reads \in [Pair -> Nat] /\ pictures \in [Pair -> Nat]
      /\ reads' = [reads EXCEPT ![<<u, e>>] = reads[<<u, e>>] - 1]
      /\ reads[<<u, e>>] > 0
  BY <1>2 DEF FeedTypeOK, EventReply
<1>4. /\ reads' \in [Pair -> Nat]
      /\ \A v \in User, d \in Event : <<v, d>> # <<u, e>> => reads'[<<v, d>>] = reads[<<v, d>>]
  <2>1. PICK n \in Nat : n = reads[<<u, e>>] - 1
    BY <1>3 DEF Pair
  <2>2. reads' = [reads EXCEPT ![<<u, e>>] = n]
    BY <1>3, <2>1
  <2> QED BY <1>3, <2>2, CountMoves
<1>5. CASE trap' = "none"
  <2>1. pictures' = [pictures EXCEPT ![<<u, e>>] = pictures[<<u, e>>] + 1]
    BY <1>5 DEF EventReply
  <2>2. /\ pictures' \in [Pair -> Nat]
        /\ pictures'[<<u, e>>] > 0
        /\ \A v \in User, d \in Event : <<v, d>> # <<u, e>> => pictures'[<<v, d>>] = pictures[<<v, d>>]
    <3>1. PICK n \in Nat : n = pictures[<<u, e>>] + 1 /\ n > 0
      BY <1>3 DEF Pair
    <3>2. pictures' = [pictures EXCEPT ![<<u, e>>] = n]
      BY <2>1, <3>1
    <3> QED BY <1>3, <3>1, <3>2, CountMoves
  <2>3. FeedTypeOK'
    BY <1>2, <1>4, <1>5, <2>2 DEF FeedTypeOK, EventReply
  <2>4. FeedComplete'
    <3>1. SUFFICES ASSUME NEW v \in User, NEW d \in Event, watching[v] > 0,
                          d \in attends[v], reads'[<<v, d>>] = 0, pictures'[<<v, d>>] = 0
                   PROVE  Shows(v, d) \/ <<v, d>> \in lost
      BY <1>1 DEF FeedComplete, EventReply
    <3>2. <<v, d>> # <<u, e>>
      BY <2>2, <3>1
    <3>3. reads[<<v, d>>] = 0 /\ pictures[<<v, d>>] = 0
      BY <1>4, <2>2, <3>1, <3>2
    <3> QED BY <1>2, <3>1, <3>3 DEF FeedComplete, EventReply
  <2> QED BY <1>1, <2>3, <2>4 DEF FeedInv
<1>6. CASE trap' # "none"
  <2>1. pictures' = pictures /\ trap' \in {"missing", "undated"}
    BY <1>6 DEF EventReply
  <2>2. FeedTypeOK'
    BY <1>2, <1>4, <2>1 DEF FeedTypeOK, EventReply
  <2>3. FeedComplete'
    BY <1>6 DEF FeedComplete, Live
  <2> QED BY <1>1, <2>2, <2>3 DEF FeedInv
<1> QED BY <1>5, <1>6

-----------------------------------------------------------------------------
(* Rows.                                                                   *)

(* A row of a name that was not listed keeps the rows apart.               *)
LEMMA RowAdded ==
    ASSUME FeedInv, NEW u \in User, NEW e \in Event,
           <<u, NameOf[e]>> \notin event_names,
           rows' = Append(rows, [user |-> u, event |-> e]),
           event_names' = event_names \cup {<<u, NameOf[e]>>}
    PROVE  /\ NamesAreRows' /\ FeedOnce' /\ rows' \in Seq(RowSet)
           /\ Shows(u, e)' /\ \A v \in User, d \in Event : Shows(v, d) => Shows(v, d)'
<1> DEFINE row == [user |-> u, event |-> e]
           n == Len(rows)
<1>1. rows \in Seq(RowSet) /\ row \in RowSet /\ NameOf \in [Event -> EventName]
  BY NameAssumption DEF FeedInv, FeedTypeOK, RowSet
<1>2. row.user = u /\ row.event = e
  OBVIOUS
<1> HIDE DEF row
<1>3. /\ n \in Nat
      /\ rows' \in Seq(RowSet)
      /\ Len(rows') = n + 1
      /\ rows'[n + 1] = row
      /\ \A i \in 1..n : rows'[i] = rows[i]
  BY <1>1 DEF row
<1>4. \A i \in 1..Len(rows') : i = n + 1 \/ i \in 1..n
  BY <1>3
<1>5. n + 1 \in 1..Len(rows') /\ \A i \in 1..n : i \in 1..Len(rows')
  BY <1>3
<1>6. \A i \in 1..n : rows[i].user \in User /\ rows[i].event \in Event
  <2>1. \A i \in 1..n : rows[i] \in RowSet
    BY <1>1
  <2> QED BY <2>1 DEF RowSet
<1>7. \A i \in 1..n : rows[i].user # u \/ NameOf[rows[i].event] # NameOf[e]
  BY <1>1 DEF FeedInv, NamesAreRows
<1>8. FeedOnce
  BY DEF FeedInv
<1> HIDE DEF n
<1>9. FeedOnce'
  <2>1. SUFFICES ASSUME NEW i \in 1..Len(rows'), NEW j \in 1..Len(rows'),
                        rows'[i].user = rows'[j].user,
                        NameOf[rows'[i].event] = NameOf[rows'[j].event]
                 PROVE  i = j
    BY DEF FeedOnce
  <2>2. CASE i \in 1..n /\ j \in 1..n
    BY <1>3, <1>8, <2>1, <2>2 DEF FeedOnce, n
  <2>3. CASE i = n + 1 /\ j \in 1..n
    BY <1>2, <1>3, <1>7, <2>1, <2>3
  <2>4. CASE i \in 1..n /\ j = n + 1
    BY <1>2, <1>3, <1>7, <2>1, <2>4
  <2> QED BY <1>4, <2>2, <2>3, <2>4
<1>10. NamesAreRows'
  <2>1. SUFFICES ASSUME NEW v \in User, NEW m \in EventName
                 PROVE  <<v, m>> \in event_names'
                            <=> \E i \in 1..Len(rows') :
                                    rows'[i].user = v /\ NameOf[rows'[i].event] = m
    BY DEF NamesAreRows
  <2>2. <<v, m>> \in event_names
            <=> \E i \in 1..n : rows[i].user = v /\ NameOf[rows[i].event] = m
    BY DEF FeedInv, NamesAreRows, n
  <2>3. (\E i \in 1..Len(rows') : rows'[i].user = v /\ NameOf[rows'[i].event] = m)
            <=> \/ \E i \in 1..n : rows[i].user = v /\ NameOf[rows[i].event] = m
                \/ u = v /\ NameOf[e] = m
    BY <1>2, <1>3, <1>4, <1>5
  <2> QED BY <2>2, <2>3
<1>11. Shows(u, e)'
  BY <1>2, <1>3, <1>5 DEF Shows
<1>12. \A v \in User, d \in Event : Shows(v, d) => Shows(v, d)'
  BY <1>3, <1>5 DEF Shows, n
<1> QED BY <1>3, <1>9, <1>10, <1>11, <1>12

(* A picture makes a row, unless there is one of its user and name.        *)
LEMMA PictureReplyInv ==
    ASSUME FeedInv, NEW u \in User, NEW e \in Event, PictureReply(u, e)
    PROVE  FeedInv'
<1>1. FeedTypeOK /\ FeedComplete
  BY DEF FeedInv
<1>2. NameOf[e] \in EventName
  BY NameAssumption
<1>3. /\ pictures \in [Pair -> Nat] /\ pictures[<<u, e>>] > 0
      /\ pictures' = [pictures EXCEPT ![<<u, e>>] = pictures[<<u, e>>] - 1]
  BY <1>1 DEF FeedTypeOK, PictureReply
<1>4. /\ pictures' \in [Pair -> Nat]
      /\ \A v \in User, d \in Event : <<v, d>> # <<u, e>> => pictures'[<<v, d>>] = pictures[<<v, d>>]
  <2>1. PICK n \in Nat : n = pictures[<<u, e>>] - 1
    BY <1>3 DEF Pair
  <2>2. pictures' = [pictures EXCEPT ![<<u, e>>] = n]
    BY <1>3, <2>1
  <2> QED BY <1>3, <2>2, CountMoves
<1>5. /\ NamesAreRows' /\ FeedOnce' /\ rows' \in Seq(RowSet)
      /\ Shows(u, e)' /\ \A v \in User, d \in Event : Shows(v, d) => Shows(v, d)'
  <2>1. CASE <<u, NameOf[e]>> \in event_names
    <3>1. rows' = rows /\ event_names' = event_names
      BY <2>1 DEF PictureReply
    <3>2. Shows(u, e)
      BY <1>2, <2>1 DEF FeedInv, NamesAreRows, Shows
    <3>3. NamesAreRows' /\ FeedOnce' /\ \A v \in User, d \in Event : Shows(v, d)' <=> Shows(v, d)
      BY <3>1, SameRows
    <3> QED BY <1>1, <3>1, <3>2, <3>3 DEF FeedTypeOK, RowSet
  <2>2. CASE <<u, NameOf[e]>> \notin event_names
    <3>1. /\ rows' = Append(rows, [user |-> u, event |-> e])
          /\ event_names' = event_names \cup {<<u, NameOf[e]>>}
      BY <2>2 DEF PictureReply
    <3> QED BY <2>2, <3>1, RowAdded
  <2> QED BY <2>1, <2>2
<1>6. FeedTypeOK'
  BY <1>1, <1>2, <1>4, <1>5 DEF FeedTypeOK, PictureReply, RowSet
<1>7. FeedComplete'
  <2>1. SUFFICES ASSUME NEW v \in User, NEW d \in Event, watching[v] > 0,
                        d \in attends[v], reads[<<v, d>>] = 0, pictures'[<<v, d>>] = 0
                 PROVE  Shows(v, d)' \/ <<v, d>> \in lost
    BY DEF FeedComplete, PictureReply
  <2>2. CASE <<v, d>> = <<u, e>>
    BY <1>5, <2>2
  <2>3. CASE <<v, d>> # <<u, e>>
    <3>1. Shows(v, d) \/ <<v, d>> \in lost
      BY <1>1, <1>4, <2>1, <2>3 DEF FeedComplete, PictureReply
    <3> QED BY <1>5, <3>1
  <2> QED BY <2>2, <2>3
<1> QED BY <1>5, <1>6, <1>7 DEF FeedInv

LEMMA PictureFailsInv ==
    ASSUME FeedInv, NEW u \in User, NEW e \in Event, PictureFails(u, e)
    PROVE  FeedInv'
<1>1. NamesAreRows' /\ FeedOnce' /\ \A v \in User, d \in Event : Shows(v, d)' <=> Shows(v, d)
  BY SameRows DEF PictureFails
<1>2. FeedTypeOK /\ FeedComplete
  BY DEF FeedInv
<1>3. /\ pictures \in [Pair -> Nat] /\ pictures[<<u, e>>] > 0
      /\ pictures' = [pictures EXCEPT ![<<u, e>>] = pictures[<<u, e>>] - 1]
      /\ <<u, e>> \in Pair
  BY <1>2 DEF FeedTypeOK, PictureFails, Pair
<1>4. /\ pictures' \in [Pair -> Nat]
      /\ \A v \in User, d \in Event : <<v, d>> # <<u, e>> => pictures'[<<v, d>>] = pictures[<<v, d>>]
  <2>1. PICK n \in Nat : n = pictures[<<u, e>>] - 1
    BY <1>3 DEF Pair
  <2>2. pictures' = [pictures EXCEPT ![<<u, e>>] = n]
    BY <1>3, <2>1
  <2> QED BY <1>3, <2>2, CountMoves
<1>5. FeedTypeOK'
  BY <1>2, <1>3, <1>4 DEF FeedTypeOK, PictureFails
<1>6. FeedComplete'
  <2>1. SUFFICES ASSUME NEW v \in User, NEW d \in Event, watching[v] > 0,
                        d \in attends[v], reads[<<v, d>>] = 0, pictures'[<<v, d>>] = 0
                 PROVE  Shows(v, d) \/ <<v, d>> \in lost'
    BY <1>1 DEF FeedComplete, PictureFails
  <2>2. CASE <<v, d>> = <<u, e>>
    BY <2>2 DEF PictureFails
  <2>3. CASE <<v, d>> # <<u, e>>
    BY <1>2, <1>4, <2>1, <2>3 DEF FeedComplete, PictureFails
  <2> QED BY <2>2, <2>3
<1> QED BY <1>1, <1>5, <1>6 DEF FeedInv

-----------------------------------------------------------------------------
LEMMA FeedInvInit == FeedInit => FeedInv
<1> SUFFICES ASSUME FeedInit PROVE FeedInv
  OBVIOUS
<1>1. None \in [Pair -> Nat]
  BY DEF None
<1>2. rows = <<>> /\ rows \in Seq([user : User, event : Event]) /\ 1..Len(rows) = {}
  BY DEF FeedInit
<1>3. FeedTypeOK
  BY <1>1, <1>2 DEF FeedInit, FeedTypeOK
<1>4. NamesAreRows /\ FeedOnce
  BY <1>2 DEF FeedInit, NamesAreRows, FeedOnce
<1>5. FeedComplete
  BY DEF FeedInit, FeedComplete
<1> QED BY <1>3, <1>4, <1>5 DEF FeedInv

LEMMA FeedInvStep == FeedInv /\ [FeedNext]_feedVars => FeedInv'
<1> SUFFICES ASSUME FeedInv, [FeedNext]_feedVars PROVE FeedInv'
  OBVIOUS
<1>1. CASE UNCHANGED feedVars
  BY <1>1 DEF feedVars, FeedInv, FeedTypeOK, NamesAreRows, FeedOnce, FeedComplete,
              Live, Shows
<1>2. CASE FeedNext
  BY <1>2, FollowInv, FirstValueInv, CheckInInv, ChangedInv, StoredInv, EventReplyInv, PictureReplyInv,
     PictureFailsInv DEF FeedNext
<1> QED BY <1>1, <1>2

(* The inductive invariant of the feed.                                    *)
THEOREM FeedInduction == FeedSpec => []FeedInv
  BY FeedInvInit, FeedInvStep, PTL DEF FeedSpec

(* Variables stay within their type.                                       *)
THEOREM FeedTypeCorrect == FeedSpec => []FeedTypeOK
<1>1. FeedInv => FeedTypeOK
  BY DEF FeedInv
<1> QED BY <1>1, FeedInduction, PTL

(* No check-in is listed twice, whoever is followed again and however      *)
(* often his events are looked up.                                         *)
THEOREM ListedOnce == FeedSpec => []FeedOnce
<1>1. FeedInv => FeedOnce
  BY DEF FeedInv
<1> QED BY <1>1, FeedInduction, PTL

(* No check-in of an observed user is missed while the app runs.           *)
THEOREM NoneMissed == FeedSpec => []FeedComplete
<1>1. FeedInv => FeedComplete
  BY DEF FeedInv
<1> QED BY <1>1, FeedInduction, PTL

-----------------------------------------------------------------------------
(* Search.  As long as the scope has rested, everything under way is of    *)
(* its kind, and so is everything in the table.                            *)
AtRest ==
    ~flipped =>
        /\ fault # "index"
        /\ count = Len(results[scope])
        /\ \A k \in Kind : k # scope => results[k] = <<>>
        /\ \A i \in 1..count : shown[i] = results[scope][i].match
        /\ \A q \in asked : q.kind = scope
        /\ \A r \in loading : r.match.kind = scope
        /\ count > 0 => looking = scope

SearchesApart ==
    /\ \A q \in asked : q.search <= searches
    /\ \A r \in loading : r.search <= searches
    /\ \A k \in Kind : \A i \in 1..Len(results[k]) : results[k][i].search <= searches
    /\ \A p, q \in asked : p.search = q.search => p = q
    /\ \A q \in asked : \A r \in loading : r.search # q.search
    /\ \A q \in asked, k \in Kind : \A i \in 1..Len(results[k]) : results[k][i].search # q.search

RowsOnce ==
    \A k \in Kind : \A i \in 1..Len(results[k]) :
        /\ results[k][i].match.kind = k /\ results[k][i].match.key # Me
        /\ results[k][i] \notin loading
        /\ \A j \in 1..Len(results[k]) : results[k][i] = results[k][j] => i = j

MatchesListed ==
    \A r \in matched \ (missed \cup loading) : r.match.key # Me =>
        \E i \in 1..Len(results[r.match.kind]) : results[r.match.kind][i] = r

SearchInv == SearchTypeOK /\ AtRest /\ SearchesApart /\ RowsOnce /\ MatchesListed

(* insertRows: one more row, at position i; at the end the others stay.    *)
LEMMA Inserted ==
    ASSUME NEW s \in Seq(Match), NEW m \in Match, NEW i \in 1..(Len(s) + 1)
    PROVE  /\ InsertAt(s, i, m) \in Seq(Match)
           /\ Len(InsertAt(s, i, m)) = Len(s) + 1
           /\ InsertAt(s, i, m)[i] = m
           /\ \A j \in 1..(i - 1) : InsertAt(s, i, m)[j] = s[j]
<1> DEFINE a == SubSeq(s, 1, i - 1)
           b == SubSeq(s, i, Len(s))
<1>0. Len(s) \in Nat /\ i \in Nat
  OBVIOUS
<1>1. a \in Seq(Match) /\ Len(a) = i - 1 /\ \A j \in 1..(i - 1) : a[j] = s[j]
  BY <1>0
<1>2. b \in Seq(Match) /\ Len(b) = Len(s) - i + 1
  BY <1>0
<1>3. InsertAt(s, i, m) = a \o <<m>> \o b
  BY DEF InsertAt
<1> HIDE DEF a, b
<1>4. a \o <<m>> \in Seq(Match) /\ Len(a \o <<m>>) = i /\ (a \o <<m>>)[i] = m
      /\ \A j \in 1..(i - 1) : (a \o <<m>>)[j] = s[j]
  BY <1>0, <1>1
<1>5. PICK c \in Seq(Match) : c = a \o <<m>>
  BY <1>4
<1>6. c \o b \in Seq(Match) /\ Len(c \o b) = Len(s) + 1 /\ \A j \in 1..i : (c \o b)[j] = c[j]
  <2>1. Len(c) = i
    BY <1>4, <1>5
  <2>2. /\ c \o b \in Seq(Match) /\ Len(c \o b) = Len(c) + Len(b)
        /\ \A j \in 1..Len(c) : (c \o b)[j] = c[j]
    BY <1>2, Joined
  <2> QED BY <1>0, <1>2, <2>1, <2>2
<1> QED BY <1>0, <1>3, <1>4, <1>5, <1>6

-----------------------------------------------------------------------------
LEMMA SearchInvInit == SearchInit => SearchInv
<1> SUFFICES ASSUME SearchInit PROVE SearchInv
  OBVIOUS
<1>1. /\ results = [k \in Kind |-> <<>>] /\ shown = <<>> /\ count = 0
      /\ scope \in Kind /\ looking \in Kind
  BY DEF SearchInit, Kind
<1>2. results \in [Kind -> Seq(Row)] /\ \A k \in Kind : Len(results[k]) = 0 /\ results[k] = <<>>
  BY <1>1
<1>3. \A k \in Kind : 1..Len(results[k]) = {}
  BY <1>2
<1>4. SearchTypeOK
  <2>1. searches \in 0..MaxSearches
    BY MaxSearchesAssumption DEF SearchInit
  <2>2. shown \in Seq(Match) /\ count = Len(shown)
    BY <1>1
  <2> QED BY <1>1, <1>2, <2>1, <2>2 DEF SearchInit, SearchTypeOK
<1>5. AtRest
  BY <1>1, <1>2 DEF SearchInit, AtRest
<1>6. SearchesApart /\ RowsOnce
  BY <1>3 DEF SearchInit, SearchesApart, RowsOnce
<1>7. MatchesListed
  BY DEF SearchInit, MatchesListed
<1> QED BY <1>4, <1>5, <1>6, <1>7 DEF SearchInv

(* A search starts from empty lists; if nothing was outstanding the table  *)
(* is as good as new.                                                      *)
LEMMA SearchClickedInv == ASSUME SearchInv, SearchClicked PROVE SearchInv'
<1> DEFINE q0 == [kind |-> scope, search |-> searches + 1]
<1>1. /\ SearchTypeOK /\ SearchesApart
      /\ searches \in 0..MaxSearches /\ searches < MaxSearches /\ MaxSearches \in Nat
      /\ scope \in Kind
  BY MaxSearchesAssumption DEF SearchInv, SearchTypeOK, SearchClicked
<1>2. /\ results' = [k \in Kind |-> <<>>] /\ shown' = <<>> /\ count' = 0
      /\ matched' = {} /\ missed' = {} /\ asked' = asked \cup {q0} /\ searches' = searches + 1
      /\ UNCHANGED <<scope, looking, loading, fault>>
  BY DEF SearchClicked
<1>3. /\ results' \in [Kind -> Seq(Row)]
      /\ \A k \in Kind : Len(results'[k]) = 0 /\ results'[k] = <<>> /\ 1..Len(results'[k]) = {}
  BY <1>2
<1>4. /\ q0 \in [kind : Kind, search : 1..MaxSearches]
      /\ q0.kind = scope /\ q0.search = searches + 1
  BY <1>1
<1> HIDE DEF q0
<1>5. SearchTypeOK'
  <2>1. flipped' \in BOOLEAN
    BY DEF SearchClicked
  <2>2. searches' \in 0..MaxSearches
    BY <1>1, <1>2
  <2>3. shown' \in Seq(Match) /\ count' = Len(shown')
    BY <1>2
  <2> QED BY <1>1, <1>2, <1>3, <1>4, <2>1, <2>2, <2>3 DEF SearchTypeOK
<1>6. AtRest'
  <2>1. SUFFICES ASSUME ~flipped' PROVE AtRest'
    BY DEF AtRest
  <2>2. fault' # "index"
    BY DEF SearchClicked, Running
  <2>3. ~flipped \/ ~Outstanding
    BY <2>1 DEF SearchClicked
  <2>4. /\ \A q \in asked : q.kind = scope
        /\ \A r \in loading : r.match.kind = scope
    BY <2>3 DEF SearchInv, AtRest, Outstanding
  <2> QED BY <1>1, <1>2, <1>3, <1>4, <2>2, <2>4 DEF AtRest
<1>7. SearchesApart'
  <2>1. \A q \in asked : q.search \in Nat /\ q.search <= searches /\ q.search # searches + 1
    BY <1>1 DEF SearchTypeOK, SearchesApart
  <2>2. \A r \in loading : r.search \in Nat /\ r.search <= searches /\ r.search # searches + 1
    BY <1>1 DEF SearchTypeOK, SearchesApart, Row
  <2> QED BY <1>1, <1>2, <1>3, <1>4, <2>1, <2>2 DEF SearchesApart
<1>8. RowsOnce' /\ MatchesListed'
  BY <1>2, <1>3 DEF RowsOnce, MatchesListed
<1> QED BY <1>5, <1>6, <1>7, <1>8 DEF SearchInv

(* The matches of a search are new: none is in a list or on its way.       *)
LEMMA AnswerInv == ASSUME SearchInv, NEW q \in asked, Answer(q) PROVE SearchInv'
<1>1. /\ SearchTypeOK /\ SearchesApart /\ RowsOnce /\ MatchesListed
      /\ q \in [kind : Kind, search : 1..MaxSearches]
  BY DEF SearchInv, SearchTypeOK
<1>2. PICK found \in SUBSET Found(q) :
          /\ loading' = loading \cup found
          /\ matched' = IF q.search = searches THEN found ELSE matched
  BY DEF Answer
<1>3. /\ asked' = asked \ {q}
      /\ UNCHANGED <<scope, looking, results, shown, count, searches, missed, flipped>>
      /\ fault' \in {"none", "photo"}
  BY DEF Answer
<1>4. \A r \in found : r \in Row /\ r.search = q.search /\ r.match.kind = q.kind
  BY <1>1 DEF Found, Row
<1>5. SearchTypeOK'
  BY <1>1, <1>2, <1>3, <1>4 DEF SearchTypeOK
<1>6. AtRest'
  BY <1>2, <1>3, <1>4 DEF SearchInv, AtRest
<1>7. SearchesApart'
  BY <1>1, <1>2, <1>3, <1>4 DEF SearchesApart
<1>8. RowsOnce'
  BY <1>1, <1>2, <1>3, <1>4 DEF RowsOnce, SearchesApart
<1>9. MatchesListed'
  BY <1>1, <1>2, <1>3 DEF MatchesListed
<1> QED BY <1>5, <1>6, <1>7, <1>8, <1>9 DEF SearchInv

(* What both outcomes of a download leave alone.                           *)
LEMMA ImageFailsInv == ASSUME SearchInv, NEW r \in loading, ImageFails(r) PROVE SearchInv'
<1>1. SearchTypeOK /\ AtRest /\ SearchesApart /\ RowsOnce /\ MatchesListed /\ r \in Row
  BY DEF SearchInv, SearchTypeOK
<1>2. /\ loading' = loading \ {r} /\ missed' = missed \cup {r}
      /\ UNCHANGED <<scope, looking, results, asked, shown, count, searches, matched, flipped, fault>>
  BY DEF ImageFails
<1>3. SearchTypeOK'
  BY <1>1, <1>2 DEF SearchTypeOK
<1>4. AtRest'
  BY <1>1, <1>2 DEF AtRest
<1>5. SearchesApart' /\ RowsOnce' /\ MatchesListed'
  BY <1>1, <1>2 DEF SearchesApart, RowsOnce, MatchesListed
<1> QED BY <1>3, <1>4, <1>5 DEF SearchInv

(* The user's own entry makes no row.                                      *)
LEMMA OwnImageInv ==
    ASSUME SearchInv, NEW r \in loading, ImageReply(r), r.match.key = Me
    PROVE  SearchInv'
<1>1. SearchTypeOK /\ AtRest /\ SearchesApart /\ RowsOnce /\ MatchesListed /\ r \in Row
  BY DEF SearchInv, SearchTypeOK
<1>2. /\ loading' = loading \ {r} /\ looking' = r.match.kind
      /\ UNCHANGED <<scope, results, asked, shown, count, searches, matched, missed, flipped, fault>>
  BY DEF ImageReply
<1>3. r.match.kind \in Kind
  BY <1>1, MatchAssumption DEF Row
<1>4. SearchTypeOK'
  BY <1>1, <1>2, <1>3 DEF SearchTypeOK
<1>5. AtRest'
  BY <1>1, <1>2 DEF AtRest
<1>6. SearchesApart' /\ RowsOnce' /\ MatchesListed'
  BY <1>1, <1>2 DEF SearchesApart, RowsOnce, MatchesListed
<1> QED BY <1>4, <1>5, <1>6 DEF SearchInv

(* A picture makes a row at the end of the list of its kind, and in the    *)
(* table unless the check stops the app.                                   *)
LEMMA ImageReplyInv ==
    ASSUME SearchInv, NEW r \in loading, ImageReply(r), r.match.key # Me
    PROVE  SearchInv'
<1>1. SearchTypeOK /\ AtRest /\ SearchesApart /\ RowsOnce /\ MatchesListed /\ r \in Row
  BY DEF SearchInv, SearchTypeOK
<1>2. PICK kind \in Kind : kind = r.match.kind
  BY <1>1, MatchAssumption DEF Row
<1>3. PICK old \in Seq(Row) : old = results[kind]
  BY <1>1 DEF SearchTypeOK
<1>4. PICK longer \in Seq(Row) : longer = Append(old, r)
  BY <1>1, <1>3, OneMoreRow
<1>5. /\ Len(old) \in Nat /\ Len(longer) = Len(old) + 1 /\ longer[Len(old) + 1] = r
      /\ \A i \in 1..Len(old) : longer[i] = old[i] /\ i \in 1..Len(longer)
      /\ \A i \in 1..Len(longer) : i = Len(old) + 1 \/ i \in 1..Len(old)
      /\ Len(old) + 1 \in 1..Len(longer)
  BY <1>1, <1>3, <1>4, OneMoreRow
<1>6. /\ loading' = loading \ {r} /\ looking' = kind
      /\ results' = [results EXCEPT ![kind] = longer]
      /\ Insert(results'[scope], Len(longer))
      /\ UNCHANGED <<scope, asked, searches, matched, missed, flipped>>
  <2>1. results' = [results EXCEPT ![r.match.kind] = Append(results[r.match.kind], r)]
    BY DEF ImageReply
  <2>2. results' = [results EXCEPT ![kind] = longer]
    BY <1>2, <1>3, <1>4, <2>1
  <2>3. results'[kind] = longer
    BY <1>1, <2>2 DEF SearchTypeOK
  <2>4. Insert(results'[scope], Len(results'[r.match.kind]))
    BY DEF ImageReply
  <2> QED BY <1>2, <2>2, <2>3, <2>4 DEF ImageReply
<1>7. /\ results' \in [Kind -> Seq(Row)] /\ results'[kind] = longer
      /\ \A k \in Kind : k # kind => results'[k] = results[k]
  BY <1>1, <1>6 DEF SearchTypeOK
<1>8. /\ r.search <= searches /\ \A q \in asked : r.search # q.search
      /\ \A k \in Kind : \A i \in 1..Len(results[k]) : results[k][i] # r
  BY <1>1 DEF SearchesApart, RowsOnce
<1>9. PICK shortly \in Seq(Row) : shortly = results'[scope]
  BY <1>1, <1>7 DEF SearchTypeOK
<1>10. PICK n \in Nat : n = count /\ n = Len(shown)
  BY <1>1 DEF SearchTypeOK
<1>11. /\ shown' \in Seq(Match) /\ count' = Len(shown') /\ fault' \in {"none", "index", "photo"}
       /\ Len(shortly) = n + 1 /\ Len(longer) = n + 1 =>
             /\ count' = n + 1 /\ shown'[n + 1] = shortly[n + 1].match /\ fault' = fault
             /\ \A j \in 1..n : shown'[j] = shown[j]
  <2>1. CASE Len(shortly) = n + 1 /\ Len(longer) <= n + 1
    <3>1. PICK i \in 1..(n + 1) : i = Len(longer)
      BY <1>5, <2>1
    <3>2. /\ shown' = InsertAt(shown, i, shortly[i].match) /\ count' = n + 1
          /\ fault' = fault
      BY <1>6, <1>9, <1>10, <2>1, <3>1 DEF Insert
    <3>0. shortly[i] \in Row
      BY <2>1, <3>1
    <3>3. PICK m \in Match : m = shortly[i].match
      BY <3>0 DEF Row
    <3>4. /\ InsertAt(shown, i, m) \in Seq(Match) /\ Len(InsertAt(shown, i, m)) = n + 1
          /\ InsertAt(shown, i, m)[i] = m
          /\ i = n + 1 => \A j \in 1..n : InsertAt(shown, i, m)[j] = shown[j]
      <4>1. PICK w \in Seq(Match) : w = shown
        BY <1>1 DEF SearchTypeOK
      <4>2. i \in 1..(Len(w) + 1) /\ Len(w) = n
        BY <1>10, <3>1, <4>1
      <4>3. /\ InsertAt(w, i, m) \in Seq(Match) /\ Len(InsertAt(w, i, m)) = Len(w) + 1
            /\ InsertAt(w, i, m)[i] = m
            /\ \A j \in 1..(i - 1) : InsertAt(w, i, m)[j] = w[j]
        BY <4>2, Inserted
      <4>4. /\ InsertAt(shown, i, m) \in Seq(Match) /\ Len(InsertAt(shown, i, m)) = n + 1
            /\ InsertAt(shown, i, m)[i] = m
        BY <4>1, <4>2, <4>3
      <4>5. ASSUME i = n + 1, NEW j \in 1..n PROVE InsertAt(shown, i, m)[j] = shown[j]
        <5>1. j \in 1..(i - 1)
          BY <4>5
        <5> QED BY <4>1, <4>3, <5>1
      <4> QED BY <4>4, <4>5
    <3>5. shown' = InsertAt(shown, i, m) /\ count' = n + 1 /\ fault' = fault
      BY <3>2, <3>3
    <3>6. /\ shown' \in Seq(Match) /\ count' = Len(shown')
          /\ i = n + 1 => shown'[n + 1] = m /\ \A j \in 1..n : shown'[j] = shown[j]
      BY <3>4, <3>5
    <3>7. fault' \in {"none", "index", "photo"}
      BY <1>1, <3>5 DEF SearchTypeOK
    <3> QED BY <3>1, <3>3, <3>5, <3>6, <3>7
  <2>2. CASE ~(Len(shortly) = n + 1 /\ Len(longer) <= n + 1)
    <3>1. fault' = "index" /\ shown' = shown /\ count' = count
      BY <1>6, <1>9, <1>10, <2>2 DEF Insert
    <3> QED BY <1>1, <1>10, <2>2, <3>1 DEF SearchTypeOK
  <2> QED BY <2>1, <2>2
<1>12. SearchTypeOK'
  BY <1>1, <1>6, <1>7, <1>11 DEF SearchTypeOK
<1>13. AtRest'
  <2>1. SUFFICES ASSUME ~flipped PROVE AtRest'
    BY <1>6 DEF AtRest
  <2>2. /\ fault # "index" /\ kind = scope /\ n = Len(old) /\ shortly = longer
        /\ \A k \in Kind : k # scope => results'[k] = <<>>
        /\ \A i \in 1..n : shown[i] = old[i].match
        /\ \A q \in asked : q.kind = scope
        /\ \A p \in loading : p.match.kind = scope
    BY <1>1, <1>2, <1>3, <1>7, <1>9, <1>10, <2>1 DEF AtRest
  <2>3. /\ count' = n + 1 /\ shown'[n + 1] = longer[n + 1].match /\ fault' = fault
        /\ \A j \in 1..n : shown'[j] = longer[j].match
    BY <1>5, <1>11, <2>2
  <2>4. \A j \in 1..(n + 1) : j = n + 1 \/ j \in 1..n
    OBVIOUS
  <2>5. \A j \in 1..(n + 1) : shown'[j] = longer[j].match
    BY <2>3, <2>4
  <2> QED BY <1>5, <1>6, <1>7, <2>2, <2>3, <2>5 DEF AtRest
<1>14. SearchesApart'
  <2>1. \A i \in 1..Len(longer) : longer[i].search <= searches
                                  /\ \A q \in asked : longer[i].search # q.search
    BY <1>1, <1>3, <1>5, <1>8 DEF SearchesApart
  <2>2. ASSUME NEW k \in Kind, NEW i \in 1..Len(results'[k])
        PROVE  /\ results'[k][i].search <= searches
               /\ \A q \in asked : results'[k][i].search # q.search
    <3>1. CASE k = kind
      BY <1>7, <2>1, <2>2, <3>1
    <3>2. CASE k # kind
      <4>1. results'[k] = results[k]
        BY <1>7, <3>2
      <4> QED BY <1>1, <2>2, <4>1 DEF SearchesApart
    <3> QED BY <3>1, <3>2
  <2>3. asked' = asked /\ searches' = searches /\ loading' = loading \ {r}
    BY DEF ImageReply
  <2>4. /\ \A q \in asked : q.search <= searches
        /\ \A p \in loading : p.search <= searches
        /\ \A p, q \in asked : p.search = q.search => p = q
        /\ \A q \in asked : \A p \in loading : p.search # q.search
    BY <1>1 DEF SearchesApart
  <2> QED BY <2>2, <2>3, <2>4 DEF SearchesApart
<1>15. RowsOnce'
  <2>1. \A i \in 1..Len(old) : /\ old[i].match.kind = kind /\ old[i].match.key # Me
                                /\ old[i] \notin loading
                                /\ \A j \in 1..Len(old) : old[i] = old[j] => i = j
    BY <1>1, <1>3 DEF RowsOnce
  <2>2. \A i \in 1..Len(longer) : /\ longer[i].match.kind = kind /\ longer[i].match.key # Me
                                  /\ longer[i] \notin loading \ {r}
    BY <1>2, <1>5, <2>1
  <2>3. \A i, j \in 1..Len(longer) : longer[i] = longer[j] => i = j
    BY <1>5, <2>1
  <2>4. \A k \in Kind : k # kind => results'[k] = results[k]
    BY <1>7
  <2>5. loading' = loading \ {r}
    BY DEF ImageReply
  <2>6. ASSUME NEW k \in Kind, NEW i \in 1..Len(results'[k])
        PROVE  /\ results'[k][i].match.kind = k /\ results'[k][i].match.key # Me
               /\ results'[k][i] \notin loading'
               /\ \A j \in 1..Len(results'[k]) : results'[k][i] = results'[k][j] => i = j
    <3>1. CASE k = kind
      BY <1>7, <2>2, <2>3, <2>5, <2>6, <3>1
    <3>2. CASE k # kind
      BY <1>1, <2>4, <2>5, <2>6, <3>2 DEF RowsOnce
    <3> QED BY <3>1, <3>2
  <2> QED BY <2>6 DEF RowsOnce
<1>16. MatchesListed'
  <2>1. SUFFICES ASSUME NEW p \in matched, p \notin missed, p \notin loading \/ p = r,
                        p.match.key # Me
                 PROVE  \E i \in 1..Len(results'[p.match.kind]) : results'[p.match.kind][i] = p
    BY <1>6 DEF MatchesListed
  <2>2. CASE p = r
    BY <1>2, <1>5, <1>7, <2>2
  <2>3. CASE p # r
    <3>1. PICK i \in 1..Len(results[p.match.kind]) : results[p.match.kind][i] = p
      BY <1>1, <2>1, <2>3 DEF MatchesListed
    <3>2. p.match.kind \in Kind
      BY <1>1, MatchAssumption DEF SearchTypeOK, Row
    <3> QED BY <1>3, <1>5, <1>7, <3>1, <3>2
  <2> QED BY <2>2, <2>3
<1> QED BY <1>12, <1>13, <1>14, <1>15, <1>16 DEF SearchInv

(* Only an empty table at rest stays at rest under a new scope.            *)
LEMMA ScopeChangeInv == ASSUME SearchInv, NEW k \in Kind, ScopeChange(k) PROVE SearchInv'
<1>1. /\ SearchTypeOK /\ SearchesApart /\ RowsOnce /\ MatchesListed
      /\ k # scope /\ scope' = k /\ flipped' = (flipped \/ Outstanding \/ count > 0)
      /\ UNCHANGED <<looking, results, asked, loading, shown, count, searches, matched, missed, fault>>
  BY DEF SearchInv, ScopeChange
<1>2. SearchTypeOK' /\ SearchesApart' /\ RowsOnce' /\ MatchesListed'
  BY <1>1 DEF SearchTypeOK, SearchesApart, RowsOnce, MatchesListed
<1>3. AtRest'
  <2>1. SUFFICES ASSUME ~flipped' PROVE AtRest'
    BY DEF AtRest
  <2>2. ~flipped /\ asked = {} /\ loading = {} /\ ~(count > 0)
    BY <1>1, <2>1 DEF Outstanding
  <2>3. count = 0 /\ count \in Nat
    BY <1>1, <2>2 DEF SearchTypeOK
  <2>4. /\ fault # "index" /\ Len(results[scope]) = 0
        /\ \A j \in Kind : j # scope => results[j] = <<>>
    BY <2>2, <2>3 DEF SearchInv, AtRest
  <2>5. results \in [Kind -> Seq(Row)] /\ scope \in Kind
    BY <1>1 DEF SearchTypeOK
  <2>6. results[scope] \in Seq(Row)
    BY <2>5
  <2>7. results[scope] = <<>>
    BY <2>4, <2>6
  <2>8. \A j \in Kind : results[j] = <<>>
    BY <2>4, <2>7
  <2>9. Len(results[k]) = 0
    BY <2>8
  <2> QED BY <1>1, <2>2, <2>3, <2>4, <2>8, <2>9 DEF AtRest
<1> QED BY <1>2, <1>3 DEF SearchInv

LEMMA ScrollInv == ASSUME SearchInv, NEW i \in 1..count, Scroll(i) \/ Tap(i) PROVE SearchInv'
<1>1. SearchTypeOK /\ AtRest /\ SearchesApart /\ RowsOnce /\ MatchesListed
  BY DEF SearchInv
<1>2. UNCHANGED <<scope, looking, results, asked, loading, count, searches, matched, missed, flipped>>
  BY DEF Scroll, Tap
<1>3. SearchesApart' /\ RowsOnce' /\ MatchesListed'
  BY <1>1, <1>2 DEF SearchesApart, RowsOnce, MatchesListed
<1>4. shown \in Seq(Match) /\ count = Len(shown) /\ results \in [Kind -> Seq(Row)] /\ scope \in Kind
  BY <1>1 DEF SearchTypeOK
<1>5. /\ shown' \in Seq(Match) /\ Len(shown') = Len(shown) /\ fault' \in {"none", "index", "photo"}
      /\ \A j \in 1..count : shown'[j] = shown[j] \/ shown'[j] = results[scope][j].match
      /\ i \in 1..Len(results[scope]) /\ i \in 1..Len(results[looking]) => fault' # "index"
  <2>1. CASE Tap(i)
    BY <1>4, <2>1 DEF Tap
  <2>2. CASE Scroll(i) /\ i \in 1..Len(results[scope])
    <3>0. results[scope][i] \in Row
      <4>1. results[scope] \in Seq(Row)
        BY <1>4
      <4> QED BY <2>2, <4>1
    <3>1. PICK m \in Match : m = results[scope][i].match
      BY <3>0 DEF Row
    <3>2. shown' = [shown EXCEPT ![i] = m] /\ fault' = fault /\ fault = "none"
      BY <2>2, <3>1 DEF Scroll, Running
    <3> QED BY <1>4, <3>1, <3>2
  <2>3. CASE Scroll(i) /\ i \notin 1..Len(results[scope])
    BY <1>4, <2>3 DEF Scroll
  <2> QED BY <2>1, <2>2, <2>3
<1>6. SearchTypeOK'
  BY <1>1, <1>2, <1>4, <1>5 DEF SearchTypeOK
<1>7. AtRest'
  <2>1. SUFFICES ASSUME ~flipped PROVE AtRest'
    BY <1>2 DEF AtRest
  <2>2. count > 0
    BY <1>4
  <2>3. i \in 1..Len(results[scope]) /\ looking = scope
    BY <1>1, <2>1, <2>2 DEF AtRest
  <2>4. fault' # "index" /\ \A j \in 1..count : shown'[j] = results[scope][j].match
    BY <1>1, <1>5, <2>1, <2>3 DEF AtRest
  <2> QED BY <1>1, <1>2, <2>1, <2>4 DEF AtRest
<1> QED BY <1>3, <1>6, <1>7 DEF SearchInv

LEMMA SearchInvStep == SearchInv /\ [SearchNext]_searchVars => SearchInv'
<1> SUFFICES ASSUME SearchInv, [SearchNext]_searchVars PROVE SearchInv'
  OBVIOUS
<1>1. CASE UNCHANGED searchVars
  <2>1. SearchTypeOK' /\ AtRest'
    BY <1>1 DEF searchVars, SearchInv, SearchTypeOK, AtRest
  <2>2. SearchesApart' /\ RowsOnce' /\ MatchesListed'
    BY <1>1 DEF searchVars, SearchInv, SearchesApart, RowsOnce, MatchesListed
  <2> QED BY <2>1, <2>2 DEF SearchInv
<1>2. CASE SearchNext
  BY <1>2, SearchClickedInv, AnswerInv, OwnImageInv, ImageReplyInv, ImageFailsInv, ScopeChangeInv,
     ScrollInv DEF SearchNext
<1> QED BY <1>1, <1>2

(* The inductive invariant of the search.                                  *)
THEOREM SearchInduction == SearchSpec => []SearchInv
  BY SearchInvInit, SearchInvStep, PTL DEF SearchSpec

(* Variables stay within their type.                                       *)
THEOREM SearchTypeCorrect == SearchSpec => []SearchTypeOK
<1>1. SearchInv => SearchTypeOK
  BY DEF SearchInv
<1> QED BY <1>1, SearchInduction, PTL

(* While the scope rests, a row opens what it shows and no index runs out, *)
(* however many searches overlap.                                          *)
THEOREM RowsOpenRight == SearchSpec => []RowOpensWhatItShows
<1>1. SearchInv => RowOpensWhatItShows
  <2>1. SUFFICES ASSUME SearchInv, ~flipped
                 PROVE  /\ fault # "index" /\ count = Len(results[scope])
                        /\ \A i \in 1..count : /\ i \in 1..Len(results[looking])
                                               /\ results[looking][i].match = shown[i]
    BY DEF RowOpensWhatItShows
  <2>2. count \in Nat
    <3>1. shown \in Seq(Match) /\ count = Len(shown)
      BY <2>1 DEF SearchInv, SearchTypeOK
    <3> QED BY <3>1
  <2>3. \A i \in 1..count : looking = scope
    BY <2>1, <2>2 DEF SearchInv, AtRest
  <2> QED BY <2>1, <2>3 DEF SearchInv, AtRest
<1> QED BY <1>1, SearchInduction, PTL

(* The latest search is complete, with one row for each match, and leaves  *)
(* the user himself out.                                                   *)
THEOREM SearchIsComplete == SearchSpec => []LatestComplete
<1>1. SearchInv => LatestComplete
  <2>1. SUFFICES ASSUME SearchInv PROVE LatestComplete
    OBVIOUS
  <2>2. ASSUME NEW r \in matched \ (missed \cup loading), r.match.key # Me
        PROVE  Cardinality({i \in 1..Len(results[r.match.kind]) : results[r.match.kind][i] = r}) = 1
    <3>1. PICK i \in 1..Len(results[r.match.kind]) : results[r.match.kind][i] = r
      BY <2>1, <2>2 DEF SearchInv, MatchesListed
    <3>2. r.match.kind \in Kind
      BY <2>1, MatchAssumption DEF SearchInv, SearchTypeOK, Row
    <3>3. \A j \in 1..Len(results[r.match.kind]) : results[r.match.kind][j] = r => j = i
      BY <2>1, <3>1, <3>2 DEF SearchInv, RowsOnce
    <3>4. {j \in 1..Len(results[r.match.kind]) : results[r.match.kind][j] = r} = {i}
      BY <3>1, <3>3
    <3> QED BY <3>4, FS_Singleton
  <2>3. \A k \in Kind : \A i \in 1..Len(results[k]) : results[k][i].match.key # Me
    BY <2>1 DEF SearchInv, RowsOnce
  <2> QED BY <2>2, <2>3 DEF LatestComplete
<1> QED BY <1>1, SearchInduction, PTL

-----------------------------------------------------------------------------
(* Analytics.  The counters hold at least whom each snapshot has counted.  *)

Counted(g) == groups[g].of \ groups[g].waits

GroupsInOrder ==
    \A g \in 1..MaxSnapshots :
        /\ groups[g].waits \subseteq groups[g].of
        /\ g > snapshots => groups[g].of = {} /\ groups[g].phase = "none"
        /\ g <= snapshots => groups[g].phase # "none"
        /\ groups[g].phase = "drawn" => groups[g].waits = {}

CountersCover ==
    \A g \in 1..MaxSnapshots, x \in Dorm :
        /\ dorms[x] >= CountOf(Counted(g))[x]
        /\ groups[g].phase = "drawn" => chart[x] >= CountOf(groups[g].of)[x]

FirstExact ==
    /\ snapshots = 0 => dorms = NoCount
    /\ snapshots = 1 => /\ groups[1].of = members
                        /\ dorms = CountOf(Counted(1))
                        /\ groups[1].phase = "drawn" => chart = CountOf(members)

AnalyticsInv == AnalyticsTypeOK /\ GroupsInOrder /\ CountersCover /\ FirstExact

(* A share of a finite set of people is counted by a number, and a larger  *)
(* set by no smaller one.                                                  *)
LEMMA CountType ==
    ASSUME NEW S \in SUBSET Person
    PROVE  CountOf(S) \in [Dorm -> Nat]
<1>1. SUFFICES ASSUME NEW x \in Dorm PROVE Cardinality({u \in S : DormOf[u] = x}) \in Nat
  BY DEF CountOf
<1>2. {u \in S : DormOf[u] = x} \in SUBSET Person
  OBVIOUS
<1>3. IsFiniteSet({u \in S : DormOf[u] = x})
  BY <1>2, PersonAssumption, FS_Subset
<1> QED BY <1>3, FS_CardinalityType

LEMMA CountNobody == CountOf({}) = NoCount
<1>1. ASSUME NEW x \in Dorm PROVE Cardinality({u \in {} : DormOf[u] = x}) = 0
  <2>1. {u \in {} : DormOf[u] = x} = {}
    OBVIOUS
  <2> QED BY <2>1, FS_EmptySet
<1> QED BY <1>1 DEF CountOf, NoCount

(* One more person counts once, under his dorm.                            *)
LEMMA CountOneMore ==
    ASSUME NEW S \in SUBSET Person, NEW u \in Person, u \notin S
    PROVE  \A x \in Dorm : CountOf(S \cup {u})[x]
                               = IF x = DormOf[u] THEN CountOf(S)[x] + 1 ELSE CountOf(S)[x]
<1>1. SUFFICES ASSUME NEW x \in Dorm
               PROVE  Cardinality({v \in S \cup {u} : DormOf[v] = x})
                          = IF x = DormOf[u] THEN Cardinality({v \in S : DormOf[v] = x}) + 1
                                             ELSE Cardinality({v \in S : DormOf[v] = x})
  BY DEF CountOf
<1> DEFINE T == {v \in S : DormOf[v] = x}
<1>2. T \in SUBSET Person /\ u \notin T
  OBVIOUS
<1>3. IsFiniteSet(T)
  BY <1>2, PersonAssumption, FS_Subset
<1>4. CASE x = DormOf[u]
  <2>1. {v \in S \cup {u} : DormOf[v] = x} = T \cup {u}
    BY <1>4
  <2>2. Cardinality(T \cup {u}) = Cardinality(T) + 1
    <3> HIDE DEF T
    <3> QED BY <1>2, <1>3, FS_AddElement
  <2> QED BY <1>4, <2>1, <2>2
<1>5. CASE x # DormOf[u]
  <2>1. {v \in S \cup {u} : DormOf[v] = x} = T
    BY <1>5
  <2> QED BY <1>5, <2>1
<1> QED BY <1>4, <1>5

-----------------------------------------------------------------------------
LEMMA AnalyticsInvInit == AnalyticsInit => AnalyticsInv
<1> SUFFICES ASSUME AnalyticsInit PROVE AnalyticsInv
  OBVIOUS
<1>1. \A g \in 1..MaxSnapshots :
          groups[g].waits = {} /\ groups[g].of = {} /\ groups[g].phase = "none"
  BY DEF AnalyticsInit
<1>2. NoCount \in [Dorm -> Nat]
  BY DEF NoCount
<1>3. AnalyticsTypeOK
  <2>1. groups \in [1..MaxSnapshots -> Group]
    BY DEF AnalyticsInit, Group
  <2>2. snapshots \in 0..MaxSnapshots
    BY MaxSnapshotsAssumption DEF AnalyticsInit
  <2>3. members \subseteq Person
    BY DEF AnalyticsInit
  <2>4. crashed \in BOOLEAN
    BY DEF AnalyticsInit
  <2> QED BY <1>2, <2>1, <2>2, <2>3, <2>4 DEF AnalyticsInit, AnalyticsTypeOK
<1>4. GroupsInOrder
  BY <1>1, MaxSnapshotsAssumption DEF AnalyticsInit, GroupsInOrder
<1>5. CountersCover
  <2>1. SUFFICES ASSUME NEW g \in 1..MaxSnapshots, NEW x \in Dorm
                 PROVE  dorms[x] >= CountOf(Counted(g))[x]
    BY <1>1 DEF CountersCover
  <2>2. Counted(g) = {}
    BY <1>1 DEF Counted
  <2>3. CountOf(Counted(g))[x] = 0 /\ dorms[x] = 0
    BY <2>2, CountNobody DEF NoCount, AnalyticsInit
  <2> QED BY <2>3
<1>6. FirstExact
  BY DEF AnalyticsInit, FirstExact
<1> QED BY <1>3, <1>4, <1>5, <1>6 DEF AnalyticsInv

(* A snapshot is a new group, which has counted nobody.                    *)
LEMMA SnapshotInv ==
    ASSUME AnalyticsInv, snapshots < MaxSnapshots,
           Read(members'), members' \subseteq Person,
           snapshots = 0 => members' = members,
           UNCHANGED <<dorms, chart, crashed>>
    PROVE  AnalyticsInv'
<1>1. /\ AnalyticsTypeOK /\ GroupsInOrder /\ CountersCover /\ FirstExact
      /\ snapshots \in Nat /\ MaxSnapshots \in Nat /\ groups \in [1..MaxSnapshots -> Group]
  BY MaxSnapshotsAssumption DEF AnalyticsInv, AnalyticsTypeOK
<1>2. PICK n \in 1..MaxSnapshots : n = snapshots + 1
  BY <1>1
<1>3. PICK S \in SUBSET Person : S = members'
  OBVIOUS
<1> DEFINE new == [waits |-> S, of |-> S, phase |-> "reading"]
<1>4. new \in Group /\ new.waits = S /\ new.of = S /\ new.phase = "reading"
  BY DEF Group
<1>5. groups' = [groups EXCEPT ![n] = new] /\ snapshots' = n
  BY <1>2, <1>3 DEF Read
<1> HIDE DEF new
<1>6. /\ groups' \in [1..MaxSnapshots -> Group] /\ groups'[n] = new
      /\ \A g \in 1..MaxSnapshots : g # n => groups'[g] = groups[g]
  BY <1>1, <1>4, <1>5
<1>7. AnalyticsTypeOK'
  BY <1>1, <1>5, <1>6 DEF AnalyticsTypeOK
<1>8. GroupsInOrder'
  BY <1>1, <1>2, <1>4, <1>5, <1>6 DEF GroupsInOrder
<1>9. Counted(n)' = {} /\ \A g \in 1..MaxSnapshots : g # n => Counted(g)' = Counted(g)
  BY <1>4, <1>6 DEF Counted
<1>10. CountersCover'
  <2>1. SUFFICES ASSUME NEW g \in 1..MaxSnapshots, NEW x \in Dorm
                 PROVE  /\ dorms[x] >= CountOf(Counted(g)')[x]
                        /\ groups'[g].phase = "drawn" => chart[x] >= CountOf(groups'[g].of)[x]
    BY DEF CountersCover, CountOf
  <2>2. CASE g = n
    <3>1. CountOf(Counted(g)')[x] = 0
      BY <1>9, <2>2, CountNobody DEF NoCount
    <3>2. dorms[x] \in Nat
      BY <1>1 DEF AnalyticsTypeOK
    <3> QED BY <1>4, <1>6, <2>2, <3>1, <3>2
  <2>3. CASE g # n
    BY <1>1, <1>6, <1>9, <2>3 DEF CountersCover
  <2> QED BY <2>2, <2>3
<1>11. FirstExact'
  <2>1. CASE snapshots # 0
    BY <1>1, <1>2, <1>5, <2>1 DEF FirstExact
  <2>2. CASE snapshots = 0
    <3>1. n = 1 /\ dorms = NoCount
      BY <1>1, <1>2, <2>2 DEF FirstExact
    <3>2. groups'[1].of = S /\ groups'[1].phase = "reading" /\ Counted(1)' = {}
      BY <1>4, <1>6, <1>9, <3>1
    <3>3. CountOf(Counted(1)') = NoCount
      BY <3>2, CountNobody
    <3> QED BY <1>3, <1>5, <3>1, <3>2, <3>3 DEF FirstExact, CountOf, NoCount
  <2> QED BY <2>1, <2>2
<1> QED BY <1>7, <1>8, <1>10, <1>11 DEF AnalyticsInv

LEMMA FirstSnapshotInv == ASSUME AnalyticsInv, FirstSnapshot PROVE AnalyticsInv'
<1>1. /\ snapshots < MaxSnapshots /\ members' = members /\ members \subseteq Person
      /\ UNCHANGED <<dorms, chart, crashed>>
  BY MaxSnapshotsAssumption DEF FirstSnapshot, AnalyticsInv, AnalyticsTypeOK
<1>2. Read(members')
  BY <1>1 DEF FirstSnapshot
<1> QED BY <1>1, <1>2, SnapshotInv

LEMMA MembersChangeInv ==
    ASSUME AnalyticsInv, NEW u \in Person, MembersChange(u)
    PROVE  AnalyticsInv'
<1>1. /\ snapshots < MaxSnapshots /\ snapshots # 0 /\ members' \subseteq Person
      /\ UNCHANGED <<dorms, chart, crashed>>
  BY MaxSnapshotsAssumption DEF MembersChange, AnalyticsInv, AnalyticsTypeOK
<1>2. Read(members')
  BY DEF MembersChange
<1> QED BY <1>1, <1>2, SnapshotInv

(* A profile is counted once, where its group has not counted it before.   *)
LEMMA ProfileReplyInv ==
    ASSUME AnalyticsInv, NEW g \in 1..MaxSnapshots, NEW u \in Person, ProfileReply(g, u)
    PROVE  AnalyticsInv'
<1>1. /\ AnalyticsTypeOK /\ GroupsInOrder /\ CountersCover /\ FirstExact
      /\ groups \in [1..MaxSnapshots -> Group] /\ dorms \in [Dorm -> Nat]
      /\ snapshots \in Nat /\ MaxSnapshots \in Nat
  BY MaxSnapshotsAssumption DEF AnalyticsInv, AnalyticsTypeOK
<1>2. CASE u \notin Profiled
  <2>1. crashed' = TRUE /\ UNCHANGED <<members, groups, snapshots, dorms, chart>>
    BY <1>2 DEF ProfileReply
  <2>2. AnalyticsTypeOK'
    BY <1>1, <2>1 DEF AnalyticsTypeOK
  <2>3. GroupsInOrder' /\ CountersCover' /\ FirstExact'
    BY <1>1, <2>1 DEF GroupsInOrder, CountersCover, FirstExact, Counted, CountOf
  <2> QED BY <2>2, <2>3 DEF AnalyticsInv
<1>3. CASE u \in Profiled
  <2>1. PICK d \in Dorm : d = DormOf[u]
    BY DormAssumption
  <2>2. PICK n \in Nat : n = dorms[d]
    BY <1>1
  <2>3. PICK r \in Group : r = groups[g]
    BY <1>1
  <2> DEFINE s == [r EXCEPT !.waits = r.waits \ {u}]
  <2>4. /\ s \in Group /\ s.waits = r.waits \ {u} /\ s.of = r.of /\ s.phase = r.phase
        /\ u \in r.waits /\ r.waits \subseteq r.of /\ r.of \in SUBSET Person
    BY <1>1, <2>3 DEF Group, GroupsInOrder, ProfileReply
  <2>5. groups' = [groups EXCEPT ![g] = s]
    BY <1>1, <1>3, <2>3 DEF ProfileReply
  <2>6. dorms' = [dorms EXCEPT ![d] = n + 1] /\ UNCHANGED <<members, snapshots, chart, crashed>>
    BY <1>3, <2>1, <2>2 DEF ProfileReply
  <2> HIDE DEF s
  <2>7. /\ groups' \in [1..MaxSnapshots -> Group] /\ groups'[g] = s
        /\ \A h \in 1..MaxSnapshots : h # g => groups'[h] = groups[h]
    BY <1>1, <2>4, <2>5
  <2>8. dorms' \in [Dorm -> Nat] /\ \A x \in Dorm : dorms'[x] = IF x = d THEN dorms[x] + 1 ELSE dorms[x]
    BY <1>1, <2>2, <2>6
  <2>9. AnalyticsTypeOK'
    BY <1>1, <2>6, <2>7, <2>8 DEF AnalyticsTypeOK
  <2>10. GroupsInOrder'
    BY <1>1, <2>3, <2>4, <2>6, <2>7 DEF GroupsInOrder
  <2>11. PICK C \in SUBSET Person : C = Counted(g)
    BY <2>3, <2>4 DEF Counted
  <2>12. u \notin C /\ Counted(g)' = C \cup {u}
    BY <2>3, <2>4, <2>7, <2>11 DEF Counted
  <2>13. \A x \in Dorm : CountOf(C \cup {u})[x] = IF x = d THEN CountOf(C)[x] + 1 ELSE CountOf(C)[x]
    BY <2>1, <2>12, CountOneMore
  <2>14. \A x \in Dorm : CountOf(C)[x] \in Nat /\ dorms[x] \in Nat
    BY <1>1, <2>11, CountType
  <2>15. CountersCover'
    <3>1. SUFFICES ASSUME NEW h \in 1..MaxSnapshots, NEW x \in Dorm
                   PROVE  /\ dorms'[x] >= CountOf(Counted(h)')[x]
                          /\ groups'[h].phase = "drawn" => chart[x] >= CountOf(groups'[h].of)[x]
      BY <2>6 DEF CountersCover, CountOf
    <3>2. groups'[h].phase = groups[h].phase /\ groups'[h].of = groups[h].of
      BY <2>3, <2>4, <2>7
    <3>3. dorms'[x] >= CountOf(Counted(h)')[x]
      <4>1. CASE h = g
        <5>1. dorms[x] >= CountOf(C)[x]
          BY <1>1, <2>11 DEF CountersCover
        <5>2. CountOf(Counted(h)')[x] = IF x = d THEN CountOf(C)[x] + 1 ELSE CountOf(C)[x]
          BY <2>12, <2>13, <4>1
        <5> QED BY <2>8, <2>14, <5>1, <5>2
      <4>2. CASE h # g
        <5>1. PICK D \in SUBSET Person : D = Counted(h)
          BY <1>1 DEF Counted, Group
        <5>2. Counted(h)' = D
          BY <2>7, <4>2, <5>1 DEF Counted
        <5>3. CountOf(D)[x] \in Nat /\ dorms[x] >= CountOf(D)[x]
          BY <1>1, <5>1, CountType DEF CountersCover
        <5> QED BY <2>8, <2>14, <5>2, <5>3
      <4> QED BY <4>1, <4>2
    <3> QED BY <1>1, <3>2, <3>3 DEF CountersCover
  <2>16. FirstExact'
    <3>1. SUFFICES ASSUME snapshots = 0 \/ snapshots = 1 PROVE FirstExact'
      BY <2>6 DEF FirstExact
    <3>2. g <= snapshots
      BY <1>1, <2>3, <2>4 DEF GroupsInOrder
    <3>3. snapshots = 1 /\ g = 1
      BY <3>1, <3>2
    <3>4. /\ groups'[1].of = members /\ groups'[1].phase # "drawn"
          /\ dorms = CountOf(C) /\ Counted(1)' = C \cup {u}
      BY <1>1, <2>3, <2>4, <2>7, <2>11, <2>12, <3>3 DEF FirstExact, GroupsInOrder
    <3>5. \A x \in Dorm : dorms'[x] = CountOf(C \cup {u})[x]
      BY <2>8, <2>13, <3>4
    <3>6. C \cup {u} \in SUBSET Person
      OBVIOUS
    <3>7. dorms' = CountOf(C \cup {u})
      BY <2>8, <3>5, <3>6, CountType
    <3>8. CountOf(Counted(1))' = CountOf(C \cup {u})
      <4>1. CountOf(Counted(1))' = CountOf(Counted(1)')
        BY DEF CountOf
      <4> QED BY <3>4, <4>1
    <3>9. snapshots' = 1 /\ dorms' = CountOf(Counted(1))'
      BY <2>6, <3>3, <3>7, <3>8
    <3>10. groups'[1].of = members' /\ groups'[1].phase # "drawn"
      BY <2>6, <3>4
    <3> QED BY <3>9, <3>10 DEF FirstExact
  <2> QED BY <2>9, <2>10, <2>15, <2>16 DEF AnalyticsInv
<1> QED BY <1>2, <1>3

(* The charts are drawn when the group has counted everybody.              *)
LEMMA CreateChartsInv ==
    ASSUME AnalyticsInv, NEW g \in 1..MaxSnapshots, CreateCharts(g)
    PROVE  AnalyticsInv'
<1>1. /\ AnalyticsTypeOK /\ GroupsInOrder /\ CountersCover /\ FirstExact
      /\ groups \in [1..MaxSnapshots -> Group]
      /\ snapshots \in Nat /\ MaxSnapshots \in Nat
  BY MaxSnapshotsAssumption DEF AnalyticsInv, AnalyticsTypeOK
<1>2. PICK r \in Group : r = groups[g]
  BY <1>1
<1> DEFINE s == [r EXCEPT !.phase = "drawn"]
<1>3. /\ s \in Group /\ s.waits = r.waits /\ s.of = r.of /\ s.phase = "drawn"
      /\ r.waits = {} /\ r.phase = "reading"
  BY <1>2 DEF Group, CreateCharts
<1>4. /\ groups' = [groups EXCEPT ![g] = s] /\ chart' = dorms
      /\ UNCHANGED <<members, snapshots, dorms, crashed>>
  BY <1>1, <1>2 DEF CreateCharts
<1> HIDE DEF s
<1>5. /\ groups' \in [1..MaxSnapshots -> Group] /\ groups'[g] = s
      /\ \A h \in 1..MaxSnapshots : h # g => groups'[h] = groups[h]
  BY <1>1, <1>3, <1>4
<1>6. AnalyticsTypeOK'
  BY <1>1, <1>4, <1>5 DEF AnalyticsTypeOK
<1>7. GroupsInOrder'
  BY <1>1, <1>2, <1>3, <1>4, <1>5 DEF GroupsInOrder
<1>8. /\ \A h \in 1..MaxSnapshots : Counted(h)' = Counted(h) /\ groups'[h].of = groups[h].of
      /\ \A h \in 1..MaxSnapshots : groups'[h].phase = "drawn" => Counted(h) = groups[h].of
  BY <1>1, <1>2, <1>3, <1>5 DEF Counted, GroupsInOrder
<1>9. CountersCover'
  <2>1. SUFFICES ASSUME NEW h \in 1..MaxSnapshots, NEW x \in Dorm
                 PROVE  /\ dorms[x] >= CountOf(Counted(h)')[x]
                        /\ groups'[h].phase = "drawn" => dorms[x] >= CountOf(groups'[h].of)[x]
    BY <1>4 DEF CountersCover, CountOf
  <2>2. dorms[x] >= CountOf(Counted(h))[x]
    BY <1>1 DEF CountersCover
  <2> QED BY <1>8, <2>2
<1>10. FirstExact'
  <2>1. snapshots # 0
    BY <1>1, <1>2, <1>3 DEF GroupsInOrder
  <2>2. SUFFICES ASSUME snapshots = 1 PROVE FirstExact'
    BY <1>4, <2>1 DEF FirstExact
  <2>3. g = 1
    BY <1>1, <1>2, <1>3, <2>2 DEF GroupsInOrder
  <2>4. groups[1].of = members /\ dorms = CountOf(Counted(1)) /\ Counted(1) = members
    BY <1>1, <1>3, <1>5, <1>8, <2>2, <2>3 DEF FirstExact
  <2>5. groups'[1].of = members /\ Counted(1)' = members
    BY <1>8, <2>3, <2>4
  <2> QED BY <1>4, <2>1, <2>2, <2>4, <2>5 DEF FirstExact, CountOf
<1> QED BY <1>6, <1>7, <1>9, <1>10 DEF AnalyticsInv

LEMMA AnalyticsInvStep == AnalyticsInv /\ [AnalyticsNext]_analyticsVars => AnalyticsInv'
<1> SUFFICES ASSUME AnalyticsInv, [AnalyticsNext]_analyticsVars PROVE AnalyticsInv'
  OBVIOUS
<1>1. CASE UNCHANGED analyticsVars
  <2>1. AnalyticsTypeOK'
    BY <1>1 DEF analyticsVars, AnalyticsInv, AnalyticsTypeOK
  <2>2. GroupsInOrder' /\ CountersCover' /\ FirstExact'
    BY <1>1 DEF analyticsVars, AnalyticsInv, GroupsInOrder, CountersCover, FirstExact, Counted, CountOf
  <2> QED BY <2>1, <2>2 DEF AnalyticsInv
<1>2. CASE AnalyticsNext
  BY <1>2, FirstSnapshotInv, MembersChangeInv, ProfileReplyInv, CreateChartsInv DEF AnalyticsNext
<1> QED BY <1>1, <1>2

(* The inductive invariant of the charts.                                  *)
THEOREM AnalyticsInduction == AnalyticsSpec => []AnalyticsInv
  BY AnalyticsInvInit, AnalyticsInvStep, PTL DEF AnalyticsSpec

(* Variables stay within their type.                                       *)
THEOREM AnalyticsTypeCorrect == AnalyticsSpec => []AnalyticsTypeOK
<1>1. AnalyticsInv => AnalyticsTypeOK
  BY DEF AnalyticsInv
<1> QED BY <1>1, AnalyticsInduction, PTL

(* A chart counts every member of every snapshot drawn, for any number of  *)
(* snapshots that overlap; and a single snapshot exactly.                  *)
THEOREM ChartsCover == AnalyticsSpec => []NobodyUncounted
<1>1. AnalyticsInv => NobodyUncounted
  BY DEF AnalyticsInv, CountersCover, FirstExact, NobodyUncounted
<1> QED BY <1>1, AnalyticsInduction, PTL

-----------------------------------------------------------------------------
(* Tables.  The removal loop is a recursive function; what it does to the  *)
(* rows is found by the least turn that would do otherwise.                *)

(* Numbers have a least one.                                               *)
LEMMA LeastNumber ==
    ASSUME NEW T \in SUBSET Nat, T # {}
    PROVE  \E m \in T : \A n \in T : m <= n
<1> DEFINE R == OpToRel(<, Nat)
<1>1. IsWellFoundedOn(R, Nat)
  BY NatLessThanWellFounded
<1>2. \A x, y \in Nat : <<y, x>> \in R <=> y < x
  BY DEF OpToRel
<1> HIDE DEF R
<1>3. PICK m \in T : \A y \in T : ~ (<<y, m>> \in R)
  BY <1>1, WFMin
<1>4. \A y \in T : ~ (y < m)
  BY <1>2, <1>3
<1>5. \A y \in T : m <= y
  BY <1>4, SMT
<1> QED BY <1>5

LoopState == [table : Seq(Key), halted : {"none", "index"}]

Start(s) == [table |-> s, halted |-> "none"]

(* f is what the loop has left of s after each of its turns.               *)
Turns(f, s, k, n) ==
    /\ f[0] = Start(s)
    /\ \A i \in 1..n : f[i] = Turn(f[i - 1], s, k, i)

(* A walk that takes every turn is the walk of the code.                   *)
LEMMA WalkIs ==
    ASSUME NEW s, Len(s) \in Nat, NEW k, NEW S, NEW f \in [0..Len(s) -> S], Turns(f, s, k, Len(s))
    PROVE  Walk(s, k) = f
<1> DEFINE n == Len(s)
           Next(g) == [i \in 0..n |-> IF i = 0 THEN Start(s) ELSE Turn(g[i - 1], s, k, i)]
<1>1. Walk(s, k) = CHOOSE g : g = Next(g)
  BY DEF Walk, Start
<1>2. f = Next(f)
  <2>1. ASSUME NEW i \in 0..n
        PROVE  f[i] = IF i = 0 THEN Start(s) ELSE Turn(f[i - 1], s, k, i)
    <3>1. i # 0 => i \in 1..n
      OBVIOUS
    <3> QED BY <3>1 DEF Turns
  <2> QED BY <2>1
<1>3. PICK w : w = Walk(s, k) /\ w = Next(w)
  BY <1>1, <1>2
<1>4. \A i \in 0..n : w[i] = IF i = 0 THEN Start(s) ELSE Turn(w[i - 1], s, k, i)
  BY <1>3
<1> DEFINE T == {i \in 0..n : w[i] # f[i]}
<1>5. T = {}
  <2>1. SUFFICES ASSUME T # {} PROVE FALSE
    OBVIOUS
  <2>2. PICK m \in T : \A i \in T : m <= i
    <3>1. T \in SUBSET Nat
      OBVIOUS
    <3> HIDE DEF T
    <3> QED BY <2>1, <3>1, LeastNumber
  <2>3. m # 0
    BY <1>4, <2>2 DEF Turns
  <2>4. m \in 1..n /\ m - 1 \in 0..n /\ ~(m <= m - 1)
    BY <2>2, <2>3
  <2>5. m - 1 \notin T
    BY <2>2, <2>4
  <2>6. w[m - 1] = f[m - 1]
    BY <2>4, <2>5
  <2>7. w[m] = f[m]
    BY <1>4, <2>3, <2>4, <2>6 DEF Turns
  <2> QED BY <2>2, <2>7
<1>6. DOMAIN w = 0..n
  BY <1>3
<1>7. w = [i \in 0..n |-> w[i]]
  BY <1>3
<1>8. \A i \in 0..n : w[i] = f[i]
  BY <1>5
<1> HIDE DEF T, Next
<1>9. w = f
  BY <1>7, <1>8
<1> QED BY <1>3, <1>9

(* remove(at:): the row at position p goes, the later ones move up.        *)
LEMMA RowRemoved ==
    ASSUME NEW s \in Seq(Key), NEW p \in 1..Len(s)
    PROVE  /\ RemoveAt(s, p) \in Seq(Key) /\ Len(RemoveAt(s, p)) = Len(s) - 1
           /\ \A i \in 1..(p - 1) : RemoveAt(s, p)[i] = s[i]
           /\ \A i \in p..(Len(s) - 1) : RemoveAt(s, p)[i] = s[i + 1]
<1> DEFINE a == SubSeq(s, 1, p - 1)
           b == SubSeq(s, p + 1, Len(s))
<1>0. Len(s) \in Nat /\ p \in Nat
  OBVIOUS
<1>1. a \in Seq(Key) /\ Len(a) = p - 1 /\ \A i \in 1..(p - 1) : a[i] = s[i]
  BY <1>0
<1>2. b \in Seq(Key) /\ Len(b) = Len(s) - p
  BY <1>0
<1>3. \A i \in 1..(Len(s) - p) : b[i] = s[p + i]
  BY <1>0
<1>4. RemoveAt(s, p) = a \o b
  BY DEF RemoveAt
<1> HIDE DEF a, b
<1>5. a \o b \in Seq(Key)
  BY <1>1, <1>2
<1>6. Len(a \o b) = Len(s) - 1
  BY <1>0, <1>1, <1>2
<1>7. \A i \in 1..(p - 1) : (a \o b)[i] = a[i]
  BY <1>0, <1>1, <1>2
<1>8. \A i \in p..(Len(s) - 1) : (a \o b)[i] = b[i - (p - 1)]
  BY <1>0, <1>1, <1>2
<1>9. ASSUME NEW i \in p..(Len(s) - 1) PROVE b[i - (p - 1)] = s[i + 1]
  <2>1. i - (p - 1) \in 1..(Len(s) - p) /\ p + (i - (p - 1)) = i + 1
    BY <1>0
  <2> QED BY <1>3, <2>1
<1> QED BY <1>1, <1>4, <1>5, <1>6, <1>7, <1>8, <1>9

LEMMA TurnTyped ==
    ASSUME NEW live \in LoopState, NEW s, NEW k, NEW i \in Nat \ {0}
    PROVE  Turn(live, s, k, i) \in LoopState
<1>1. live.table \in Seq(Key) /\ live.halted \in {"none", "index"}
  BY DEF LoopState
<1>2. CASE s[i] # k \/ live.halted # "none"
  BY <1>2 DEF Turn
<1>3. CASE ~(s[i] # k \/ live.halted # "none") /\ i > Len(live.table)
  BY <1>1, <1>3 DEF Turn, LoopState
<1>4. CASE ~(s[i] # k \/ live.halted # "none") /\ ~(i > Len(live.table))
  <2>1. i \in 1..Len(live.table)
    BY <1>1, <1>4
  <2>2. RemoveAt(live.table, i) \in Seq(Key)
    BY <1>1, <2>1, RowRemoved
  <2> QED BY <1>4, <2>2 DEF Turn, LoopState
<1> QED BY <1>2, <1>3, <1>4

(* The loop leaves rows, or runs out of range.                             *)
LEMMA EnumeratedTyped ==
    ASSUME NEW s \in Seq(Key), NEW k
    PROVE  Enumerated(s, k) \in LoopState
<1> DEFINE n == Len(s)
           T == {m \in 0..n : ~ \E f \in [0..m -> LoopState] : Turns(f, s, k, m)}
<1>0. n \in Nat /\ Start(s) \in LoopState
  BY DEF Start, LoopState
<1>1. T = {}
  <2>1. SUFFICES ASSUME T # {} PROVE FALSE
    OBVIOUS
  <2>2. PICK m \in T : \A i \in T : m <= i
    <3>1. T \in SUBSET Nat
      OBVIOUS
    <3> HIDE DEF T
    <3> QED BY <2>1, <3>1, LeastNumber
  <2>3. m \in 0..n /\ ~ \E f \in [0..m -> LoopState] : Turns(f, s, k, m)
    BY <2>2
  <2>4. CASE m = 0
    <3> DEFINE f == [i \in 0..0 |-> Start(s)]
    <3>1. f \in [0..0 -> LoopState] /\ f[0] = Start(s)
      BY <1>0
    <3>2. Turns(f, s, k, 0)
      BY <3>1 DEF Turns
    <3> HIDE DEF f
    <3> QED BY <2>3, <2>4, <3>1, <3>2
  <2>5. CASE m # 0
    <3>1. m - 1 \in 0..n /\ ~(m <= m - 1) /\ m \in Nat \ {0}
      BY <2>3, <2>5
    <3>2. m - 1 \notin T
      BY <2>2, <3>1
    <3>3. PICK f \in [0..(m - 1) -> LoopState] : Turns(f, s, k, m - 1)
      BY <3>1, <3>2
    <3>4. f[m - 1] \in LoopState
      BY <3>1
    <3>5. PICK last \in LoopState : last = Turn(f[m - 1], s, k, m)
      BY <3>1, <3>4, TurnTyped
    <3> DEFINE g == [i \in 0..m |-> IF i = m THEN last ELSE f[i]]
    <3>6. \A i \in 0..m : i # m => i \in 0..(m - 1)
      BY <3>1
    <3>7. g \in [0..m -> LoopState]
      BY <3>6
    <3>8. g[m] = last /\ \A i \in 0..(m - 1) : g[i] = f[i]
      BY <3>1
    <3> HIDE DEF g
    <3>9. ASSUME NEW i \in 1..m PROVE g[i] = Turn(g[i - 1], s, k, i)
      <4>1. CASE i = m
        BY <3>1, <3>5, <3>8, <4>1
      <4>2. CASE i # m
        <5>1. i \in 1..(m - 1) /\ i \in 0..(m - 1) /\ i - 1 \in 0..(m - 1)
          BY <3>1, <4>2
        <5> QED BY <3>3, <3>8, <5>1 DEF Turns
      <4> QED BY <4>1, <4>2
    <3>10. g[0] = Start(s)
      BY <3>1, <3>3, <3>8 DEF Turns
    <3>11. Turns(g, s, k, m)
      BY <3>9, <3>10 DEF Turns
    <3> QED BY <2>3, <3>7, <3>11
  <2> QED BY <2>4, <2>5
<1>2. n \notin T /\ n \in 0..n
  BY <1>0, <1>1
<1>3. PICK f \in [0..n -> LoopState] : Turns(f, s, k, n)
  BY <1>2
<1>4. Walk(s, k) = f
  BY <1>0, <1>3, WalkIs
<1> QED BY <1>2, <1>3, <1>4 DEF Enumerated

LEMMA NoneRemoved ==
    ASSUME NEW s \in Seq(Key), NEW k, \A i \in 1..Len(s) : s[i] # k
    PROVE  Enumerated(s, k) = Start(s)
<1> DEFINE n == Len(s)
           f == [i \in 0..n |-> Start(s)]
<1>1. n \in Nat /\ Start(s) \in LoopState
  BY DEF Start, LoopState
<1>2. f \in [0..n -> LoopState] /\ \A i \in 0..n : f[i] = Start(s)
  BY <1>1
<1>3. 0 \in 0..n /\ n \in 0..n /\ \A i \in 1..n : i \in 0..n /\ i - 1 \in 0..n
  BY <1>1
<1> HIDE DEF f
<1>4. Turns(f, s, k, n)
  BY <1>2, <1>3 DEF Turns, Turn
<1>5. Walk(s, k) = f
  BY <1>1, <1>2, <1>4, WalkIs
<1> QED BY <1>2, <1>3, <1>5 DEF Enumerated

LEMMA OneRemoved ==
    ASSUME NEW s \in Seq(Key), NEW k, NEW p \in 1..Len(s), \A i \in 1..Len(s) : s[i] = k <=> i = p
    PROVE  Enumerated(s, k) = [table |-> RemoveAt(s, p), halted |-> "none"]
<1> DEFINE n == Len(s)
<1>1. n \in Nat /\ Start(s) \in LoopState /\ Start(s).halted = "none" /\ Start(s).table = s
  BY DEF Start, LoopState
<1>2. RemoveAt(s, p) \in Seq(Key)
  BY RowRemoved
<1>3. PICK after \in LoopState : after = [table |-> RemoveAt(s, p), halted |-> "none"]
  BY <1>2 DEF LoopState
<1> DEFINE f == [i \in 0..n |-> IF i < p THEN Start(s) ELSE after]
<1>4. f \in [0..n -> LoopState] /\ \A i \in 0..n : f[i] = IF i < p THEN Start(s) ELSE after
  BY <1>1
<1>5. 0 \in 0..n /\ n \in 0..n /\ 0 < p /\ ~(n < p) /\ \A i \in 1..n : i \in 0..n /\ i - 1 \in 0..n
  BY <1>1
<1> HIDE DEF f
<1>6. ASSUME NEW i \in 1..n PROVE f[i] = Turn(f[i - 1], s, k, i)
  <2>1. CASE i < p
    <3>1. i - 1 < p /\ i # p
      BY <1>1, <2>1
    <3> QED BY <1>4, <1>5, <2>1, <3>1 DEF Turn
  <2>2. CASE i = p
    <3>1. i - 1 < p /\ ~(i < p) /\ ~(i > Len(s))
      BY <1>1, <2>2
    <3>2. f[i - 1] = Start(s) /\ f[i] = after /\ s[i] = k
      BY <1>4, <1>5, <2>2, <3>1
    <3> QED BY <1>1, <1>3, <2>2, <3>1, <3>2 DEF Turn
  <2>3. CASE i > p
    <3>1. ~(i - 1 < p) /\ i # p /\ ~(i < p)
      BY <1>1, <2>3
    <3> QED BY <1>4, <1>5, <2>3, <3>1 DEF Turn
  <2> QED BY <1>1, <2>1, <2>2, <2>3
<1>7. f[0] = Start(s)
  BY <1>4, <1>5
<1>8. Turns(f, s, k, n)
  BY <1>6, <1>7 DEF Turns
<1>9. Walk(s, k) = f
  BY <1>1, <1>4, <1>8, WalkIs
<1> QED BY <1>3, <1>4, <1>5, <1>9 DEF Enumerated

-----------------------------------------------------------------------------
(* As long as nothing left while it was loading: an entry has a load or a  *)
(* row, never both and never two, and nothing else has either.             *)
TableAtRest ==
    /\ \A k \in Key : naming[k] + picturing[k] <= 1
    /\ \A k \in Key : naming[k] + picturing[k] > 0 =>
          k \in list \ unpictured /\ \A i \in 1..Len(table) : table[i] # k
    /\ \A k \in list \ unpictured : naming[k] + picturing[k] = 0 =>
          \E i \in 1..Len(table) : table[i] = k
    /\ \A i \in 1..Len(table) : table[i] \in list \ unpictured
    /\ \A i, j \in 1..Len(table) : table[i] = table[j] => i = j

TableInv ==
    /\ TableTypeOK
    /\ hasty = {} => halted # "index" /\ (halted = "none" => TableAtRest)

LEMMA TableInvInit == TableInit => TableInv
<1> SUFFICES ASSUME TableInit PROVE TableInv
  OBVIOUS
<1>1. table = <<>> /\ table \in Seq(Key) /\ 1..Len(table) = {}
  BY DEF TableInit
<1>2. TableTypeOK
  BY <1>1 DEF TableInit, TableTypeOK
<1>3. TableAtRest
  BY <1>1 DEF TableInit, TableAtRest
<1> QED BY <1>2, <1>3 DEF TableInit, TableInv

(* An entry that is added has no row and no load yet.                      *)
LEMMA AddedInv == ASSUME TableInv, NEW k \in Key, Added(k) PROVE TableInv'
<1>1. /\ TableTypeOK /\ naming \in [Key -> Nat] /\ picturing \in [Key -> Nat]
      /\ k \notin list /\ halted = "none"
      /\ list' = list \cup {k} /\ unpictured' = unpictured \ {k}
      /\ UNCHANGED <<named, table, picturing, hasty, halted>>
  BY DEF TableInv, TableTypeOK, Added
<1>2. PICK n \in Nat : n = naming[k]
  BY <1>1
<1>3. naming' = [naming EXCEPT ![k] = n + 1]
  BY <1>2 DEF Added
<1>4. naming' \in [Key -> Nat] /\ \A j \in Key : naming'[j] = IF j = k THEN n + 1 ELSE naming[j]
  BY <1>1, <1>3
<1>5. TableTypeOK'
  BY <1>1, <1>4 DEF TableTypeOK
<1>6. ASSUME TableAtRest PROVE TableAtRest'
  <2>1. n = 0 /\ picturing[k] = 0
    BY <1>1, <1>2, <1>6 DEF TableAtRest
  <2>2. \A i \in 1..Len(table) : table[i] # k
    BY <1>1, <1>6 DEF TableAtRest
  <2>3. k \in list' \ unpictured'
    BY <1>1
  <2>4. \A j \in Key : j # k => /\ j \in list' \ unpictured' <=> j \in list \ unpictured
                                /\ naming'[j] + picturing'[j] = naming[j] + picturing[j]
    BY <1>1, <1>4
  <2>5. naming'[k] + picturing'[k] = 1
    BY <1>1, <1>4, <2>1
  <2>6. list \subseteq Key /\ list' \subseteq Key
    BY <1>1 DEF TableTypeOK
  <2>7. table' = table
    BY <1>1
  <2>8. \A j \in Key : naming'[j] + picturing'[j] <= 1
    BY <1>6, <2>4, <2>5 DEF TableAtRest
  <2>9. \A j \in Key : naming'[j] + picturing'[j] > 0 =>
            j \in list' \ unpictured' /\ \A i \in 1..Len(table) : table[i] # j
    BY <1>6, <2>2, <2>3, <2>4 DEF TableAtRest
  <2>10. \A j \in list' \ unpictured' : naming'[j] + picturing'[j] = 0 =>
             \E i \in 1..Len(table) : table[i] = j
    BY <1>6, <2>4, <2>5, <2>6 DEF TableAtRest
  <2>11. \A i \in 1..Len(table) : table[i] \in list' \ unpictured'
    BY <1>1, <1>6, <2>2 DEF TableAtRest
  <2> QED BY <1>6, <2>7, <2>8, <2>9, <2>10, <2>11 DEF TableAtRest
<1> QED BY <1>1, <1>5, <1>6 DEF TableInv

(* A lookup turns into a download, or stops the app.                       *)
LEMMA NameReplyInv == ASSUME TableInv, NEW k \in Key, NameReply(k) PROVE TableInv'
<1>1. /\ TableTypeOK /\ naming \in [Key -> Nat] /\ picturing \in [Key -> Nat]
      /\ naming[k] > 0 /\ halted = "none"
      /\ UNCHANGED <<list, named, table, unpictured, hasty>>
  BY DEF TableInv, TableTypeOK, NameReply
<1>2. PICK n \in Nat : naming[k] = n + 1
  <2>1. naming[k] - 1 \in Nat /\ naming[k] = (naming[k] - 1) + 1
    BY <1>1
  <2> QED BY <2>1
<1>3. naming' = [naming EXCEPT ![k] = n]
  <2>1. naming' = [naming EXCEPT ![k] = naming[k] - 1] /\ naming[k] - 1 = n
    BY <1>2 DEF NameReply
  <2> QED BY <2>1
<1>4. naming' \in [Key -> Nat] /\ \A j \in Key : naming'[j] = IF j = k THEN n ELSE naming[j]
  BY <1>1, <1>3
<1>5. CASE k \notin named
  <2>1. halted' = "name" /\ picturing' = picturing
    BY <1>5 DEF NameReply
  <2>2. TableTypeOK'
    BY <1>1, <1>4, <2>1 DEF TableTypeOK
  <2> QED BY <2>1, <2>2 DEF TableInv
<1>6. CASE k \in named
  <2>1. PICK m \in Nat : m = picturing[k]
    BY <1>1
  <2>2. picturing' = [picturing EXCEPT ![k] = m + 1] /\ halted' = halted
    BY <1>6, <2>1 DEF NameReply
  <2>3. /\ picturing' \in [Key -> Nat]
        /\ \A j \in Key : picturing'[j] = IF j = k THEN m + 1 ELSE picturing[j]
    BY <1>1, <2>2
  <2>4. TableTypeOK'
    BY <1>1, <1>4, <2>2, <2>3 DEF TableTypeOK
  <2>5. \A j \in Key : naming'[j] + picturing'[j] = naming[j] + picturing[j]
    BY <1>2, <1>4, <2>1, <2>3
  <2>6. list \subseteq Key
    BY <1>1 DEF TableTypeOK
  <2>7. TableAtRest => TableAtRest'
    BY <1>1, <2>5, <2>6 DEF TableAtRest
  <2> QED BY <1>1, <2>2, <2>4, <2>7 DEF TableInv
<1> QED BY <1>5, <1>6

(* A download that ends makes the row, or leaves the entry without.        *)
LEMMA DownloadInv ==
    ASSUME TableInv, NEW k \in Key, DownloadReply(k) \/ DownloadFails(k)
    PROVE  TableInv'
<1>1. /\ TableTypeOK /\ naming \in [Key -> Nat] /\ picturing \in [Key -> Nat]
      /\ table \in Seq(Key) /\ list \subseteq Key
      /\ picturing[k] > 0 /\ halted = "none"
      /\ UNCHANGED <<list, named, naming, hasty, halted>>
  BY DEF TableInv, TableTypeOK, DownloadReply, DownloadFails
<1>2. PICK n \in Nat : picturing[k] = n + 1
  <2>1. picturing[k] - 1 \in Nat /\ picturing[k] = (picturing[k] - 1) + 1
    BY <1>1
  <2> QED BY <2>1
<1>3. picturing' = [picturing EXCEPT ![k] = n]
  <2>1. picturing' = [picturing EXCEPT ![k] = picturing[k] - 1] /\ picturing[k] - 1 = n
    BY <1>2 DEF DownloadReply, DownloadFails
  <2> QED BY <2>1
<1>4. picturing' \in [Key -> Nat] /\ \A j \in Key : picturing'[j] = IF j = k THEN n ELSE picturing[j]
  BY <1>1, <1>3
<1>5. ASSUME TableAtRest
      PROVE  /\ naming[k] = 0 /\ n = 0 /\ k \in list \ unpictured
             /\ \A i \in 1..Len(table) : table[i] # k
             /\ \A j \in Key : j # k => naming'[j] + picturing'[j] = naming[j] + picturing[j]
             /\ naming'[k] + picturing'[k] = 0
  <2>1. naming[k] + picturing[k] <= 1 /\ naming[k] \in Nat
    BY <1>1, <1>5 DEF TableAtRest
  <2>2. naming[k] = 0 /\ n = 0
    BY <1>2, <2>1
  <2>3. naming[k] + picturing[k] > 0
    BY <1>2, <2>2
  <2>4. k \in list \ unpictured /\ \A i \in 1..Len(table) : table[i] # k
    BY <1>5, <2>3 DEF TableAtRest
  <2> QED BY <1>1, <1>4, <2>2, <2>4
<1>6. CASE DownloadFails(k)
  <2>1. unpictured' = unpictured \cup ({k} \cap list) /\ table' = table
    BY <1>6 DEF DownloadFails
  <2>2. TableTypeOK'
    BY <1>1, <1>4, <2>1 DEF TableTypeOK
  <2>3. ASSUME TableAtRest PROVE TableAtRest'
    <3>1. unpictured' = unpictured \cup {k}
      BY <1>5, <2>1, <2>3
    <3>2. \A j \in Key : naming'[j] + picturing'[j] <= 1
      BY <1>5, <2>3 DEF TableAtRest
    <3>3. \A j \in Key : naming'[j] + picturing'[j] > 0 =>
              j \in list \ unpictured' /\ \A i \in 1..Len(table) : table[i] # j
      BY <1>5, <2>3, <3>1 DEF TableAtRest
    <3>4. \A j \in list \ unpictured' : naming'[j] + picturing'[j] = 0 =>
              \E i \in 1..Len(table) : table[i] = j
      BY <1>1, <1>5, <2>3, <3>1 DEF TableAtRest
    <3>5. \A i \in 1..Len(table) : table[i] \in list \ unpictured'
      BY <1>5, <2>3, <3>1 DEF TableAtRest
    <3> QED BY <1>1, <2>1, <2>3, <3>2, <3>3, <3>4, <3>5 DEF TableAtRest
  <2> QED BY <1>1, <2>2, <2>3 DEF TableInv
<1>7. CASE DownloadReply(k)
  <2>1. PICK t \in Seq(Key) : t = Append(table, k)
    BY <1>1, OneMoreRow
  <2>2. table' = t /\ unpictured' = unpictured
    BY <1>7, <2>1 DEF DownloadReply
  <2>3. PICK m \in Nat : m = Len(table)
    BY <1>1
  <2>4. /\ Len(t) = m + 1 /\ t[m + 1] = k /\ m + 1 \in 1..Len(t)
        /\ \A i \in 1..m : t[i] = table[i] /\ i \in 1..Len(t)
        /\ \A i \in 1..Len(t) : i = m + 1 \/ i \in 1..m
    BY <1>1, <2>1, <2>3
  <2>5. TableTypeOK'
    BY <1>1, <1>4, <2>2 DEF TableTypeOK
  <2>6. ASSUME TableAtRest PROVE TableAtRest'
    <3>1. \A j \in Key : naming'[j] + picturing'[j] <= 1
      BY <1>5, <2>6 DEF TableAtRest
    <3>2. \A j \in Key : naming'[j] + picturing'[j] > 0 =>
              j \in list \ unpictured /\ \A i \in 1..Len(t) : t[i] # j
      BY <1>5, <2>3, <2>4, <2>6 DEF TableAtRest
    <3>3. \A j \in list \ unpictured : naming'[j] + picturing'[j] = 0 =>
              \E i \in 1..Len(t) : t[i] = j
      <4>1. SUFFICES ASSUME NEW j \in list \ unpictured, naming'[j] + picturing'[j] = 0, j # k
                     PROVE  \E i \in 1..Len(t) : t[i] = j
        BY <2>4
      <4>2. PICK i \in 1..m : table[i] = j
        BY <1>1, <1>5, <2>3, <2>6, <4>1 DEF TableAtRest
      <4> QED BY <2>4, <4>2
    <3>4. \A i \in 1..Len(t) : t[i] \in list \ unpictured
      BY <1>5, <2>3, <2>4, <2>6 DEF TableAtRest
    <3>5. \A i, j \in 1..Len(t) : t[i] = t[j] => i = j
      BY <1>5, <2>3, <2>4, <2>6 DEF TableAtRest
    <3> QED BY <1>1, <2>2, <3>1, <3>2, <3>3, <3>4, <3>5 DEF TableAtRest
  <2> QED BY <1>1, <2>5, <2>6 DEF TableInv
<1> QED BY <1>6, <1>7

(* An entry that leaves loaded takes its row along: the walk meets one     *)
(* row at most, and never runs out.                                        *)
LEMMA RemovedInv == ASSUME TableInv, NEW k \in Key, Removed(k) PROVE TableInv'
<1>1. /\ TableTypeOK /\ naming \in [Key -> Nat] /\ picturing \in [Key -> Nat]
      /\ table \in Seq(Key) /\ list \subseteq Key /\ unpictured \subseteq list
      /\ k \in list /\ halted = "none"
      /\ list' = list \ {k} /\ unpictured' = unpictured \ {k}
      /\ UNCHANGED <<named, naming, picturing>>
  BY DEF TableInv, TableTypeOK, Removed
<1>2. PICK s \in Seq(Key) : s = table
  BY <1>1
<1>3. PICK live \in LoopState : live = Enumerated(s, k)
  BY EnumeratedTyped
<1>4. table' = live.table /\ halted' = live.halted
  BY <1>2, <1>3 DEF Removed
<1>5. live.table \in Seq(Key) /\ live.halted \in {"none", "index"}
  BY DEF LoopState
<1>6. hasty' = IF naming[k] + picturing[k] > 0 THEN hasty \cup {k} ELSE hasty
  BY DEF Removed, Loads
<1>7. TableTypeOK'
  BY <1>1, <1>4, <1>5, <1>6 DEF TableTypeOK
<1>8. ASSUME hasty' = {} PROVE halted' = "none" /\ TableAtRest'
  <2>1. TableAtRest /\ naming[k] + picturing[k] = 0
    <3>1. hasty = {} /\ ~(naming[k] + picturing[k] > 0)
      BY <1>6, <1>8
    <3>2. naming[k] \in Nat /\ picturing[k] \in Nat
      BY <1>1
    <3> QED BY <1>1, <3>1, <3>2 DEF TableInv
  <2>2. PICK n \in Nat : n = Len(s)
    OBVIOUS
  <2>3. \A j \in list' \ unpictured' : j # k /\ j \in list \ unpictured
    BY <1>1
  <2>4. \A j \in list \ unpictured : j # k => j \in list' \ unpictured'
    BY <1>1
  <2>5. \A i, j \in 1..n : s[i] = s[j] => i = j
    BY <1>2, <2>1, <2>2 DEF TableAtRest
  <2>6. \A i \in 1..n : s[i] \in list \ unpictured
    BY <1>2, <2>1, <2>2 DEF TableAtRest
  <2>7. /\ halted' = "none"
        /\ \A j \in Key \ {k} : (\E i \in 1..Len(live.table) : live.table[i] = j)
                                    <=> \E i \in 1..n : s[i] = j
        /\ \A i \in 1..Len(live.table) : live.table[i] \in list \ unpictured /\ live.table[i] # k
        /\ \A i, j \in 1..Len(live.table) : live.table[i] = live.table[j] => i = j
    <3>1. CASE \A i \in 1..n : s[i] # k
      <4>1. live = Start(s)
        BY <1>3, <2>2, <3>1, NoneRemoved
      <4>2. live.table = s /\ live.halted = "none"
        BY <4>1 DEF Start
      <4> QED BY <1>4, <2>2, <2>5, <2>6, <3>1, <4>2
    <3>2. CASE \E i \in 1..n : s[i] = k
      <4>1. PICK p \in 1..Len(s) : s[p] = k
        BY <2>2, <3>2
      <4>2. \A i \in 1..Len(s) : s[i] = k <=> i = p
        BY <2>2, <2>5, <4>1
      <4>3. live = [table |-> RemoveAt(s, p), halted |-> "none"]
        BY <1>3, <4>2, OneRemoved
      <4>4. PICK t \in Seq(Key) : t = RemoveAt(s, p)
        BY RowRemoved
      <4>5. live.table = t /\ live.halted = "none"
        BY <4>3, <4>4
      <4>6. /\ Len(t) = n - 1 /\ \A i \in 1..(p - 1) : t[i] = s[i]
            /\ \A i \in p..(n - 1) : t[i] = s[i + 1]
        BY <2>2, <4>4, RowRemoved
      <4> DEFINE old(i) == IF i < p THEN i ELSE i + 1
      <4>7. ASSUME NEW i \in 1..Len(t)
            PROVE  old(i) \in 1..n /\ t[i] = s[old(i)] /\ old(i) # p
        <5>1. CASE i < p
          <6>1. i \in 1..(p - 1) /\ i \in 1..n
            BY <2>2, <4>6, <5>1
          <6> QED BY <4>6, <5>1, <6>1
        <5>2. CASE ~(i < p)
          <6>1. i \in p..(n - 1) /\ i + 1 \in 1..n /\ i + 1 # p
            BY <2>2, <4>6, <5>2
          <6> QED BY <4>6, <5>2, <6>1
        <5> QED BY <5>1, <5>2
      <4>8. \A i, j \in 1..Len(t) : old(i) = old(j) => i = j
        BY <2>2, <4>6
      <4>9. ASSUME NEW i \in 1..n, i # p
            PROVE  \E j \in 1..Len(t) : t[j] = s[i]
        <5>1. CASE i < p
          <6>1. i \in 1..(p - 1) /\ i \in 1..Len(t)
            BY <2>2, <4>6, <5>1
          <6> QED BY <4>6, <6>1
        <5>2. CASE i > p
          <6>1. i - 1 \in p..(n - 1) /\ i - 1 \in 1..Len(t) /\ (i - 1) + 1 = i
            BY <2>2, <4>6, <5>2
          <6> QED BY <4>6, <6>1
        <5> QED BY <2>2, <4>9, <5>1, <5>2
      <4> HIDE DEF old
      <4>10. \A i \in 1..Len(t) : t[i] \in list \ unpictured /\ t[i] # k
        BY <2>2, <2>6, <4>2, <4>7
      <4>11. \A i, j \in 1..Len(t) : t[i] = t[j] => i = j
        BY <2>5, <4>7, <4>8
      <4>12. \A j \in Key \ {k} : (\E i \in 1..Len(t) : t[i] = j) <=> \E i \in 1..n : s[i] = j
        BY <4>1, <4>7, <4>9
      <4> QED BY <1>4, <4>5, <4>10, <4>11, <4>12
    <3> QED BY <3>1, <3>2
  <2>8. PICK t \in Seq(Key) : t = live.table
    BY <1>5
  <2>9. \A j \in Key : naming'[j] + picturing'[j] = naming[j] + picturing[j]
    BY <1>1
  <2>10. \A j \in Key : naming[j] + picturing[j] > 0 =>
             j \in list' \ unpictured' /\ \A i \in 1..Len(t) : t[i] # j
    <3>1. SUFFICES ASSUME NEW j \in Key, naming[j] + picturing[j] > 0
                   PROVE  j \in list' \ unpictured' /\ \A i \in 1..Len(t) : t[i] # j
      OBVIOUS
    <3>2. j # k /\ j \in list \ unpictured /\ \A i \in 1..n : s[i] # j
      BY <1>1, <1>2, <2>1, <2>2, <3>1 DEF TableAtRest
    <3>3. ~ \E i \in 1..Len(t) : t[i] = j
      BY <2>7, <2>8, <3>2
    <3> QED BY <2>4, <3>2, <3>3
  <2>11. \A j \in list' \ unpictured' : naming[j] + picturing[j] = 0 =>
             \E i \in 1..Len(t) : t[i] = j
    <3>1. SUFFICES ASSUME NEW j \in list' \ unpictured', naming[j] + picturing[j] = 0
                   PROVE  \E i \in 1..Len(t) : t[i] = j
      OBVIOUS
    <3>2. j \in Key \ {k} /\ j \in list \ unpictured
      BY <1>1, <2>3
    <3>3. \E i \in 1..n : s[i] = j
      BY <1>2, <2>1, <2>2, <3>1, <3>2 DEF TableAtRest
    <3> QED BY <2>7, <2>8, <3>2, <3>3
  <2>12. \A i \in 1..Len(t) : t[i] \in list' \ unpictured'
    BY <2>4, <2>7, <2>8
  <2>13. \A j \in Key : naming[j] + picturing[j] <= 1
    BY <2>1 DEF TableAtRest
  <2>14. table' = t /\ UNCHANGED <<naming, picturing>>
    BY <1>1, <1>4, <2>8
  <2> QED BY <2>7, <2>8, <2>10, <2>11, <2>12, <2>13, <2>14 DEF TableAtRest
<1> QED BY <1>7, <1>8 DEF TableInv

LEMMA NamedInv == ASSUME TableInv, NEW k \in Key, Named(k) PROVE TableInv'
<1>1. named' = named \cup {k} /\ UNCHANGED <<list, table, naming, picturing, unpictured, hasty, halted>>
  BY DEF Named
<1>2. TableTypeOK'
  BY <1>1 DEF TableInv, TableTypeOK
<1>3. TableAtRest => TableAtRest'
  BY <1>1 DEF TableAtRest
<1> QED BY <1>1, <1>2, <1>3 DEF TableInv

LEMMA TableInvStep == TableInv /\ [TableNext]_tableVars => TableInv'
<1> SUFFICES ASSUME TableInv, [TableNext]_tableVars PROVE TableInv'
  OBVIOUS
<1>1. CASE UNCHANGED tableVars
  <2>1. TableTypeOK'
    BY <1>1 DEF tableVars, TableInv, TableTypeOK
  <2>2. TableAtRest => TableAtRest'
    BY <1>1 DEF tableVars, TableAtRest
  <2> QED BY <1>1, <2>1, <2>2 DEF tableVars, TableInv
<1>2. CASE TableNext
  BY <1>2, AddedInv, NameReplyInv, DownloadInv, RemovedInv, NamedInv DEF TableNext
<1> QED BY <1>1, <1>2

(* The inductive invariant of the tables.                                  *)
THEOREM TableInduction == TableSpec => []TableInv
  BY TableInvInit, TableInvStep, PTL DEF TableSpec

(* Variables stay within their type.                                       *)
THEOREM TableTypeCorrect == TableSpec => []TableTypeOK
<1>1. TableInv => TableTypeOK
  BY DEF TableInv
<1> QED BY <1>1, TableInduction, PTL

(* As long as no entry leaves while it loads, the table is the list, in    *)
(* whatever order entries come, go and load, and the removal walk stays    *)
(* within the rows.                                                        *)
THEOREM TablesAreLists == TableSpec => []TableIsList
<1>1. TableInv => TableIsList
  <2>1. SUFFICES ASSUME TableInv, hasty = {}, halted = "none", NEW k \in Key
                 PROVE  Cardinality(RowsOf(k)) + Loads(k)
                            = IF k \in list \ unpictured THEN 1 ELSE 0
    BY DEF TableInv, TableIsList
  <2>2. TableAtRest /\ naming[k] \in Nat /\ picturing[k] \in Nat
    BY <2>1 DEF TableInv, TableTypeOK
  <2>3. PICK n \in Nat : n = naming[k] + picturing[k]
    BY <2>2
  <2>4. CASE \E i \in 1..Len(table) : table[i] = k
    <3>1. PICK i \in 1..Len(table) : table[i] = k
      BY <2>4
    <3>2. RowsOf(k) = {i}
      BY <2>2, <3>1 DEF TableAtRest, RowsOf
    <3>3. Cardinality(RowsOf(k)) = 1
      BY <3>2, FS_Singleton
    <3>4. k \in list \ unpictured /\ ~(n > 0)
      BY <2>2, <2>3, <3>1 DEF TableAtRest
    <3> QED BY <2>3, <3>3, <3>4 DEF Loads
  <2>5. CASE ~ \E i \in 1..Len(table) : table[i] = k
    <3>1. RowsOf(k) = {}
      BY <2>5 DEF RowsOf
    <3>2. Cardinality(RowsOf(k)) = 0
      BY <3>1, FS_EmptySet
    <3>3. n <= 1
      BY <2>2, <2>3 DEF TableAtRest
    <3>4. k \in list \ unpictured <=> n > 0
      BY <2>2, <2>3, <2>5 DEF TableAtRest
    <3> QED BY <2>3, <3>2, <3>3, <3>4 DEF Loads
  <2> QED BY <2>4, <2>5
<1> QED BY <1>1, TableInduction, PTL
=============================================================================
