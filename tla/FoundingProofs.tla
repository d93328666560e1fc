---------------------------- MODULE FoundingProofs ----------------------------
(***************************************************************************)
(* Clubs in the founders' lists, for every number of phones, users, forms  *)
(* and clubs and for every length of the write queues.                     *)
(***************************************************************************)
EXTENDS Founding, DatabaseProofs

-----------------------------------------------------------------------------
(* Leaves.                                                                 *)

(* What a club must have before a list may name it.                        *)
Base(u, c) == {Info(c), Admin(c, u), Member(c, u)}

Entries(c) == {AdminEntry(u, c) : u \in User} \cup {ClubEntry(u, c) : u \in User}

(* Everything that speaks of club c.                                       *)
About(c) == Node(c) \cup Entries(c)

LEMMA AboutLeaves ==
    ASSUME NEW c \in Club
    PROVE  /\ About(c) \subseteq FoundingLeaf
           /\ Photos(c) \subseteq About(c) /\ Node(c) \subseteq About(c)
           /\ \A u \in User : /\ Base(u, c) \subseteq Node(c)
                              /\ AdminEntry(u, c) \in About(c) /\ ClubEntry(u, c) \in About(c)
                              /\ Member(c, u) \in About(c)
<1>1. Node(c) \subseteq FoundingLeaf /\ Entries(c) \subseteq FoundingLeaf
  BY DEF FoundingLeaf, Entries
<1>2. Photos(c) \subseteq Node(c) /\ \A u \in User : Base(u, c) \subseteq Node(c)
  BY DEF Node, Base
<1>3. \A u \in User : AdminEntry(u, c) \in Entries(c) /\ ClubEntry(u, c) \in Entries(c)
  BY DEF Entries
<1> QED BY <1>1, <1>2, <1>3 DEF About, Base

(* No leaf speaks of two clubs.                                            *)
LEMMA AboutApart ==
    ASSUME NEW b \in Club, NEW c \in Club, b # c
    PROVE  About(b) \cap About(c) = {}
<1>1. ASSUME NEW k \in Club, NEW p \in About(k)
      PROVE  \/ p.root = "clubs" /\ p.of = k
             \/ p.root = "users" /\ p.key = k
  BY <1>1 DEF About, Entries, Node, Photos, Info, Admin, Member, PhotoUrl, AdminEntry, ClubEntry
<1> SUFFICES ASSUME NEW p \in About(b), p \in About(c) PROVE FALSE
  OBVIOUS
<1>2. (p.root = "clubs" /\ p.of = b) \/ (p.root = "users" /\ p.key = b)
  BY <1>1
<1>3. (p.root = "clubs" /\ p.of = c) \/ (p.root = "users" /\ p.key = c)
  BY <1>1
<1> QED BY <1>2, <1>3

(* An entry of admin_clubs is no part of a node, no entry of clubs, and    *)
(* its owner's alone; a club's picture is none of its other parts.         *)
LEMMA EntryApart ==
    ASSUME NEW u, NEW c
    PROVE  /\ \A b \in Club : AdminEntry(u, c) \notin Node(b)
           /\ \A v, b : AdminEntry(u, c) # ClubEntry(v, b)
           /\ \A v, b : AdminEntry(u, c) # Member(b, v)
           /\ \A v : v # u => AdminEntry(v, c) # AdminEntry(u, c)
           /\ \A b \in Club : Photos(b) \cap Base(u, c) = {}
<1>1. AdminEntry(u, c).root = "users" /\ AdminEntry(u, c).list = "admin_clubs"
  BY DEF AdminEntry
<1>2. \A b \in Club : \A p \in Node(b) : p.root = "clubs"
  BY DEF Node, Photos, Info, Admin, Member, PhotoUrl
<1>3. \A v, b : ClubEntry(v, b).list = "clubs" /\ Member(b, v).root = "clubs" /\ AdminEntry(v, b).of = v
  BY DEF ClubEntry, Member, AdminEntry
<1>4. \A b \in Club : Photos(b) \cap Base(u, c) = {}
  BY DEF Photos, Base, PhotoUrl, Info, Admin, Member
<1> QED BY <1>1, <1>2, <1>3, <1>4

(* An entry of clubs is in no node; a member and the fields are in their    *)
(* club's node only, and none of them is a picture.                        *)
LEMMA PartsApart ==
    ASSUME NEW u \in User, NEW c \in Club, NEW b \in Club
    PROVE  /\ ClubEntry(u, c) \notin Node(b)
           /\ Member(c, u) \in Node(b) => b = c
           /\ Photos(c) \cap Node(b) # {} => b = c
           /\ ClubEntry(u, c) \notin Photos(b) /\ Member(c, u) \notin Photos(b)
           /\ \A v : AdminEntry(v, b) # ClubEntry(u, c) /\ AdminEntry(v, b) # Member(c, u)
           /\ \A v : ClubEntry(v, b) \notin Photos(c) /\ Member(b, v) \notin Photos(c)
           /\ \A v : AdminEntry(v, b) \notin Photos(c)
           /\ ClubEntry(u, c) # Member(c, u)
<1>1. \A p \in Node(b) : p.root = "clubs" /\ p.of = b
  BY DEF Node, Photos, Info, Admin, Member, PhotoUrl
<1>2. \A k \in Club : \A p \in Photos(k) : p.root = "clubs" /\ p.of = k /\ p.list = "photo_url"
  BY DEF Photos, PhotoUrl
<1>3. \A v, k : /\ ClubEntry(v, k).root = "users" /\ ClubEntry(v, k).list = "clubs"
               /\ AdminEntry(v, k).root = "users" /\ AdminEntry(v, k).list = "admin_clubs"
               /\ Member(k, v).root = "clubs" /\ Member(k, v).list = "members" /\ Member(k, v).of = k
  BY DEF ClubEntry, AdminEntry, Member
<1>4. "users" # "clubs" /\ "admin_clubs" # "clubs" /\ "members" # "photo_url"
  OBVIOUS
<1>5. Photos(c) \cap Node(b) # {} => b = c
  BY <1>1, <1>2
<1>6. /\ ClubEntry(u, c) \notin Node(b)
      /\ Member(c, u) \in Node(b) => b = c
  BY <1>1, <1>3
<1>7. /\ ClubEntry(u, c) \notin Photos(b) /\ Member(c, u) \notin Photos(b)
      /\ \A v : ClubEntry(v, b) \notin Photos(c) /\ Member(b, v) \notin Photos(c)
      /\ \A v : AdminEntry(v, b) \notin Photos(c)
  BY <1>2, <1>3, <1>4
<1>8. /\ \A v : AdminEntry(v, b) # ClubEntry(u, c) /\ AdminEntry(v, b) # Member(c, u)
      /\ ClubEntry(u, c) # Member(c, u)
  BY <1>3, <1>4
<1> QED BY <1>5, <1>6, <1>7, <1>8

-----------------------------------------------------------------------------
(* Types.  A key that was not generated yet is spoken of nowhere, and a    *)
(* form that uploads has generated one.                                    *)

(* No write just clears an entry of a user's clubs; one that clears a      *)
(* member sets the club's whole node; one on a club's picture is on all of *)
(* it and leaves at most one.                                              *)
Tidy(w) ==
    /\ \A u \in User : \A c \in Club :
          /\ ClubEntry(u, c) \in w.drop => ClubEntry(u, c) \in w.put
          /\ Member(c, u) \in w.drop => Member(c, u) \in w.put \/ Info(c) \in w.drop
    /\ \A c \in Club :
          /\ w.drop \cap Photos(c) # {} => Photos(c) \subseteq w.drop
          /\ \A p \in w.put \cap Photos(c) : \A q \in w.put \cap Photos(c) : p = q

FoundingWrite ==
    {w \in [drop : SUBSET FoundingLeaf, put : SUBSET FoundingLeaf] :
        w.put \subseteq w.drop /\ Tidy(w)}

Untouched(c) ==
    /\ tree \cap About(c) = {}
    /\ \A d \in Device : \A i \in 1..Len(pending[d]) : pending[d][i].drop \cap About(c) = {}

Typed ==
    /\ tree \subseteq FoundingLeaf
    /\ QueuesOf(FoundingWrite)
    /\ form \in [Form -> FormState]
    /\ \A f \in Form : form[f].uploads # {} => form[f].ClubKey \in used
    /\ joined \subseteq User \X Club /\ rash \subseteq used
    /\ used \subseteq Club /\ failed \subseteq Club /\ mixed \subseteq Club
    /\ \A c \in Club \ used : Untouched(c)

LEMMA TypedImplies == Typed => FoundingTypeOK
<1> SUFFICES ASSUME Typed PROVE FoundingTypeOK
  OBVIOUS
<1>1. ASSUME NEW d \in Device
      PROVE  /\ \A i \in 1..Len(pending[d]) : pending[d][i] \in FoundingWrite
             /\ sent[d] \in 0..Len(pending[d])
  BY DEF Typed, QueuesOf
<1> QED BY <1>1 DEF FoundingTypeOK, Typed, FoundingWrite

(* Whoever sees a leaf about a club has its key from somewhere.            *)
LEMMA SeenIsUsed ==
    ASSUME Typed, NEW d \in Device, NEW c \in Club, NEW p \in About(c), Sees(d, p)
    PROVE  c \in used
<1>1. p \in tree \/ \E i \in 1..Len(pending[d]) : p \in pending[d][i].put
  BY LatestPut DEF Sees
<1>2. \A i \in 1..Len(pending[d]) : pending[d][i].put \subseteq pending[d][i].drop
  BY QueuedWrite DEF Typed, FoundingWrite
<1> QED BY <1>1, <1>2 DEF Typed, Untouched

(* What a tap's writes may speak of.                                       *)
LEMMA SubmitUntouched ==
    ASSUME Typed, NEW d \in Device, NEW ws \in Seq(FoundingWrite), Submit(d, ws),
           NEW b \in Club, \A k \in 1..Len(ws) : ws[k].drop \subseteq About(b)
    PROVE  /\ QueuesOf(FoundingWrite)' /\ tree' = tree
           /\ \A c \in Club \ (used \cup {b}) : Untouched(c)'
<1> DEFINE m == Len(pending[d])
<1>1. /\ QueuesOf(FoundingWrite)' /\ tree' = tree
      /\ \A e \in Device \ {d} : pending'[e] = pending[e]
      /\ Len(pending'[d]) = m + Len(ws)
      /\ \A i \in 1..m : pending'[d][i] = pending[d][i]
      /\ \A i \in 1..Len(ws) : pending'[d][m + i] = ws[i]
  BY SubmitQueue DEF Typed
<1>2. m \in Nat /\ Len(ws) \in Nat
  BY DEF Typed, QueuesOf
<1>3. ASSUME NEW c \in Club \ (used \cup {b}), NEW e \in Device, NEW i \in 1..Len(pending'[e])
      PROVE  pending'[e][i].drop \cap About(c) = {}
  <2>1. Untouched(c) /\ About(b) \cap About(c) = {}
    BY AboutApart DEF Typed
  <2>2. CASE e # d
    BY <1>1, <2>1, <2>2 DEF Untouched
  <2>3. CASE e = d /\ i \in 1..m
    BY <1>1, <2>1, <2>3 DEF Untouched
  <2>4. CASE e = d /\ i \notin 1..m
    <3> HIDE DEF m
    <3>1. i - m \in 1..Len(ws) /\ m + (i - m) = i
      BY <1>1, <1>2, <2>4
    <3> QED BY <1>1, <2>1, <2>4, <3>1
  <2> QED BY <2>2, <2>3, <2>4
<1> QED BY <1>1, <1>3 DEF Typed, Untouched

(* The writes of the three operations that write.                          *)
LEMMA CreateWrites ==
    ASSUME NEW u \in User, NEW c \in Club
    PROVE  LET ws == FoundingWrites(u, c)
           IN  /\ ws \in Seq(FoundingWrite) /\ Len(ws) = 2
               /\ ws[1].drop = Node(c) /\ ws[1].put = Base(u, c)
               /\ ws[2].drop = {AdminEntry(u, c)} /\ ws[2].put = {AdminEntry(u, c)}
<1> DEFINE w1 == Overwrite(Node(c), Base(u, c))
           w2 == Update(AdminEntry(u, c))
<1>1. FoundingWrites(u, c) = <<w1, w2>>
  BY DEF FoundingWrites, Base
<1>2. /\ w1 \in FoundingWrite /\ w1.drop = Node(c) /\ w1.put = Base(u, c)
      /\ w2 \in FoundingWrite /\ w2.drop = {AdminEntry(u, c)} /\ w2.put = {AdminEntry(u, c)}
  <2>1. /\ w1.drop = Node(c) /\ w1.put = Base(u, c)
        /\ w2.drop = {AdminEntry(u, c)} /\ w2.put = {AdminEntry(u, c)}
        /\ w1 \in [drop : SUBSET FoundingLeaf, put : SUBSET FoundingLeaf]
        /\ w2 \in [drop : SUBSET FoundingLeaf, put : SUBSET FoundingLeaf]
    BY AboutLeaves DEF Overwrite, Update
  <2> HIDE DEF w1, w2
  <2>2. Base(u, c) \subseteq Node(c) /\ Info(c) \in Node(c)
    BY AboutLeaves DEF Node
  <2>3. \A b \in Club : Photos(b) \cap Base(u, c) = {} /\ (b = c => Photos(b) \subseteq Node(c))
    BY EntryApart DEF Node
  <2>4. Tidy(w1)
    <3>1. \A v \in User : \A b \in Club :
             /\ ClubEntry(v, b) \notin w1.drop
             /\ Member(b, v) \in w1.drop => Info(b) \in w1.drop
             /\ w1.drop \cap Photos(b) # {} => b = c
      BY <2>1, <2>2, PartsApart
    <3> QED BY <2>1, <2>3, <3>1 DEF Tidy
  <2>5. Tidy(w2)
    <3>1. \A v \in User : \A b \in Club :
             /\ ClubEntry(v, b) \notin w2.drop /\ Member(b, v) \notin w2.drop
             /\ w2.drop \cap Photos(b) = {}
      BY <2>1, PartsApart
    <3> QED BY <2>1, <3>1 DEF Tidy
  <2> QED BY <2>1, <2>2, <2>4, <2>5 DEF FoundingWrite
<1> HIDE DEF w1, w2
<1> QED BY <1>1, <1>2

LEMMA JoinWrites ==
    ASSUME NEW u \in User, NEW c \in Club
    PROVE  LET ws == <<Update(ClubEntry(u, c)), Update(Member(c, u))>>
           IN  /\ ws \in Seq(FoundingWrite) /\ Len(ws) = 2
               /\ \A k \in 1..2 : ws[k].drop = ws[k].put /\ ws[k].put \subseteq {ClubEntry(u, c), Member(c, u)}
               /\ \A p \in JoinLeaves(u, c) : \E k \in 1..2 : p \in ws[k].put
<1> DEFINE w1 == Update(ClubEntry(u, c))
           w2 == Update(Member(c, u))
<1>1. /\ w1 \in FoundingWrite /\ w1.drop = w1.put /\ w1.put = {ClubEntry(u, c)}
      /\ w2 \in FoundingWrite /\ w2.drop = w2.put /\ w2.put = {Member(c, u)}
  <2>1. /\ w1.drop = {ClubEntry(u, c)} /\ w1.put = {ClubEntry(u, c)}
        /\ w2.drop = {Member(c, u)} /\ w2.put = {Member(c, u)}
        /\ w1 \in [drop : SUBSET FoundingLeaf, put : SUBSET FoundingLeaf]
        /\ w2 \in [drop : SUBSET FoundingLeaf, put : SUBSET FoundingLeaf]
    BY AboutLeaves DEF Update
  <2> HIDE DEF w1, w2
  <2>2. \A b \in Club : ClubEntry(u, c) \notin Photos(b) /\ Member(c, u) \notin Photos(b)
    BY PartsApart
  <2>3. Tidy(w1) /\ Tidy(w2)
    BY <2>1, <2>2 DEF Tidy
  <2> QED BY <2>1, <2>3 DEF FoundingWrite
<1> HIDE DEF w1, w2
<1>2. /\ <<w1, w2>> \in Seq(FoundingWrite) /\ Len(<<w1, w2>>) = 2
      /\ \A k \in 1..2 : <<w1, w2>>[k] = w1 \/ <<w1, w2>>[k] = w2
      /\ 1 \in 1..2 /\ 2 \in 1..2 /\ <<w1, w2>>[1] = w1 /\ <<w1, w2>>[2] = w2
  BY <1>1
<1> QED BY <1>1, <1>2 DEF w1, w2, JoinLeaves

LEMMA PhotoWrites ==
    ASSUME NEW k \in Club, NEW c \in Club
    PROVE  LET ws == <<Overwrite(Photos(k), {PhotoUrl(k, c)})>>
           IN  /\ ws \in Seq(FoundingWrite) /\ Len(ws) = 1
               /\ ws[1].drop = Photos(k) /\ ws[1].put \subseteq Photos(k)
               /\ ws[1].put = {PhotoUrl(k, c)}
<1> DEFINE w1 == Overwrite(Photos(k), {PhotoUrl(k, c)})
<1>1. /\ w1 \in FoundingWrite /\ w1.drop = Photos(k) /\ w1.put \subseteq Photos(k)
      /\ w1.put = {PhotoUrl(k, c)}
  <2>1. PhotoUrl(k, c) \in Photos(k)
    BY DEF Photos
  <2>2. /\ w1.drop = Photos(k) /\ w1.put = {PhotoUrl(k, c)}
        /\ w1 \in [drop : SUBSET FoundingLeaf, put : SUBSET FoundingLeaf]
    BY <2>1, AboutLeaves DEF Overwrite
  <2> HIDE DEF w1
  <2>3. \A u \in User : \A b \in Club :
           ClubEntry(u, b) \notin w1.drop /\ Member(b, u) \notin w1.drop
    BY <2>2, PartsApart
  <2>4. \A b \in Club : w1.drop \cap Photos(b) # {} => b = k
    <3> SUFFICES ASSUME NEW b \in Club, NEW p \in Photos(b), p \in Photos(k) PROVE b = k
      BY <2>2
    <3> QED BY DEF Photos, PhotoUrl
  <2>5. Tidy(w1)
    BY <2>2, <2>3, <2>4 DEF Tidy
  <2> QED BY <2>1, <2>2, <2>5 DEF FoundingWrite
<1> HIDE DEF w1
<1>2. <<w1>> \in Seq(FoundingWrite) /\ Len(<<w1>>) = 1 /\ <<w1>>[1] = w1
  BY <1>1
<1> QED BY <1>1, <1>2 DEF w1

-----------------------------------------------------------------------------
(* Types are kept.                                                         *)

LEMMA TypedInit == FoundingInit => Typed
<1> SUFFICES ASSUME FoundingInit PROVE Typed
  OBVIOUS
<1>1. QueuesOf(FoundingWrite) /\ \A d \in Device : 1..Len(pending[d]) = {}
  BY EmptyQueues DEF FoundingInit
<1>2. ClosedForm \in FormState /\ ClosedForm.uploads = {}
  BY DEF ClosedForm, FormState
<1> QED BY <1>1, <1>2 DEF FoundingInit, Typed, Untouched

(* A step of one form.                                                     *)
LEMMA FormStep ==
    ASSUME Typed, NEW f \in Form, NEW r \in FormState,
           form' = [form EXCEPT ![f] = r],
           used \subseteq used',
           r.uploads # {} => r.ClubKey \in used'
    PROVE  /\ form' \in [Form -> FormState]
           /\ \A g \in Form : form'[g].uploads # {} => form'[g].ClubKey \in used'
BY DEF Typed

(* The database and the keys are left alone.                               *)
LEMMA SteadyTyped ==
    ASSUME Typed, UNCHANGED <<tree, pending, sent>>
    PROVE  QueuesOf(FoundingWrite)' /\ \A c \in Club \ used : Untouched(c)'
BY DEF Typed, QueuesOf, Untouched

LEMMA ScreensTyped ==
    ASSUME Typed, NEW f \in Form,
           Open(f) \/ Back(f) \/ Close(f) \/ \E c \in Club : UploadFails(f, c)
    PROVE  Typed' /\ UNCHANGED <<tree, pending, sent>>
<1>1. form[f] \in FormState /\ (form[f].uploads # {} => form[f].ClubKey \in used)
  BY DEF Typed
<1>2. ASSUME NEW p \in {"closed", "shown", "covered"}, NEW U \in SUBSET form[f].uploads
      PROVE  LET r == [form[f] EXCEPT !.phase = p, !.uploads = U]
             IN  r \in FormState /\ (r.uploads # {} => r.ClubKey \in used)
  BY <1>1 DEF FormState
<1>3. /\ form' \in [Form -> FormState]
      /\ \A g \in Form : form'[g].uploads # {} => form'[g].ClubKey \in used
  <2>1. CASE Open(f)
    <3> DEFINE r == [ClosedForm EXCEPT !.phase = "shown"]
    <3>1. r \in FormState /\ r.uploads = {}
      BY DEF ClosedForm, FormState
    <3>2. form' = [form EXCEPT ![f] = r] /\ used' = used
      BY <2>1 DEF Open
    <3> HIDE DEF r
    <3> QED BY <3>1, <3>2, FormStep
  <2>2. CASE Back(f)
    <3> DEFINE r == [form[f] EXCEPT !.phase = "shown"]
    <3>1. r \in FormState /\ (r.uploads # {} => r.ClubKey \in used)
      BY <1>1 DEF FormState
    <3>2. form' = [form EXCEPT ![f] = r] /\ used' = used
      BY <2>2 DEF Back
    <3> HIDE DEF r
    <3> QED BY <3>1, <3>2, FormStep
  <2>3. CASE Close(f)
    <3> DEFINE r == [form[f] EXCEPT !.phase = "closed"]
    <3>1. r \in FormState /\ (r.uploads # {} => r.ClubKey \in used)
      BY <1>1 DEF FormState
    <3>2. form' = [form EXCEPT ![f] = r] /\ used' = used
      BY <2>3 DEF Close
    <3> HIDE DEF r
    <3> QED BY <3>1, <3>2, FormStep
  <2>4. ASSUME NEW c \in Club, UploadFails(f, c)
        PROVE  <1>3
    <3> DEFINE r == [form[f] EXCEPT !.uploads = form[f].uploads \ {c}]
    <3>1. r \in FormState /\ (r.uploads # {} => r.ClubKey \in used)
      BY <1>1 DEF FormState
    <3>2. form' = [form EXCEPT ![f] = r] /\ used' = used
      BY <2>4 DEF UploadFails
    <3> HIDE DEF r
    <3> QED BY <3>1, <3>2, FormStep
  <2> QED BY <2>1, <2>2, <2>3, <2>4
<1>4. /\ UNCHANGED <<tree, pending, sent, used, joined, rash, mixed>>
      /\ failed' \subseteq failed \cup Club
  BY DEF Open, Back, Close, UploadFails, dbVars
<1>5. QueuesOf(FoundingWrite)' /\ \A c \in Club \ used : Untouched(c)'
  BY <1>4, SteadyTyped
<1> QED BY <1>3, <1>4, <1>5 DEF Typed

LEMMA CreateTyped ==
    ASSUME Typed, NEW f \in Form, NEW c \in Club, CreateClub(f, c)
    PROVE  Typed'
<1> DEFINE ws == FoundingWrites(Me(f), c)
           r == [phase |-> "covered", ClubKey |-> c, uploads |-> form[f].uploads \cup {c}]
<1>1. Me(f) \in User /\ HostOf[f] \in Device
  BY AccountAssumption, HostAssumption DEF Me
<1>2. /\ ws \in Seq(FoundingWrite) /\ Len(ws) = 2
      /\ ws[1].drop = Node(c) /\ ws[2].drop = {AdminEntry(Me(f), c)}
  BY <1>1, CreateWrites
<1>3. \A k \in 1..Len(ws) : ws[k].drop \subseteq About(c)
  <2>1. Node(c) \subseteq About(c) /\ AdminEntry(Me(f), c) \in About(c)
    BY <1>1, AboutLeaves
  <2> HIDE DEF ws
  <2> QED BY <1>2, <2>1
<1>4. Submit(HostOf[f], ws) /\ used' = used \cup {c} /\ UNCHANGED <<joined, rash, failed, mixed>>
  BY DEF CreateClub
<1>5. form' = [form EXCEPT ![f] = r]
  BY DEF CreateClub
<1>6. r \in FormState
  BY DEF Typed, FormState
<1>7. r.ClubKey = c
  OBVIOUS
<1> HIDE DEF ws, r
<1>8. /\ QueuesOf(FoundingWrite)' /\ tree' = tree
      /\ \A b \in Club \ (used \cup {c}) : Untouched(b)'
  BY <1>1, <1>2, <1>3, <1>4, SubmitUntouched
<1>9. /\ form' \in [Form -> FormState]
      /\ \A g \in Form : form'[g].uploads # {} => form'[g].ClubKey \in used'
  BY <1>4, <1>5, <1>6, <1>7, FormStep
<1> QED BY <1>4, <1>8, <1>9 DEF Typed

LEMMA PictureTyped ==
    ASSUME Typed, NEW f \in Form, NEW c \in Club, UploadSucceeds(f, c)
    PROVE  Typed'
<1> DEFINE k == form[f].ClubKey
           ws == <<Overwrite(Photos(k), {PhotoUrl(k, c)})>>
           r == [form[f] EXCEPT !.uploads = form[f].uploads \ {c}]
<1>1. k \in used /\ k \in Club /\ HostOf[f] \in Device
  BY HostAssumption DEF Typed, UploadSucceeds
<1>2. ws \in Seq(FoundingWrite) /\ Len(ws) = 1 /\ ws[1].drop = Photos(k)
  BY <1>1, PhotoWrites
<1>3. Photos(k) \subseteq About(k)
  BY <1>1, AboutLeaves
<1>4. /\ Submit(HostOf[f], ws) /\ UNCHANGED <<used, joined, rash, failed>>
      /\ mixed' \subseteq mixed \cup {c, k}
  BY DEF UploadSucceeds
<1>5. form' = [form EXCEPT ![f] = r]
  BY DEF UploadSucceeds
<1>6. r \in FormState /\ (r.uploads # {} => r.ClubKey \in used)
  BY <1>1 DEF Typed, FormState
<1> HIDE DEF ws, r, k
<1>7. \A n \in 1..Len(ws) : ws[n].drop \subseteq About(k)
  BY <1>2, <1>3
<1>8. /\ QueuesOf(FoundingWrite)' /\ tree' = tree
      /\ \A b \in Club \ (used \cup {k}) : Untouched(b)'
  BY <1>1, <1>2, <1>4, <1>7, SubmitUntouched
<1>9. /\ form' \in [Form -> FormState]
      /\ \A g \in Form : form'[g].uploads # {} => form'[g].ClubKey \in used'
  BY <1>4, <1>5, <1>6, FormStep
<1> QED BY <1>1, <1>4, <1>8, <1>9 DEF Typed

LEMMA JoinTyped ==
    ASSUME Typed, NEW d \in Device, NEW c \in Club, Join(d, c)
    PROVE  Typed'
<1> DEFINE u == AccountOf[d]
           ws == <<Update(ClubEntry(u, c)), Update(Member(c, u))>>
<1>1. u \in User
  BY AccountAssumption
<1>2. c \in used
  <2>1. Info(c) \in About(c) /\ Sees(d, Info(c))
    BY DEF Join, About, Node
  <2> QED BY <2>1, SeenIsUsed
<1>3. /\ ws \in Seq(FoundingWrite) /\ Len(ws) = 2
      /\ \A k \in 1..2 : ws[k].drop = ws[k].put /\ ws[k].put \subseteq {ClubEntry(u, c), Member(c, u)}
  BY <1>1, JoinWrites
<1>4. ClubEntry(u, c) \in About(c) /\ Member(c, u) \in About(c)
  BY <1>1, AboutLeaves
<1>5. /\ Submit(d, ws)
      /\ joined' = joined \cup {<<u, c>>}
      /\ rash' \subseteq rash \cup {c}
      /\ UNCHANGED <<form, used, failed, mixed>>
  BY DEF Join
<1> HIDE DEF ws, u
<1>6. \A k \in 1..Len(ws) : ws[k].drop \subseteq About(c)
  BY <1>3, <1>4
<1>7. /\ QueuesOf(FoundingWrite)' /\ tree' = tree
      /\ \A b \in Club \ (used \cup {c}) : Untouched(b)'
  BY <1>3, <1>5, <1>6, SubmitUntouched
<1> QED BY <1>1, <1>2, <1>5, <1>7 DEF Typed

LEMMA DiesTyped ==
    ASSUME Typed, NEW d \in Device, Dies(d), UNCHANGED <<used, rash, mixed>>
    PROVE  Typed'
<1>1. QueuesOf(FoundingWrite)' /\ tree' = tree
  BY ForgetQueue DEF Typed, Dies
<1>2. \A c \in Club \ used : Untouched(c)'
  <2>1. /\ pending'[d] = <<>> /\ 1..Len(<<>>) = {}
        /\ \A e \in Device \ {d} : pending'[e] = pending[e]
    BY ForgetQueue DEF Typed, Dies
  <2>2. SUFFICES ASSUME NEW c \in Club \ used, NEW e \in Device, NEW i \in 1..Len(pending'[e])
                 PROVE  pending'[e][i].drop \cap About(c) = {}
    BY <1>1 DEF Typed, Untouched
  <2>3. e # d
    BY <2>1, <2>2
  <2> QED BY <2>1, <2>3 DEF Typed, Untouched
<1>3. ClosedForm \in FormState /\ ClosedForm.uploads = {}
  BY DEF ClosedForm, FormState
<1>4. /\ form' \in [Form -> FormState]
      /\ \A g \in Form : form'[g].uploads # {} => form'[g].ClubKey \in used
  <2>1. form' = [f \in Form |-> IF HostOf[f] = d THEN ClosedForm ELSE form[f]]
    BY DEF Dies
  <2>2. \A f \in Form : form'[f] = ClosedForm \/ form'[f] = form[f]
    BY <2>1
  <2> QED BY <1>3, <2>1, <2>2 DEF Typed
<1>5. failed' \subseteq Club /\ joined' \subseteq joined
  <2>1. \A f \in Form : form[f].uploads \subseteq Club
    BY DEF Typed, FormState
  <2> QED BY <2>1 DEF Dies, Typed
<1> QED BY <1>1, <1>2, <1>4, <1>5 DEF Typed

LEMMA DeliverTyped ==
    ASSUME Typed, NEW d \in Device, FoundingDeliver(d)
    PROVE  Typed'
<1>1. QueuesOf(FoundingWrite) /\ UNCHANGED <<form, used, joined, rash, failed, mixed>>
  BY DEF Typed, FoundingDeliver, formVars
<1>2. CASE Serve(d)
  <2>1. /\ QueuesOf(FoundingWrite)' /\ pending' = pending
        /\ sent[d] + 1 \in 1..Len(pending[d])
        /\ tree' = Applied(tree, pending[d][sent[d] + 1])
    BY <1>1, <1>2, ServeQueue
  <2>2. pending[d][sent[d] + 1] \in FoundingWrite
    BY <1>1, <2>1, QueuedWrite
  <2>3. tree' \subseteq FoundingLeaf
    BY <2>1, <2>2 DEF Typed, Applied, FoundingWrite
  <2>4. \A c \in Club \ used : Untouched(c)'
    BY <2>1, <2>2 DEF Typed, Applied, FoundingWrite, Untouched
  <2> QED BY <1>1, <2>1, <2>3, <2>4 DEF Typed
<1>3. CASE Ack(d)
  <2>1. /\ QueuesOf(FoundingWrite)' /\ tree' = tree
        /\ \A i \in 1..Len(pending'[d]) :
              i + 1 \in 1..Len(pending[d]) /\ pending'[d][i] = pending[d][i + 1]
        /\ \A e \in Device \ {d} : pending'[e] = pending[e]
    BY <1>1, <1>3, AckQueue
  <2>2. \A e \in Device : \A i \in 1..Len(pending'[e]) :
           \E k \in 1..Len(pending[e]) : pending'[e][i] = pending[e][k]
    BY <2>1
  <2>3. \A c \in Club \ used : Untouched(c)'
    BY <2>1, <2>2 DEF Typed, Untouched
  <2> QED BY <1>1, <2>1, <2>3 DEF Typed
<1>4. CASE Resend(d)
  BY <1>1, <1>4, ResendQueue DEF Typed, Untouched
<1> QED BY <1>2, <1>3, <1>4 DEF FoundingDeliver

-----------------------------------------------------------------------------
(* Steps.                                                                  *)

LEMMA FoundingCases ==
    ASSUME FoundingNext
    PROVE  \/ \E f \in Form : \/ Open(f) \/ Back(f) \/ Close(f)
                              \/ \E c \in Club : UploadFails(f, c)
           \/ \E f \in Form, c \in Club : CreateClub(f, c) \/ UploadSucceeds(f, c)
           \/ \E d \in Device : \/ \E c \in Club : Join(d, c)
                                \/ Dies(d) /\ UNCHANGED <<used, rash, mixed>>
                                \/ FoundingDeliver(d)
BY DEF FoundingNext, NodeReply, FoundingKill

LEMMA TypedStep == Typed /\ [FoundingNext]_foundingVars => Typed'
<1> SUFFICES ASSUME Typed, [FoundingNext]_foundingVars PROVE Typed'
  OBVIOUS
<1>1. CASE UNCHANGED foundingVars
  BY <1>1, SteadyTyped DEF Typed, foundingVars
<1>2. CASE FoundingNext
  BY <1>2, FoundingCases, ScreensTyped, CreateTyped, PictureTyped, JoinTyped, DiesTyped, DeliverTyped
<1> QED BY <1>1, <1>2

(* Forms, queues, lists and keys keep their types.                         *)
THEOREM FoundingTypeCorrect == FoundingSpec => []FoundingTypeOK
<1>1. FoundingInit => Typed
  BY TypedInit
<1>2. Typed /\ [FoundingNext]_foundingVars => Typed'
  BY TypedStep
<1>3. Typed => FoundingTypeOK
  BY TypedImplies
<1> QED BY <1>1, <1>2, <1>3, PTL DEF FoundingSpec

-----------------------------------------------------------------------------
(* Listed clubs.                                                           *)

(* A founder's entry comes after the club's node, on the server and in     *)
(* every queue.                                                            *)
ListedInv == \A u \in User : \A c \in Club : Guarded({AdminEntry(u, c)}, Base(u, c))

LEMMA ListedInit == FoundingInit => ListedInv
<1> SUFFICES ASSUME FoundingInit, NEW u \in User, NEW c \in Club
             PROVE  Guarded({AdminEntry(u, c)}, Base(u, c))
  BY DEF ListedInv
<1>1. tree \cap {AdminEntry(u, c)} = {} /\ \A d \in Device : 1..Len(pending[d]) = {}
  BY EmptyQueues DEF FoundingInit
<1> QED BY <1>1, GuardedInit

(* createClub: the node is the earlier of the two writes, and nothing      *)
(* older in any queue can clear it, for the key is new.                    *)
LEMMA CreateListed ==
    ASSUME Typed, ListedInv, NEW f \in Form, NEW b \in Club, CreateClub(f, b)
    PROVE  ListedInv'
<1> DEFINE v == Me(f)
           d == HostOf[f]
           ws == FoundingWrites(v, b)
<1>1. v \in User /\ d \in Device
  BY AccountAssumption, HostAssumption DEF Me
<1>2. /\ ws \in Seq(FoundingWrite) /\ Len(ws) = 2
      /\ ws[1].drop = Node(b) /\ ws[1].put = Base(v, b)
      /\ ws[2].drop = {AdminEntry(v, b)} /\ ws[2].put = {AdminEntry(v, b)}
  BY <1>1, CreateWrites
<1>3. Submit(d, ws) /\ b \notin used
  BY DEF CreateClub
<1>4. QueuesOf(FoundingWrite) /\ Untouched(b)
  BY <1>3 DEF Typed
<1> HIDE DEF ws, d, v
<1>5. \A k \in 1..Len(ws) : k = 1 \/ k = 2
  BY <1>2
<1> SUFFICES ASSUME NEW u \in User, NEW c \in Club
             PROVE  Guarded({AdminEntry(u, c)}, Base(u, c))'
  BY DEF ListedInv
<1>6. Guarded({AdminEntry(u, c)}, Base(u, c))
  BY DEF ListedInv
<1>7. /\ Base(v, b) \subseteq About(b) /\ AdminEntry(v, b) \in About(b) /\ Node(b) \subseteq About(b)
      /\ Base(u, c) \subseteq About(c) /\ AdminEntry(u, c) \in About(c)
  BY <1>1, AboutLeaves
<1>8. AdminEntry(v, b) \notin Base(v, b) /\ AdminEntry(u, c) \notin Base(v, b)
  BY <1>1, AboutLeaves, EntryApart
<1>9. CASE c # b
  <2>1. About(b) \cap About(c) = {}
    BY <1>9, AboutApart
  <2>2. \A k \in 1..Len(ws) : /\ ws[k].put \cap {AdminEntry(u, c)} = {}
                              /\ ws[k].drop \cap Base(u, c) \subseteq ws[k].put
    BY <1>2, <1>5, <1>7, <2>1
  <2> QED BY <1>1, <1>2, <1>3, <1>4, <1>6, <2>2, GuardedAside
<1>10. CASE c = b /\ u = v
  <2>1. \A k \in 1..Len(ws) : ws[k].put \cap {AdminEntry(u, c)} # {} =>
           \E j \in 1..k : Base(u, c) \subseteq ws[j].put
    <3>1. 1 \in 1..2
      OBVIOUS
    <3> QED BY <1>2, <1>5, <1>8, <1>10, <3>1
  <2>2. \A k \in 1..Len(ws) : ws[k].drop \cap Base(u, c) \subseteq ws[k].put
    BY <1>2, <1>5, <1>8, <1>10
  <2>3. \A e \in Device : \A i \in 1..Len(pending[e]) :
           pending[e][i].drop \cap Base(u, c) \subseteq pending[e][i].put
    BY <1>4, <1>7, <1>10 DEF Untouched
  <2> QED BY <1>1, <1>2, <1>3, <1>4, <1>6, <2>1, <2>2, <2>3, GuardedSubmit
<1>11. CASE c = b /\ u # v
  <2>1. AdminEntry(u, c) # AdminEntry(v, b)
    BY <1>11, EntryApart
  <2>2. \A k \in 1..Len(ws) : ws[k].put \cap {AdminEntry(u, c)} = {}
    BY <1>2, <1>5, <1>8, <2>1
  <2>3. ~Mentioned({AdminEntry(u, c)})
    <3>1. \A e \in Device : \A i \in 1..Len(pending[e]) : pending[e][i].put \subseteq pending[e][i].drop
      BY <1>4, QueuedWrite DEF FoundingWrite
    <3> QED BY <1>4, <1>7, <1>11, <3>1 DEF Mentioned, Untouched
  <2> QED BY <1>1, <1>2, <1>3, <1>4, <2>2, <2>3, GuardedNever
<1> QED BY <1>9, <1>10, <1>11

LEMMA PictureListed ==
    ASSUME Typed, ListedInv, NEW f \in Form, NEW b \in Club, UploadSucceeds(f, b)
    PROVE  ListedInv'
<1> DEFINE k == form[f].ClubKey
           ws == <<Overwrite(Photos(k), {PhotoUrl(k, b)})>>
<1>1. k \in Club /\ HostOf[f] \in Device
  BY HostAssumption DEF Typed, UploadSucceeds
<1>2. /\ ws \in Seq(FoundingWrite) /\ Len(ws) = 1
      /\ ws[1].drop = Photos(k) /\ ws[1].put \subseteq Photos(k)
  BY <1>1, PhotoWrites
<1>3. Submit(HostOf[f], ws) /\ QueuesOf(FoundingWrite)
  BY DEF UploadSucceeds, Typed
<1>4. Photos(k) \subseteq Node(k)
  BY DEF Node
<1> HIDE DEF ws, k
<1> SUFFICES ASSUME NEW u \in User, NEW c \in Club
             PROVE  Guarded({AdminEntry(u, c)}, Base(u, c))'
  BY DEF ListedInv
<1>5. Guarded({AdminEntry(u, c)}, Base(u, c))
  BY DEF ListedInv
<1>6. AdminEntry(u, c) \notin Photos(k) /\ Photos(k) \cap Base(u, c) = {}
  BY <1>1, <1>4, EntryApart
<1>7. \A n \in 1..Len(ws) : ws[n].put \cap {AdminEntry(u, c)} = {} /\ ws[n].drop \cap Base(u, c) \subseteq ws[n].put
  BY <1>2, <1>6
<1> QED BY <1>1, <1>2, <1>3, <1>5, <1>7, GuardedAside

LEMMA JoinListed ==
    ASSUME Typed, ListedInv, NEW d \in Device, NEW b \in Club, Join(d, b)
    PROVE  ListedInv'
<1> DEFINE v == AccountOf[d]
           ws == <<Update(ClubEntry(v, b)), Update(Member(b, v))>>
<1>1. v \in User
  BY AccountAssumption
<1>2. /\ ws \in Seq(FoundingWrite) /\ Len(ws) = 2
      /\ \A k \in 1..2 : ws[k].drop = ws[k].put /\ ws[k].put \subseteq {ClubEntry(v, b), Member(b, v)}
  BY <1>1, JoinWrites
<1>3. Submit(d, ws) /\ QueuesOf(FoundingWrite)
  BY DEF Join, Typed
<1> HIDE DEF ws, v
<1> SUFFICES ASSUME NEW u \in User, NEW c \in Club
             PROVE  Guarded({AdminEntry(u, c)}, Base(u, c))'
  BY DEF ListedInv
<1>4. Guarded({AdminEntry(u, c)}, Base(u, c))
  BY DEF ListedInv
<1>5. AdminEntry(u, c) \notin {ClubEntry(v, b), Member(b, v)}
  BY EntryApart
<1>6. \A k \in 1..Len(ws) : ws[k].put \cap {AdminEntry(u, c)} = {} /\ ws[k].drop \cap Base(u, c) \subseteq ws[k].put
  BY <1>2, <1>5
<1> QED BY <1>2, <1>3, <1>4, <1>6, GuardedAside

LEMMA ListedStep == Typed /\ ListedInv /\ [FoundingNext]_foundingVars => ListedInv'
<1> SUFFICES ASSUME Typed, ListedInv, [FoundingNext]_foundingVars PROVE ListedInv'
  OBVIOUS
<1>1. ASSUME UNCHANGED <<tree, pending, sent>>
      PROVE  ListedInv'
  <2> SUFFICES ASSUME NEW u \in User, NEW c \in Club
               PROVE  Guarded({AdminEntry(u, c)}, Base(u, c))'
    BY DEF ListedInv
  <2>1. Guarded({AdminEntry(u, c)}, Base(u, c))
    BY DEF ListedInv
  <2> QED BY <1>1, <2>1, GuardedSteady
<1>2. CASE UNCHANGED foundingVars
  BY <1>1, <1>2 DEF foundingVars
<1>3. ASSUME NEW d \in Device, Dies(d)
      PROVE  ListedInv'
  BY <1>3, GuardedForget DEF ListedInv, Typed, Dies
<1>4. ASSUME NEW d \in Device, FoundingDeliver(d)
      PROVE  ListedInv'
  <2>1. QueuesOf(FoundingWrite) /\ (Serve(d) \/ Ack(d) \/ Resend(d))
    BY <1>4 DEF FoundingDeliver, Typed
  <2> QED BY <2>1, GuardedServe, GuardedAck, GuardedResend DEF ListedInv
<1> QED BY <1>1, <1>2, <1>3, <1>4, FoundingCases, ScreensTyped, CreateListed, PictureListed, JoinListed

LEMMA ListedImplies == Typed /\ ListedInv => ListedClubsExist
<1> SUFFICES ASSUME Typed, ListedInv, NEW u \in User, NEW c \in Club
             PROVE  /\ AdminEntry(u, c) \in tree => Base(u, c) \subseteq tree
                    /\ \A d \in Device : Sees(d, AdminEntry(u, c)) => \A p \in Base(u, c) : Sees(d, p)
  BY DEF ListedClubsExist, Base
<1>1. Guarded({AdminEntry(u, c)}, Base(u, c)) /\ QueuesOf(FoundingWrite)
  BY DEF ListedInv, Typed
<1>2. AdminEntry(u, c) \in tree => Base(u, c) \subseteq tree
  BY <1>1 DEF Guarded
<1>3. \A w \in FoundingWrite : w.put \subseteq w.drop
  BY DEF FoundingWrite
<1>4. ASSUME NEW d \in Device, Sees(d, AdminEntry(u, c)), NEW p \in Base(u, c)
      PROVE  Sees(d, p)
  BY <1>1, <1>3, <1>4, GuardedSeen
<1> QED BY <1>2, <1>4

(* A club in somebody's admin_clubs has its fields, its admin and its      *)
(* member, on the server and on every phone, wherever kills cut and        *)
(* reconnections repeat the writes of its founding.                        *)
THEOREM ListedAreWhole == FoundingSpec => []ListedClubsExist
<1>1. FoundingInit => Typed /\ ListedInv
  BY TypedInit, ListedInit
<1>2. Typed /\ [FoundingNext]_foundingVars => Typed'
  BY TypedStep
<1>3. Typed /\ ListedInv /\ [FoundingNext]_foundingVars => ListedInv'
  BY ListedStep
<1>4. Typed /\ ListedInv => ListedClubsExist
  BY ListedImplies
<1> QED BY <1>1, <1>2, <1>3, <1>4, PTL DEF FoundingSpec

-----------------------------------------------------------------------------
(* Members.                                                                *)

(* Who joined a club that nobody was still founding stays on both sides.   *)
MembersInv ==
    \A j \in joined :
        /\ j[1] \in User /\ j[2] \in used
        /\ j[2] \notin rash => \A p \in JoinLeaves(j[1], j[2]) : Kept(p)

(* A tap on one club leaves the members of another alone.                  *)
LEMMA AsideMembers ==
    ASSUME Typed, MembersInv, NEW d \in Device, NEW ws \in Seq(FoundingWrite), Submit(d, ws),
           \A j \in joined : \A p \in JoinLeaves(j[1], j[2]) : \A k \in 1..Len(ws) :
               p \in ws[k].drop => p \in ws[k].put,
           joined' = joined, used \subseteq used', rash' = rash
    PROVE  MembersInv'
<1>1. QueuesOf(FoundingWrite) /\ \A k \in 1..Len(ws) : k \in k..Len(ws)
  BY DEF Typed
<1>2. ASSUME NEW j \in joined, j[2] \notin rash, NEW p \in JoinLeaves(j[1], j[2])
      PROVE  Kept(p)'
  <2>1. Kept(p)
    BY <1>2 DEF MembersInv
  <2>2. \A k \in 1..Len(ws) : p \in ws[k].drop => \E i \in k..Len(ws) : p \in ws[i].put
    BY <1>1, <1>2
  <2> QED BY <1>1, <2>1, <2>2, KeptSubmit
<1> QED BY <1>2 DEF MembersInv

(* createClub clears a whole node, but of a key nobody can have joined.    *)
LEMMA CreateMembers ==
    ASSUME Typed, MembersInv, NEW f \in Form, NEW b \in Club, CreateClub(f, b)
    PROVE  MembersInv'
<1> DEFINE ws == FoundingWrites(Me(f), b)
<1>1. Me(f) \in User /\ HostOf[f] \in Device
  BY AccountAssumption, HostAssumption DEF Me
<1>2. /\ ws \in Seq(FoundingWrite) /\ Len(ws) = 2
      /\ ws[1].drop = Node(b) /\ ws[2].drop = {AdminEntry(Me(f), b)}
  BY <1>1, CreateWrites
<1>3. /\ Submit(HostOf[f], ws) /\ b \notin used /\ used' = used \cup {b}
      /\ joined' = joined /\ rash' = rash
  BY DEF CreateClub
<1> HIDE DEF ws
<1>4. ASSUME NEW j \in joined, NEW p \in JoinLeaves(j[1], j[2])
      PROVE  \A k \in 1..Len(ws) : p \notin ws[k].drop
  <2>1. j[1] \in User /\ j[2] \in Club /\ j[2] # b
    BY <1>3 DEF MembersInv, Typed
  <2>2. p = ClubEntry(j[1], j[2]) \/ p = Member(j[2], j[1])
    BY <1>4 DEF JoinLeaves
  <2>3. p \notin Node(b) /\ p # AdminEntry(Me(f), b)
    BY <2>1, <2>2, PartsApart
  <2>4. \A k \in 1..Len(ws) : k = 1 \/ k = 2
    BY <1>2
  <2> QED BY <1>2, <2>3, <2>4
<1>5. used \subseteq used'
  BY <1>3
<1> QED BY <1>1, <1>2, <1>3, <1>4, <1>5, AsideMembers

LEMMA PictureMembers ==
    ASSUME Typed, MembersInv, NEW f \in Form, NEW b \in Club, UploadSucceeds(f, b)
    PROVE  MembersInv'
<1> DEFINE k == form[f].ClubKey
           ws == <<Overwrite(Photos(k), {PhotoUrl(k, b)})>>
<1>1. k \in Club /\ HostOf[f] \in Device
  BY HostAssumption DEF Typed, UploadSucceeds
<1>2. ws \in Seq(FoundingWrite) /\ Len(ws) = 1 /\ ws[1].drop = Photos(k)
  BY <1>1, PhotoWrites
<1>3. Submit(HostOf[f], ws) /\ UNCHANGED <<used, joined, rash>>
  BY DEF UploadSucceeds
<1> HIDE DEF ws, k
<1>4. ASSUME NEW j \in joined, NEW p \in JoinLeaves(j[1], j[2])
      PROVE  \A n \in 1..Len(ws) : p \notin ws[n].drop
  <2>1. j[1] \in User /\ j[2] \in Club
    BY DEF MembersInv, Typed
  <2>2. p = ClubEntry(j[1], j[2]) \/ p = Member(j[2], j[1])
    BY <1>4 DEF JoinLeaves
  <2> QED BY <1>1, <1>2, <2>1, <2>2, PartsApart
<1> QED BY <1>1, <1>2, <1>3, <1>4, AsideMembers

(* Join Club: when no founding of the club is on its way, no queue clears  *)
(* what the two writes fill.                                               *)
LEMMA JoinMembers ==
    ASSUME Typed, MembersInv, NEW d \in Device, NEW c \in Club, Join(d, c)
    PROVE  MembersInv'
<1> DEFINE u == AccountOf[d]
           ws == <<Update(ClubEntry(u, c)), Update(Member(c, u))>>
<1>1. u \in User
  BY AccountAssumption
<1>2. /\ ws \in Seq(FoundingWrite) /\ Len(ws) = 2
      /\ \A k \in 1..2 : ws[k].drop = ws[k].put
      /\ \A p \in JoinLeaves(u, c) : \E k \in 1..2 : p \in ws[k].put
  BY <1>1, JoinWrites
<1>3. /\ Submit(d, ws) /\ joined' = joined \cup {<<u, c>>} /\ used' = used /\ rash \subseteq rash'
      /\ c \in rash' \/ ~\E e \in Device : Covered(pending[e], Info(c))
  BY DEF Join
<1>4. c \in used
  <2>1. Info(c) \in About(c) /\ Sees(d, Info(c))
    BY DEF Join, About, Node
  <2> QED BY <2>1, SeenIsUsed
<1> HIDE DEF ws, u
<1>5. QueuesOf(FoundingWrite)
  BY DEF Typed
<1>6. \A p : \A k \in 1..Len(ws) : p \in ws[k].drop => \E i \in k..Len(ws) : p \in ws[i].put
  <2>1. \A k \in 1..Len(ws) : k \in k..Len(ws)
    BY <1>2
  <2> QED BY <1>2, <2>1
<1>7. ASSUME c \notin rash', NEW p \in JoinLeaves(u, c), NEW e \in Device
      PROVE  Refilled(e, p)
  <2> SUFFICES ASSUME NEW i \in 1..Len(pending[e]), p \in pending[e][i].drop
               PROVE  \E n \in i..Len(pending[e]) : p \in pending[e][n].put
    BY DEF Refilled
  <2>1. Info(c) \notin pending[e][i].drop
    BY <1>3, <1>7 DEF Covered
  <2>2. pending[e][i] \in FoundingWrite
    BY <1>5, QueuedWrite
  <2>3. p \in pending[e][i].put
    BY <1>1, <1>7, <2>1, <2>2 DEF FoundingWrite, Tidy, JoinLeaves
  <2>4. i \in i..Len(pending[e])
    BY <1>5 DEF QueuesOf
  <2> QED BY <2>3, <2>4
<1>8. ASSUME NEW j \in joined', j[2] \notin rash', NEW p \in JoinLeaves(j[1], j[2])
      PROVE  Kept(p)'
  <2>1. CASE j = <<u, c>>
    <3>1. p \in JoinLeaves(u, c) /\ c \notin rash'
      BY <1>8, <2>1
    <3>2. \A e \in Device \ {d} : Refilled(e, p)
      BY <1>7, <3>1
    <3>3. \E k \in 1..Len(ws) : p \in ws[k].put
      BY <1>2, <3>1
    <3> QED BY <1>2, <1>3, <1>5, <1>6, <3>2, <3>3, KeptPut
  <2>2. CASE j \in joined
    <3>1. Kept(p)
      BY <1>3, <1>8, <2>2 DEF MembersInv
    <3> QED BY <1>2, <1>3, <1>5, <1>6, <3>1, KeptSubmit
  <2> QED BY <1>3, <2>1, <2>2
<1>9. \A j \in joined' : j[1] \in User /\ j[2] \in used'
  BY <1>1, <1>3, <1>4 DEF MembersInv
<1> QED BY <1>8, <1>9 DEF MembersInv

LEMMA DiesMembers ==
    ASSUME Typed, MembersInv, NEW d \in Device, Dies(d), UNCHANGED <<used, rash>>
    PROVE  MembersInv'
<1>1. /\ Forget(d)
      /\ joined' = {j \in joined : \A p \in JoinLeaves(j[1], j[2]) : Landed(d, p)}
  BY DEF Dies
<1>2. QueuesOf(FoundingWrite) /\ \A w \in FoundingWrite : w.put \subseteq w.drop
  BY DEF Typed, FoundingWrite
<1>3. ASSUME NEW j \in joined', j[2] \notin rash', NEW p \in JoinLeaves(j[1], j[2])
      PROVE  Kept(p)'
  <2>1. j \in joined /\ Landed(d, p)
    BY <1>1, <1>3
  <2>2. Kept(p)
    BY <1>3, <2>1 DEF MembersInv
  <2> QED BY <1>1, <1>2, <2>1, <2>2, KeptForget
<1> QED BY <1>1, <1>3 DEF MembersInv

LEMMA MembersStep == Typed /\ MembersInv /\ [FoundingNext]_foundingVars => MembersInv'
<1> SUFFICES ASSUME Typed, MembersInv, [FoundingNext]_foundingVars PROVE MembersInv'
  OBVIOUS
<1>1. ASSUME UNCHANGED <<tree, pending, sent, used, joined, rash>>
      PROVE  MembersInv'
  BY <1>1, KeptSteady DEF MembersInv
<1>2. CASE UNCHANGED foundingVars
  BY <1>1, <1>2 DEF foundingVars
<1>3. ASSUME NEW f \in Form,
             Open(f) \/ Back(f) \/ Close(f) \/ \E c \in Club : UploadFails(f, c)
      PROVE  MembersInv'
  <2>1. UNCHANGED <<tree, pending, sent, used, joined, rash>>
    BY <1>3 DEF Open, Back, Close, UploadFails, dbVars
  <2> QED BY <1>1, <2>1
<1>4. ASSUME NEW d \in Device, FoundingDeliver(d)
      PROVE  MembersInv'
  <2>1. QueuesOf(FoundingWrite) /\ (Serve(d) \/ Ack(d) \/ Resend(d)) /\ UNCHANGED <<used, joined, rash>>
    BY <1>4 DEF FoundingDeliver, Typed, formVars
  <2> QED BY <2>1, KeptServe, KeptAck, KeptResend DEF MembersInv
<1> QED BY <1>2, <1>3, <1>4, FoundingCases, CreateMembers, PictureMembers, JoinMembers, DiesMembers

LEMMA MembersImplies == Typed /\ MembersInv => MembersStay
<1> SUFFICES ASSUME Typed, MembersInv, NEW j \in joined, j[2] \notin rash,
                    \A d \in Device : \A p \in JoinLeaves(j[1], j[2]) : Landed(d, p),
                    NEW p \in JoinLeaves(j[1], j[2])
             PROVE  p \in tree
  BY DEF MembersStay
<1>1. Kept(p) /\ \A d \in Device : Landed(d, p)
  BY DEF MembersInv
<1>2. QueuesOf(FoundingWrite) /\ \A w \in FoundingWrite : w.put \subseteq w.drop
  BY DEF Typed, FoundingWrite
<1> QED BY <1>1, <1>2, KeptLanded

(* Who joins a club whose founding is acknowledged stays in both lists,    *)
(* whatever is sent again and whatever its founder goes on to write.       *)
THEOREM MembersAreKept == FoundingSpec => []MembersStay
<1>1. FoundingInit => Typed /\ MembersInv
  BY TypedInit DEF FoundingInit, MembersInv
<1>2. Typed /\ [FoundingNext]_foundingVars => Typed'
  BY TypedStep
<1>3. Typed /\ MembersInv /\ [FoundingNext]_foundingVars => MembersInv'
  BY MembersStep
<1>4. Typed /\ MembersInv => MembersStay
  BY MembersImplies
<1> QED BY <1>1, <1>2, <1>3, <1>4, PTL DEF FoundingSpec

-----------------------------------------------------------------------------
(* Pictures.                                                               *)

(* Form f is the only one that has to do with c, and its phone the only    *)
(* one that writes there.                                                  *)
Holds(f, c) ==
    /\ c \in used
    /\ \A g \in Form \ {f} : c \notin form[g].uploads /\ form[g].ClubKey # c
    /\ \A d \in Device \ {HostOf[f]} : ~Covered(pending[d], PhotoUrl(c, c))

Uploading(c) == \E f \in Form : c \in form[f].uploads

(* A club's picture is in the hands of the form that founded the club      *)
(* until it has been written, and then it stays, unless that form puts     *)
(* the picture of an earlier club in its place.                            *)
PictureInv ==
    /\ \A c \in Club : \A p \in Photos(c) \cap tree : \A q \in Photos(c) \cap tree : p = q
    /\ \A f \in Form : form[f].ClubKey \in used \cup {NoClub}
    /\ \A f \in Form : \A c \in form[f].uploads : Holds(f, c)
    /\ \A c \in used \ (failed \cup mixed) : Uploading(c) \/ Kept(PhotoUrl(c, c))

(* What no queue of a phone comes to cover stays uncovered.                *)
LEMMA CoveredSubmit ==
    ASSUME Typed, NEW d \in Device, NEW ws \in Seq(FoundingWrite), Submit(d, ws), NEW p,
           \A k \in 1..Len(ws) : p \notin ws[k].drop
    PROVE  \A e \in Device : ~Covered(pending[e], p) => ~Covered(pending'[e], p)
<1> DEFINE m == Len(pending[d])
<1>1. /\ \A e \in Device \ {d} : pending'[e] = pending[e]
      /\ Len(pending'[d]) = m + Len(ws)
      /\ \A i \in 1..m : pending'[d][i] = pending[d][i]
      /\ \A i \in 1..Len(ws) : pending'[d][m + i] = ws[i]
  BY SubmitQueue DEF Typed
<1>2. m \in Nat /\ Len(ws) \in Nat
  BY DEF Typed, QueuesOf
<1> SUFFICES ASSUME NEW e \in Device, ~Covered(pending[e], p),
                    NEW i \in 1..Len(pending'[e]), p \in pending'[e][i].drop
             PROVE  FALSE
  BY DEF Covered
<1>3. e = d /\ i \notin 1..m
  BY <1>1 DEF Covered
<1> HIDE DEF m
<1>4. i - m \in 1..Len(ws) /\ m + (i - m) = i
  BY <1>1, <1>2, <1>3
<1> QED BY <1>1, <1>3, <1>4

(* A tap that leaves the picture of c alone leaves it where it is.         *)
LEMMA AsidePicture ==
    ASSUME Typed, NEW d \in Device, NEW ws \in Seq(FoundingWrite), Submit(d, ws),
           NEW c \in Club, \A k \in 1..Len(ws) : PhotoUrl(c, c) \notin ws[k].drop
    PROVE  /\ Kept(PhotoUrl(c, c)) => Kept(PhotoUrl(c, c))'
           /\ \A e \in Device : ~Covered(pending[e], PhotoUrl(c, c)) => ~Covered(pending'[e], PhotoUrl(c, c))
<1>1. QueuesOf(FoundingWrite)
  BY DEF Typed
<1>2. Kept(PhotoUrl(c, c)) => Kept(PhotoUrl(c, c))'
  BY <1>1, KeptSubmit
<1>3. \A e \in Device : ~Covered(pending[e], PhotoUrl(c, c)) => ~Covered(pending'[e], PhotoUrl(c, c))
  BY CoveredSubmit
<1> QED BY <1>2, <1>3

LEMMA PhotoLeaf ==
    ASSUME NEW c \in Club
    PROVE  PhotoUrl(c, c) \in Photos(c) /\ PhotoUrl(c, c) \in About(c)
BY AboutLeaves DEF Photos

(* createClub: the new club's picture is being uploaded by this form       *)
(* alone, and the writes touch no other club.                              *)
LEMMA CreatePicture ==
    ASSUME Typed, PictureInv, NEW f \in Form, NEW b \in Club, CreateClub(f, b)
    PROVE  PictureInv'
<1> DEFINE ws == FoundingWrites(Me(f), b)
           d == HostOf[f]
<1>1. Me(f) \in User /\ d \in Device
  BY AccountAssumption, HostAssumption DEF Me
<1>2. /\ ws \in Seq(FoundingWrite) /\ Len(ws) = 2
      /\ ws[1].drop = Node(b) /\ ws[2].drop = {AdminEntry(Me(f), b)}
  BY <1>1, CreateWrites
<1>3. /\ Submit(d, ws) /\ b \notin used /\ used' = used \cup {b}
      /\ failed' = failed /\ mixed' = mixed /\ tree' = tree
  BY DEF CreateClub, Submit
<1>4. /\ form'[f].uploads = form[f].uploads \cup {b} /\ form'[f].ClubKey = b
      /\ \A g \in Form \ {f} : form'[g] = form[g]
  BY DEF CreateClub, Typed
<1>5. \A e \in Device \ {d} : pending'[e] = pending[e]
  BY <1>3 DEF Submit, Typed, QueuesOf
<1> HIDE DEF ws
<1>6. ASSUME NEW c \in Club, c # b
      PROVE  /\ Kept(PhotoUrl(c, c)) => Kept(PhotoUrl(c, c))'
             /\ \A e \in Device : ~Covered(pending[e], PhotoUrl(c, c)) => ~Covered(pending'[e], PhotoUrl(c, c))
  <2>1. PhotoUrl(c, c) \notin Node(b) /\ PhotoUrl(c, c) # AdminEntry(Me(f), b)
    BY <1>1, <1>6, PhotoLeaf, PartsApart
  <2>2. \A k \in 1..Len(ws) : k = 1 \/ k = 2
    BY <1>2
  <2>3. \A k \in 1..Len(ws) : PhotoUrl(c, c) \notin ws[k].drop
    BY <1>2, <2>1, <2>2
  <2> QED BY <1>1, <1>2, <1>3, <2>3, AsidePicture
<1>7. ASSUME NEW g \in Form, NEW c \in form'[g].uploads
      PROVE  Holds(g, c)'
  <2>1. CASE c = b
    <3>1. g = f
      BY <1>3, <1>4, <1>7, <2>1 DEF PictureInv, Holds
    <3>2. \A h \in Form \ {f} : b \notin form'[h].uploads /\ form'[h].ClubKey # b
      <4>1. \A h \in Form : b \notin form[h].uploads
        BY <1>3 DEF PictureInv, Holds
      <4>2. \A h \in Form : form[h].ClubKey # b
        BY <1>3, NoClubAssumption DEF PictureInv
      <4> QED BY <1>4, <4>1, <4>2
    <3>3. \A e \in Device : ~Covered(pending[e], PhotoUrl(b, b))
      BY <1>3, PhotoLeaf DEF Typed, Untouched, Covered
    <3>4. \A e \in Device \ {HostOf[f]} : ~Covered(pending'[e], PhotoUrl(b, b))
      BY <1>5, <3>3 DEF d
    <3> QED BY <1>3, <2>1, <3>1, <3>2, <3>4 DEF Holds
  <2>2. CASE c # b
    <3>1. Holds(g, c) /\ c \in Club
      BY <1>4, <1>7, <2>2 DEF PictureInv, Holds, Typed
    <3>2. \A h \in Form \ {g} : c \notin form'[h].uploads /\ form'[h].ClubKey # c
      BY <1>4, <2>2, <3>1 DEF Holds
    <3>3. \A e \in Device \ {HostOf[g]} : ~Covered(pending'[e], PhotoUrl(c, c))
      BY <1>6, <2>2, <3>1 DEF Holds
    <3> QED BY <1>3, <3>1, <3>2, <3>3 DEF Holds
  <2> QED BY <2>1, <2>2
<1>8. ASSUME NEW c \in used' \ (failed' \cup mixed')
      PROVE  Uploading(c)' \/ Kept(PhotoUrl(c, c))'
  <2>1. CASE c = b
    BY <1>4, <2>1 DEF Uploading
  <2>2. CASE c # b
    <3>1. c \in used \ (failed \cup mixed) /\ c \in Club
      BY <1>3, <1>8, <2>2 DEF Typed
    <3>2. Uploading(c) => Uploading(c)'
      BY <1>4 DEF Uploading
    <3>3. Uploading(c) \/ Kept(PhotoUrl(c, c))
      BY <3>1 DEF PictureInv
    <3> QED BY <1>6, <2>2, <3>1, <3>2, <3>3
  <2> QED BY <2>1, <2>2
<1>9. \A g \in Form : form'[g].ClubKey \in used' \cup {NoClub}
  BY <1>3, <1>4 DEF PictureInv
<1>10. \A c \in Club : \A p \in Photos(c) \cap tree' : \A q \in Photos(c) \cap tree' : p = q
  BY <1>3 DEF PictureInv
<1> QED BY <1>7, <1>8, <1>9, <1>10 DEF PictureInv

(* The upload for b ends well and is listed for x, the form's latest club: *)
(* if that is b the picture stays, and if not, neither is vouched for but  *)
(* an x whose own picture is still to come.                                *)
LEMMA UploadPicture ==
    ASSUME Typed, PictureInv, NEW f \in Form, NEW b \in Club, UploadSucceeds(f, b)
    PROVE  PictureInv'
<1> DEFINE x == form[f].ClubKey
           d == HostOf[f]
           ws == <<Overwrite(Photos(x), {PhotoUrl(x, b)})>>
<1>1. x \in Club /\ d \in Device /\ b \in form[f].uploads
  BY HostAssumption DEF Typed, UploadSucceeds
<1>2. /\ ws \in Seq(FoundingWrite) /\ Len(ws) = 1
      /\ ws[1].drop = Photos(x) /\ ws[1].put = {PhotoUrl(x, b)}
  BY <1>1, PhotoWrites
<1>3. /\ Submit(d, ws) /\ UNCHANGED <<used, failed>> /\ tree' = tree
      /\ mixed \subseteq mixed'
      /\ x # b => b \in mixed' /\ (x \in form[f].uploads \/ x \in mixed')
  BY DEF UploadSucceeds, Submit
<1>4. /\ form'[f].uploads = form[f].uploads \ {b} /\ form'[f].ClubKey = x
      /\ \A g \in Form \ {f} : form'[g] = form[g]
  BY DEF UploadSucceeds, Typed, FormState
<1>5. /\ \A g \in Form : form'[g].uploads \subseteq form[g].uploads /\ form'[g].ClubKey = form[g].ClubKey
      /\ \A e \in Device \ {d} : pending'[e] = pending[e]
  BY <1>3, <1>4 DEF Submit, Typed, QueuesOf
<1>6. Holds(f, b) /\ b \in Club
  BY <1>1 DEF PictureInv
<1> HIDE DEF ws, x
<1>7. ASSUME NEW c \in Club, c # x
      PROVE  /\ Kept(PhotoUrl(c, c)) => Kept(PhotoUrl(c, c))'
             /\ \A e \in Device : ~Covered(pending[e], PhotoUrl(c, c)) => ~Covered(pending'[e], PhotoUrl(c, c))
  <2>1. PhotoUrl(c, c) \notin Photos(x)
    BY <1>7 DEF Photos, PhotoUrl
  <2>2. \A k \in 1..Len(ws) : PhotoUrl(c, c) \notin ws[k].drop
    BY <1>2, <2>1
  <2> QED BY <1>1, <1>2, <1>3, <2>2, AsidePicture
<1>8. ASSUME NEW g \in Form, NEW c \in form'[g].uploads
      PROVE  Holds(g, c)'
  <2>1. Holds(g, c) /\ c \in Club
    BY <1>5, <1>8 DEF PictureInv, Holds, Typed
  <2>2. \A e \in Device \ {HostOf[g]} : ~Covered(pending'[e], PhotoUrl(c, c))
    <3>1. CASE g = f
      BY <1>5, <2>1, <3>1 DEF Holds, d
    <3>2. CASE g # f
      <4>1. c # x
        BY <2>1, <3>2 DEF Holds, x
      <4> QED BY <1>7, <2>1, <4>1 DEF Holds
    <3> QED BY <3>1, <3>2
  <2> QED BY <1>3, <1>5, <2>1, <2>2 DEF Holds
<1>9. ASSUME NEW c \in used' \ (failed' \cup mixed')
      PROVE  Uploading(c)' \/ Kept(PhotoUrl(c, c))'
  <2>1. c \in Club /\ c \in used \ (failed \cup mixed)
    BY <1>3 DEF Typed
  <2>2. CASE c = b
    <3>1. x = c
      BY <1>3, <1>9, <2>2
    <3>2. \A e \in Device \ {d} : Refilled(e, PhotoUrl(c, c))
      BY <1>6, <2>2 DEF Holds, Refilled, Covered, d
    <3>3. 1 \in 1..Len(ws) /\ \A k \in 1..Len(ws) : k = 1
      BY <1>2
    <3>4. (\E k \in 1..Len(ws) : PhotoUrl(c, c) \in ws[k].put)
          /\ (\A k \in 1..Len(ws) : PhotoUrl(c, c) \in ws[k].drop =>
                 \E j \in k..Len(ws) : PhotoUrl(c, c) \in ws[j].put)
      BY <1>2, <2>2, <3>1, <3>3
    <3>5. Kept(PhotoUrl(c, c))'
      BY <1>1, <1>2, <1>3, <3>2, <3>4, KeptPut DEF Typed
    <3> QED BY <3>5
  <2>3. CASE c # b /\ Uploading(c)
    BY <1>4, <2>3 DEF Uploading
  <2>4. CASE c # b /\ ~Uploading(c)
    <3>1. Kept(PhotoUrl(c, c))
      BY <2>1, <2>4 DEF PictureInv
    <3>2. c # x
      BY <1>3, <1>9, <2>4 DEF Uploading
    <3> QED BY <1>7, <2>1, <3>1, <3>2
  <2> QED BY <2>2, <2>3, <2>4
<1>10. \A g \in Form : form'[g].ClubKey \in used' \cup {NoClub}
  BY <1>3, <1>5 DEF PictureInv
<1>11. \A c \in Club : \A p \in Photos(c) \cap tree' : \A q \in Photos(c) \cap tree' : p = q
  BY <1>3 DEF PictureInv
<1> QED BY <1>8, <1>9, <1>10, <1>11 DEF PictureInv

LEMMA JoinPicture ==
    ASSUME Typed, PictureInv, NEW d \in Device, NEW b \in Club, Join(d, b)
    PROVE  PictureInv'
<1> DEFINE u == AccountOf[d]
           ws == <<Update(ClubEntry(u, b)), Update(Member(b, u))>>
<1>1. u \in User
  BY AccountAssumption
<1>2. /\ ws \in Seq(FoundingWrite) /\ Len(ws) = 2
      /\ \A k \in 1..2 : ws[k].drop = ws[k].put /\ ws[k].put \subseteq {ClubEntry(u, b), Member(b, u)}
  BY <1>1, JoinWrites
<1>3. Submit(d, ws) /\ UNCHANGED <<form, used, failed, mixed>> /\ tree' = tree
  BY DEF Join, Submit
<1> HIDE DEF ws, u
<1>4. ASSUME NEW c \in Club
      PROVE  /\ Kept(PhotoUrl(c, c)) => Kept(PhotoUrl(c, c))'
             /\ \A e \in Device : ~Covered(pending[e], PhotoUrl(c, c)) => ~Covered(pending'[e], PhotoUrl(c, c))
  <2>1. \A k \in 1..Len(ws) : PhotoUrl(c, c) \notin ws[k].drop
    BY <1>1, <1>2, PhotoLeaf, PartsApart
  <2> QED BY <1>2, <1>3, <2>1, AsidePicture
<1>5. \A g \in Form : \A c \in form[g].uploads : Holds(g, c)'
  BY <1>3, <1>4 DEF PictureInv, Holds, Typed
<1>6. ASSUME NEW c \in used \ (failed \cup mixed)
      PROVE  Uploading(c)' \/ Kept(PhotoUrl(c, c))'
  <2>1. c \in Club /\ (Uploading(c) \/ Kept(PhotoUrl(c, c)))
    BY DEF PictureInv, Typed
  <2> QED BY <1>3, <1>4, <2>1 DEF Uploading
<1> QED BY <1>3, <1>5, <1>6 DEF PictureInv

(* A form is opened, covered or closed, or an upload of it fails.          *)
LEMMA ScreensPicture ==
    ASSUME Typed, PictureInv, NEW f \in Form,
           Open(f) \/ Back(f) \/ Close(f) \/ \E c \in Club : UploadFails(f, c)
    PROVE  PictureInv'
<1>1. UNCHANGED <<tree, pending, sent, used, mixed>> /\ failed \subseteq failed'
  BY DEF Open, Back, Close, UploadFails, dbVars
<1>2. /\ \A g \in Form \ {f} : form'[g] = form[g]
      /\ \/ form'[f].uploads = form[f].uploads /\ form'[f].ClubKey = form[f].ClubKey
         \/ form[f].uploads = {} /\ form'[f].uploads = {} /\ form'[f].ClubKey = NoClub
         \/ \E c \in Club : /\ form'[f].uploads = form[f].uploads \ {c} /\ c \in failed'
                            /\ form'[f].ClubKey = form[f].ClubKey
  <2>1. CASE Open(f)
    BY <2>1 DEF Open, Typed, ClosedForm
  <2>2. CASE Back(f)
    BY <2>2 DEF Back, Typed, FormState
  <2>3. CASE Close(f)
    BY <2>3 DEF Close, Typed, FormState
  <2>4. CASE \E c \in Club : UploadFails(f, c)
    BY <2>4 DEF UploadFails, Typed, FormState
  <2> QED BY <2>1, <2>2, <2>3, <2>4
<1>3. \A g \in Form : form'[g].uploads \subseteq form[g].uploads
                      /\ (form'[g].uploads # {} => form'[g].ClubKey = form[g].ClubKey)
  BY <1>2
<1>4. /\ \A g \in Form : form'[g].ClubKey \in {form[g].ClubKey, NoClub}
      /\ \A g \in Form : form'[g].ClubKey \in used' \cup {NoClub}
  BY <1>1, <1>2 DEF PictureInv
<1>5. ASSUME NEW g \in Form, NEW c \in form'[g].uploads
      PROVE  Holds(g, c)'
  <2>1. Holds(g, c) /\ c # NoClub
    BY <1>3, NoClubAssumption DEF PictureInv, Holds, Typed
  <2> QED BY <1>1, <1>3, <1>4, <2>1 DEF Holds
<1>6. ASSUME NEW c \in used' \ (failed' \cup mixed')
      PROVE  Uploading(c)' \/ Kept(PhotoUrl(c, c))'
  <2>1. c \in used \ (failed \cup mixed) /\ \A g \in Form : c \in form'[g].uploads <=> c \in form[g].uploads
    BY <1>1, <1>2
  <2>2. Uploading(c) \/ Kept(PhotoUrl(c, c))
    BY <2>1 DEF PictureInv
  <2>3. Kept(PhotoUrl(c, c)) => Kept(PhotoUrl(c, c))'
    BY <1>1, KeptSteady
  <2> QED BY <2>1, <2>2, <2>3 DEF Uploading
<1> QED BY <1>1, <1>4, <1>5, <1>6 DEF PictureInv

(* A death fails every upload of its phone and every club its phone was    *)
(* still writing to.                                                       *)
LEMMA DiesPicture ==
    ASSUME Typed, PictureInv, NEW d \in Device, Dies(d), UNCHANGED <<used, mixed>>
    PROVE  PictureInv'
<1>1. /\ Forget(d) /\ tree' = tree
      /\ form' = [f \in Form |-> IF HostOf[f] = d THEN ClosedForm ELSE form[f]]
      /\ failed' = failed \cup (UNION {form[f].uploads : f \in {g \in Form : HostOf[g] = d}})
                          \cup {c \in Club : \E p \in Node(c) : ~Landed(d, p)}
  BY DEF Dies, Forget
<1>2. QueuesOf(FoundingWrite) /\ \A w \in FoundingWrite : w.put \subseteq w.drop
  BY DEF Typed, FoundingWrite
<1>3. \A g \in Form : form'[g] = IF HostOf[g] = d THEN ClosedForm ELSE form[g]
  BY <1>1
<1>4. \A g \in Form : form'[g].ClubKey \in used' \cup {NoClub}
  BY <1>3 DEF PictureInv, ClosedForm
<1>5. /\ pending'[d] = <<>> /\ 1..Len(<<>>) = {}
      /\ \A e \in Device \ {d} : pending'[e] = pending[e]
  BY <1>1, <1>2, ForgetQueue
<1>6. ASSUME NEW g \in Form, NEW c \in form'[g].uploads
      PROVE  Holds(g, c)'
  <2>1. form'[g] = form[g]
    BY <1>3, <1>6 DEF ClosedForm
  <2>2. Holds(g, c) /\ c # NoClub
    BY <1>6, <2>1, NoClubAssumption DEF PictureInv, Holds, Typed
  <2>3. \A h \in Form \ {g} : c \notin form'[h].uploads /\ form'[h].ClubKey # c
    BY <1>3, <2>2 DEF Holds, ClosedForm
  <2>4. \A e \in Device \ {HostOf[g]} : ~Covered(pending'[e], PhotoUrl(c, c))
    BY <1>5, <2>2 DEF Holds, Covered
  <2> QED BY <2>2, <2>3, <2>4 DEF Holds
<1>7. ASSUME NEW c \in used' \ (failed' \cup mixed')
      PROVE  Uploading(c)' \/ Kept(PhotoUrl(c, c))'
  <2>1. c \in Club /\ c \in used \ (failed \cup mixed)
    BY <1>1 DEF Typed
  <2>2. Uploading(c) \/ Kept(PhotoUrl(c, c))
    BY <2>1 DEF PictureInv
  <2>3. \A g \in Form : HostOf[g] = d => c \notin form[g].uploads
    BY <1>1
  <2>4. Landed(d, PhotoUrl(c, c))
    <3>1. PhotoUrl(c, c) \in Node(c)
      BY <2>1, PhotoLeaf DEF Node
    <3> QED BY <1>1, <2>1, <3>1
  <2>5. Kept(PhotoUrl(c, c)) => Kept(PhotoUrl(c, c))'
    BY <1>1, <1>2, <2>4, KeptForget
  <2>6. Uploading(c) => Uploading(c)'
    BY <1>3, <2>3 DEF Uploading
  <2> QED BY <2>2, <2>5, <2>6
<1> QED BY <1>1, <1>4, <1>6, <1>7 DEF PictureInv

(* The connection: a write reaches the server, which then holds its        *)
(* picture alone.                                                          *)
LEMMA DeliverPicture ==
    ASSUME Typed, PictureInv, NEW d \in Device, FoundingDeliver(d)
    PROVE  PictureInv'
<1>1. /\ QueuesOf(FoundingWrite) /\ (Serve(d) \/ Ack(d) \/ Resend(d))
      /\ UNCHANGED <<form, used, failed, mixed>>
  BY DEF FoundingDeliver, formVars, Typed
<1>2. ASSUME NEW c \in Club, NEW p \in Photos(c) \cap tree', NEW q \in Photos(c) \cap tree'
      PROVE  p = q
  <2>1. CASE tree' = tree
    BY <1>2, <2>1 DEF PictureInv
  <2>2. CASE Serve(d)
    <3> DEFINE w == pending[d][sent[d] + 1]
    <3>1. tree' = Applied(tree, w) /\ sent[d] + 1 \in 1..Len(pending[d])
      BY <1>1, <2>2, ServeQueue
    <3>2. w \in FoundingWrite
      BY <1>1, <3>1, QueuedWrite
    <3> HIDE DEF w
    <3>3. CASE w.drop \cap Photos(c) = {}
      BY <1>2, <3>1, <3>2, <3>3 DEF PictureInv, Applied, FoundingWrite
    <3>4. CASE w.drop \cap Photos(c) # {}
      <4>1. Photos(c) \subseteq w.drop
        BY <3>2, <3>4 DEF FoundingWrite, Tidy
      <4>2. p \in w.put \cap Photos(c) /\ q \in w.put \cap Photos(c)
        BY <1>2, <3>1, <4>1 DEF Applied
      <4> QED BY <3>2, <4>2 DEF FoundingWrite, Tidy
    <3> QED BY <3>3, <3>4
  <2>3. Serve(d) \/ tree' = tree
    BY <1>1 DEF Ack, Resend
  <2> QED BY <2>1, <2>2, <2>3
<1>3. \A e \in Device : \A i \in 1..Len(pending'[e]) :
         \E k \in 1..Len(pending[e]) : pending'[e][i] = pending[e][k]
  <2>1. CASE Ack(d)
    BY <1>1, <2>1, AckQueue
  <2>2. CASE Serve(d) \/ Resend(d)
    BY <2>2 DEF Serve, Resend
  <2> QED BY <1>1, <2>1, <2>2
<1>4. ASSUME NEW g \in Form, NEW c \in form'[g].uploads
      PROVE  Holds(g, c)'
  <2>1. Holds(g, c)
    BY <1>1 DEF PictureInv
  <2>2. \A e \in Device \ {HostOf[g]} : ~Covered(pending'[e], PhotoUrl(c, c))
    BY <1>3, <2>1 DEF Holds, Covered
  <2> QED BY <1>1, <2>1, <2>2 DEF Holds
<1>5. ASSUME NEW c \in used' \ (failed' \cup mixed')
      PROVE  Uploading(c)' \/ Kept(PhotoUrl(c, c))'
  <2>1. Uploading(c) \/ Kept(PhotoUrl(c, c))
    BY <1>1 DEF PictureInv
  <2>2. Kept(PhotoUrl(c, c)) => Kept(PhotoUrl(c, c))'
    BY <1>1, KeptServe, KeptAck, KeptResend
  <2> QED BY <1>1, <2>1, <2>2 DEF Uploading
<1> QED BY <1>1, <1>2, <1>4, <1>5 DEF PictureInv

LEMMA PictureStep == Typed /\ PictureInv /\ [FoundingNext]_foundingVars => PictureInv'
<1> SUFFICES ASSUME Typed, PictureInv, [FoundingNext]_foundingVars PROVE PictureInv'
  OBVIOUS
<1>1. CASE UNCHANGED foundingVars
  BY <1>1, KeptSteady DEF PictureInv, Holds, Uploading, foundingVars
<1> QED BY <1>1, FoundingCases, CreatePicture, UploadPicture, JoinPicture, ScreensPicture,
           DiesPicture, DeliverPicture

LEMMA PictureImplies == Typed /\ PictureInv => OwnPicture
<1> SUFFICES ASSUME Typed, PictureInv, NEW c \in used \ (failed \cup mixed),
                    \A f \in Form : c \notin form[f].uploads,
                    \A d \in Device, p \in Node(c) : Landed(d, p)
             PROVE  Photos(c) \cap tree = {PhotoUrl(c, c)}
  BY DEF OwnPicture
<1>1. c \in Club
  BY DEF Typed
<1>2. Kept(PhotoUrl(c, c))
  BY DEF PictureInv, Uploading
<1>3. \A d \in Device : Landed(d, PhotoUrl(c, c))
  BY <1>1, PhotoLeaf DEF Node
<1>4. QueuesOf(FoundingWrite) /\ \A w \in FoundingWrite : w.put \subseteq w.drop
  BY DEF Typed, FoundingWrite
<1>5. PhotoUrl(c, c) \in tree
  BY <1>2, <1>3, <1>4, KeptLanded
<1>6. PhotoUrl(c, c) \in Photos(c) \cap tree
  BY <1>1, <1>5, PhotoLeaf
<1>7. \A p \in Photos(c) \cap tree : p = PhotoUrl(c, c)
  BY <1>1, <1>6 DEF PictureInv
<1> QED BY <1>6, <1>7

(* A club comes to have its own picture and no other, unless its upload    *)
(* failed or its form listed one club's picture for the other.             *)
THEOREM PicturesAreOwn == FoundingSpec => []OwnPicture
<1>1. FoundingInit => Typed /\ PictureInv
  BY TypedInit DEF FoundingInit, PictureInv, ClosedForm
<1>2. Typed /\ [FoundingNext]_foundingVars => Typed'
  BY TypedStep
<1>3. Typed /\ PictureInv /\ [FoundingNext]_foundingVars => PictureInv'
  BY PictureStep
<1>4. Typed /\ PictureInv => OwnPicture
  BY PictureImplies
<1> QED BY <1>1, <1>2, <1>3, <1>4, PTL DEF FoundingSpec
=============================================================================
