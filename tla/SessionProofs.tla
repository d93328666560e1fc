---------------------------- MODULE SessionProofs ----------------------------
(***************************************************************************)
(* Who is signed in where, for every number of phones and users, every way *)
(* of signing in and every number of answers and uploads under way.        *)
(***************************************************************************)
EXTENDS Session, DatabaseProofs

-----------------------------------------------------------------------------
(* Leaves.                                                                 *)

(* What the form and its upload write about u.                             *)
Said(u) == Profiles(u) \cup Photos(u)
Own(u) == {Profile(u, u), PhotoUrl(u, u)}

LEMMA SaidLeaves ==
    ASSUME NEW u \in User
    PROVE  /\ Said(u) \subseteq SessionLeaf /\ Photos(u) \subseteq SessionLeaf
           /\ UserSubtree(u) \subseteq SessionLeaf
           /\ \A v \in User : /\ Profile(u, v) \in Profiles(u) /\ PhotoUrl(u, v) \in Photos(u)
                              /\ Profile(u, v) \in UserSubtree(u)
<1>1. Said(u) \subseteq SessionLeaf
  BY DEF Said, SessionLeaf
<1>2. \A v \in User : Profile(u, v) \in Profiles(u) /\ PhotoUrl(u, v) \in Photos(u)
  BY DEF Profiles, Photos
<1>3. \A v : Profile(u, v).root = "users" /\ Profile(u, v).of = u
  BY DEF Profile
<1> QED BY <1>1, <1>2, <1>3 DEF UserSubtree, Said

(* A leaf says something about the user it lies below and nobody else.     *)
LEMMA SaidApart ==
    ASSUME NEW u \in User, NEW v \in User, NEW w \in User, u # v
    PROVE  Profile(u, w) \notin Said(v) /\ PhotoUrl(u, w) \notin Said(v)
<1>1. \A p \in Said(v) : p.of = v
  BY DEF Said, Profiles, Photos, Profile, PhotoUrl
<1>2. Profile(u, w).of = u /\ PhotoUrl(u, w).of = u
  BY DEF Profile, PhotoUrl
<1> QED BY <1>1, <1>2

(* The form writes below one user, and his picture's write is on no field. *)
LEMMA SubtreesApart ==
    ASSUME NEW u \in User, NEW v \in User
    PROVE  /\ Profile(u, u) \in UserSubtree(v) => u = v
           /\ PhotoUrl(u, u) \in UserSubtree(v) => u = v
           /\ PhotoUrl(u, u) \in Photos(v) => u = v
           /\ Profile(u, u) \notin Photos(v)
BY DEF UserSubtree, Photos, Profile, PhotoUrl

(* The two-sided lists and the founded clubs are no part of it.            *)
LEMMA ListsApart ==
    ASSUME NEW u \in User
    PROVE  Leaf \cap Said(u) = {}
<1>1. \A p \in Said(u) : p.list \in {"profile", "photo_url"}
  BY DEF Said, Profiles, Photos, Profile, PhotoUrl
<1>2. ASSUME NEW l \in Link, NEW p \in Halves(l)
      PROVE  p.list \notin {"profile", "photo_url"}
  <2>1. l.kind \in {"club", "follow", "event"}
    BY DEF Link
  <2>2. /\ NearList[l.kind] \in {"clubs", "following", "events"}
        /\ FarList[l.kind] \in {"members", "followers"}
    BY <2>1 DEF NearList, FarList
  <2>3. Near(l).list = NearList[l.kind] /\ Far(l).list = FarList[l.kind]
    BY DEF Near, Far
  <2>4. p = Near(l) \/ p = Far(l)
    BY DEF Halves
  <2> QED BY <2>2, <2>3, <2>4
<1>3. \A p \in FoundedLeaves : p.list \in {"admin_clubs", "admins", "members"}
  BY DEF FoundedLeaves, FoundingLeaves, AdminEntry
<1>4. \A p \in Leaf : p.list \notin {"profile", "photo_url"}
  BY <1>2, <1>3 DEF Leaf
<1> QED BY <1>1, <1>4

-----------------------------------------------------------------------------
(* One phone: its app a and its uploads n, when A are the accounts and C   *)
(* the users that came in over the form or upload of another.              *)
Sound(a, n, A, C) ==
    /\ a.account \in A \cup {NoUser}
    /\ \A r \in a.requests : r.result \in {"new", "known"} => r.user \in A
    /\ a.front = "off" => a.requests = {} /\ \A v \in User : n[v] = 0
    /\ a.front \in {"new", "tabs", "edit"} => \A r \in a.requests : r.stale
    /\ a.front \in {"tabs", "edit"} => a.overtaken \/ a.account # NoUser
    /\ a.front # "off" /\ a.account # NoUser => a.user = a.account
    /\ a.front \in {"new", "edit"} =>
          a.typed \in User /\ (a.user = a.typed \/ a.user \in C)
    /\ \A v \in User : n[v] > 0 => a.user \in User /\ (a.user = v \/ a.user \in C)

(* More accounts and more crossings do no harm.                            *)
LEMMA SoundGrows ==
    ASSUME NEW a, NEW n, NEW A, NEW C, Sound(a, n, A, C),
           NEW B, A \subseteq B, NEW D, C \subseteq D
    PROVE  Sound(a, n, B, D)
BY DEF Sound

SessionWrite ==
    {w \in [drop : SUBSET SessionLeaf, put : SUBSET SessionLeaf] : w.put \subseteq w.drop}

Typed ==
    /\ tree \subseteq SessionLeaf
    /\ QueuesOf(SessionWrite)
    /\ wanted \subseteq Link /\ torn \subseteq Link
    /\ verified \subseteq accounts /\ accounts \subseteq User
    /\ app \in [Device -> AppState]
    /\ uploads \in [Device -> [User -> Nat]]
    /\ stored \subseteq User /\ crossed \subseteq User /\ skipped \subseteq User \ crossed
    /\ \A d \in Device : Sound(app[d], uploads[d], accounts, crossed)

LEMMA TypedImplies == Typed => SessionTypeOK /\ TabsHaveUser
<1> SUFFICES ASSUME Typed PROVE SessionTypeOK /\ TabsHaveUser
  OBVIOUS
<1>1. ASSUME NEW d \in Device
      PROVE  /\ \A i \in 1..Len(pending[d]) : pending[d][i] \in SessionWrite
             /\ sent[d] \in 0..Len(pending[d])
  BY DEF Typed, QueuesOf
<1>2. SessionTypeOK
  BY <1>1 DEF SessionTypeOK, Typed, SessionWrite
<1>3. TabsHaveUser
  BY DEF TabsHaveUser, Typed, Sound
<1> QED BY <1>2, <1>3

(* A step of one phone.                                                    *)
LEMMA AppStep ==
    ASSUME Typed, NEW d \in Device, NEW a \in AppState, NEW n \in [User -> Nat],
           app' = [app EXCEPT ![d] = a],
           uploads' = [uploads EXCEPT ![d] = n],
           accounts \subseteq accounts', crossed \subseteq crossed',
           Sound(a, n, accounts', crossed')
    PROVE  /\ app' \in [Device -> AppState] /\ uploads' \in [Device -> [User -> Nat]]
           /\ \A e \in Device : Sound(app'[e], uploads'[e], accounts', crossed')
<1>1. /\ app' \in [Device -> AppState] /\ app'[d] = a
      /\ \A e \in Device \ {d} : app'[e] = app[e]
  BY DEF Typed
<1>2. /\ uploads' \in [Device -> [User -> Nat]] /\ uploads'[d] = n
      /\ \A e \in Device \ {d} : uploads'[e] = uploads[e]
  BY DEF Typed
<1>3. \A e \in Device : Sound(app[e], uploads[e], accounts', crossed')
  BY SoundGrows DEF Typed
<1> QED BY <1>1, <1>2, <1>3

(* The same for a step that leaves the uploads alone.                      *)
LEMMA ScreenStep ==
    ASSUME Typed, NEW d \in Device, NEW a \in AppState,
           app' = [app EXCEPT ![d] = a], uploads' = uploads,
           accounts \subseteq accounts', crossed \subseteq crossed',
           Sound(a, uploads[d], accounts', crossed')
    PROVE  /\ app' \in [Device -> AppState] /\ uploads' \in [Device -> [User -> Nat]]
           /\ \A e \in Device : Sound(app'[e], uploads'[e], accounts', crossed')
<1>1. uploads[d] \in [User -> Nat] /\ uploads' = [uploads EXCEPT ![d] = uploads[d]]
  BY DEF Typed
<1> QED BY <1>1, AppStep

-----------------------------------------------------------------------------
(* Screens and answers.                                                    *)

LEMMA AgedRequests ==
    ASSUME NEW R \in SUBSET Request
    PROVE  /\ Aged(R) \in SUBSET Request
           /\ \A q \in Aged(R) : q.stale /\ \E r \in R : q.user = r.user /\ q.result = r.result
<1>1. ASSUME NEW r \in R
      PROVE  LET q == [r EXCEPT !.stale = TRUE]
             IN  q \in Request /\ q.stale /\ q.user = r.user /\ q.result = r.result
  BY DEF Request
<1> QED BY <1>1 DEF Aged

(* Going from one screen to another.                                       *)
LEMMA MovesSound ==
    ASSUME Typed, NEW d \in Device,
           \/ Launch(d) \/ Dismiss(d) \/ LogOut(d) \/ OpenEdit(d) \/ Back(d)
           \/ \E way \in Ways : SignIn(d, way)
    PROVE  /\ app' \in [Device -> AppState] /\ uploads' \in [Device -> [User -> Nat]]
           /\ \A e \in Device : Sound(app'[e], uploads'[e], accounts, crossed)
           /\ UNCHANGED <<vars, accounts, verified, stored, skipped, crossed>>
<1> DEFINE b == app[d]
           n == uploads[d]
<1>1. b \in AppState /\ Sound(b, n, accounts, crossed) /\ accounts \subseteq User
  BY DEF Typed
<1>2. UNCHANGED <<vars, accounts, verified, uploads, stored, skipped, crossed>>
  BY DEF Launch, Dismiss, LogOut, OpenEdit, Back, SignIn
<1>3. \E a \in AppState : app' = [app EXCEPT ![d] = a] /\ Sound(a, n, accounts, crossed)
  <2>1. CASE Launch(d)
    <3> DEFINE a == [b EXCEPT !.user = b.account, !.front = IF b.account # NoUser THEN "tabs" ELSE "login"]
    <3>1. app' = [app EXCEPT ![d] = a] /\ b.front = "off"
      BY <2>1 DEF Launch
    <3>2. a \in AppState
      BY <1>1 DEF AppState
    <3>3. Sound(a, n, accounts, crossed)
      BY <1>1, <3>1 DEF AppState, Sound
    <3> HIDE DEF a
    <3> QED BY <3>1, <3>2, <3>3
  <2>2. CASE Dismiss(d)
    <3> DEFINE a == [b EXCEPT !.alert = FALSE]
    <3>1. app' = [app EXCEPT ![d] = a]
      BY <2>2 DEF Dismiss
    <3>2. a \in AppState
      BY <1>1 DEF AppState
    <3>3. Sound(a, n, accounts, crossed)
      BY <1>1 DEF AppState, Sound
    <3> HIDE DEF a
    <3> QED BY <3>1, <3>2, <3>3
  <2>3. CASE LogOut(d)
    <3> DEFINE a == [b EXCEPT !.account = NoUser, !.front = "login",
                              !.requests = Aged(b.requests), !.overtaken = FALSE]
    <3>1. app' = [app EXCEPT ![d] = a] /\ b.front = "tabs"
      BY <2>3 DEF LogOut
    <3>2. b.requests \in SUBSET Request
      BY <1>1 DEF AppState
    <3>3. a \in AppState
      BY <1>1, <3>2, AgedRequests DEF AppState
    <3>4. Sound(a, n, accounts, crossed)
      BY <1>1, <3>1, <3>2, AgedRequests DEF AppState, Sound
    <3> HIDE DEF a
    <3> QED BY <3>1, <3>3, <3>4
  <2>4. CASE OpenEdit(d)
    <3> DEFINE a == [b EXCEPT !.front = "edit", !.typed = b.account]
    <3>1. app' = [app EXCEPT ![d] = a] /\ b.front = "tabs" /\ b.account # NoUser
      BY <2>4 DEF OpenEdit
    <3>2. a \in AppState
      BY <1>1 DEF AppState
    <3>3. Sound(a, n, accounts, crossed)
      BY <1>1, <3>1 DEF AppState, Sound
    <3> HIDE DEF a
    <3> QED BY <3>1, <3>2, <3>3
  <2>5. CASE Back(d)
    <3> DEFINE a == [b EXCEPT !.front = "tabs", !.typed = NoUser]
    <3>1. app' = [app EXCEPT ![d] = a] /\ b.front = "edit"
      BY <2>5 DEF Back
    <3>2. a \in AppState
      BY <1>1 DEF AppState
    <3>3. Sound(a, n, accounts, crossed)
      BY <1>1, <3>1 DEF AppState, Sound
    <3> HIDE DEF a
    <3> QED BY <3>1, <3>2, <3>3
  <2>6. ASSUME NEW way \in Ways, SignIn(d, way)
        PROVE  <1>3
    <3> DEFINE q == [kind |-> way.kind, user |-> way.user, result |-> "none", stale |-> FALSE]
               a == [b EXCEPT !.requests = b.requests \cup {q}]
    <3>1. app' = [app EXCEPT ![d] = a] /\ b.front = "login"
      BY <2>6 DEF SignIn
    <3>2. q \in Request /\ q.result = "none"
      BY WaysAssumption DEF Request
    <3> HIDE DEF q
    <3>3. a \in AppState
      BY <1>1, <3>2 DEF AppState
    <3>4. Sound(a, n, accounts, crossed)
      BY <1>1, <3>1, <3>2 DEF AppState, Sound
    <3> HIDE DEF a
    <3> QED BY <3>1, <3>3, <3>4
  <2> QED BY <2>1, <2>2, <2>3, <2>4, <2>5, <2>6
<1>4. PICK a \in AppState : app' = [app EXCEPT ![d] = a] /\ Sound(a, n, accounts, crossed)
  BY <1>3
<1>5. /\ app' \in [Device -> AppState] /\ uploads' \in [Device -> [User -> Nat]]
      /\ \A e \in Device : Sound(app'[e], uploads'[e], accounts', crossed')
  BY <1>2, <1>4, ScreenStep
<1> QED BY <1>2, <1>5

(* The server's verdict.                                                   *)
LEMMA AuthenticateTyped ==
    ASSUME Typed, NEW d \in Device, NEW r, Authenticate(d, r)
    PROVE  Typed' /\ UNCHANGED <<vars, crossed>>
<1> DEFINE b == app[d]
           n == uploads[d]
           v == Verdict(r)
           q == [r EXCEPT !.result = v]
           a == [b EXCEPT !.requests = (b.requests \ {r}) \cup {q}]
<1>1. b \in AppState /\ Sound(b, n, accounts, crossed) /\ accounts \subseteq User
  BY DEF Typed
<1>2. r \in Request /\ r \in b.requests
  BY <1>1 DEF Authenticate, AppState
<1>3. /\ app' = [app EXCEPT ![d] = a]
      /\ accounts' = IF v = "new" THEN accounts \cup {r.user} ELSE accounts
      /\ verified' = IF v = "new" /\ r.kind = "federated" THEN verified \cup {r.user} ELSE verified
      /\ UNCHANGED <<vars, uploads, stored, skipped, crossed>>
  BY DEF Authenticate
<1>4. v \in {"new", "known", "refused"} /\ (v = "known" => r.user \in accounts)
  BY DEF Verdict
<1> HIDE DEF v
<1>5. r.user \in User /\ q \in Request /\ q.user = r.user /\ q.result = v /\ q.stale = r.stale
  BY <1>2, <1>4 DEF Request
<1>6. v \in {"new", "known"} => r.user \in accounts'
  BY <1>3, <1>4
<1>7. /\ accounts \subseteq accounts' /\ accounts' \subseteq User
      /\ verified' \subseteq accounts'
  BY <1>1, <1>3, <1>5 DEF Typed
<1> HIDE DEF q
<1>8. a \in AppState
  BY <1>1, <1>5 DEF AppState
<1>9. Sound(a, n, accounts', crossed)
  <2>1. Sound(b, n, accounts', crossed)
    BY <1>1, <1>7, SoundGrows
  <2>2. b.front # "off"
    BY <1>1, <1>2 DEF Sound
  <2>3. /\ a.account = b.account /\ a.user = b.user /\ a.front = b.front /\ a.typed = b.typed
        /\ a.overtaken = b.overtaken /\ a.requests = (b.requests \ {r}) \cup {q}
    BY <1>1 DEF AppState
  <2> HIDE DEF a, b, n
  <2> QED BY <1>2, <1>5, <1>6, <2>1, <2>2, <2>3 DEF Sound
<1> HIDE DEF a
<1>10. /\ app' \in [Device -> AppState] /\ uploads' \in [Device -> [User -> Nat]]
       /\ \A e \in Device : Sound(app'[e], uploads'[e], accounts', crossed')
  BY <1>3, <1>7, <1>8, <1>9, ScreenStep
<1>11. QueuesOf(SessionWrite)'
  BY <1>3 DEF Typed, QueuesOf, vars
<1> QED BY <1>3, <1>7, <1>10, <1>11 DEF Typed, vars

(* Whoever comes in on a phone where somebody else's form or upload is     *)
(* under way has crossed it.                                               *)
LEMMA CrossesAll ==
    ASSUME NEW d \in Device, NEW u \in User
    PROVE  /\ \A v \in User : uploads[d][v] > 0 => u = v \/ u \in Crosses(d, u)
           /\ app[d].front \in {"new", "edit"} => u = app[d].typed \/ u \in Crosses(d, u)
           /\ Crosses(d, u) \subseteq User /\ LosesForm(d, u) \subseteq User
BY DEF Crosses, LosesForm

(* An answer that changes the account of a phone to c and its user to u.   *)
LEMMA AnswerSound ==
    ASSUME Typed, NEW d \in Device, NEW r \in app[d].requests,
           r.result \in {"new", "known"},
           NEW a \in AppState,
           a.user = r.user, a.account \in {NoUser, r.user},
           app[d].overtaken \/ r.stale => a.overtaken,
           \/ a.front = app[d].front /\ a.typed = app[d].typed /\ a.requests = app[d].requests \ {r}
           \/ /\ a.front = "tabs" \/ (a.front = "new" /\ a.typed = r.user)
              /\ a.account = r.user
              /\ a.requests = Aged(app[d].requests \ {r})
    PROVE  Sound(a, uploads[d], accounts, crossed \cup Crosses(d, r.user))
<1> DEFINE b == app[d]
           n == uploads[d]
           C == crossed \cup Crosses(d, r.user)
<1>1. b \in AppState /\ Sound(b, n, accounts, crossed) /\ accounts \subseteq User
  BY DEF Typed
<1>2. r.user \in accounts /\ r.user \in User
  BY <1>1 DEF Sound
<1>3. r.user # NoUser
  BY <1>2, NoUserAssumption
<1>4. b.front # "off"
  BY <1>1 DEF Sound
<1>5. \A v \in User : n[v] > 0 => r.user = v \/ r.user \in C
  BY <1>2, CrossesAll
<1>6. b.front \in {"new", "edit"} => r.user = b.typed \/ r.user \in C
  BY <1>2, CrossesAll
<1>7. Sound(b, n, accounts, C)
  BY <1>1, SoundGrows
<1>8. b.requests \in SUBSET Request
  BY <1>1 DEF AppState
<1>9. b.front \in {"new", "tabs", "edit"} => r.stale
  BY <1>1 DEF Sound
<1> HIDE DEF b, n, C
<1>10. a.user \in User /\ \A v \in User : n[v] > 0 => a.user = v \/ a.user \in C
  BY <1>2, <1>5
<1>11. a.account \in accounts \cup {NoUser} /\ (a.account # NoUser => a.user = a.account)
  BY <1>2
<1>12. CASE a.front = b.front /\ a.typed = b.typed /\ a.requests = b.requests \ {r}
  <2>1. a.front \in {"tabs", "edit"} => a.overtaken
    BY <1>9, <1>12
  <2>2. \A q \in a.requests : q.result \in {"new", "known"} => q.user \in accounts
    BY <1>7, <1>12 DEF Sound
  <2>3. a.front \in {"new", "tabs", "edit"} => \A q \in a.requests : q.stale
    BY <1>7, <1>12 DEF Sound
  <2>4. a.front # "off"
    BY <1>4, <1>12
  <2>5. a.front \in {"new", "edit"} =>
           a.typed \in User /\ (a.user = a.typed \/ a.user \in C)
    BY <1>6, <1>7, <1>12 DEF Sound
  <2> QED BY <1>10, <1>11, <2>1, <2>2, <2>3, <2>4, <2>5 DEF Sound, n, C
<1>13. CASE /\ a.front = "tabs" \/ (a.front = "new" /\ a.typed = r.user)
            /\ a.account = r.user
            /\ a.requests = Aged(b.requests \ {r})
  <2>1. \A q \in a.requests : q.stale /\ \E x \in b.requests : q.user = x.user /\ q.result = x.result
    <3>1. b.requests \ {r} \in SUBSET Request
      BY <1>8
    <3> QED BY <1>13, <3>1, AgedRequests
  <2>2. \A q \in a.requests : q.result \in {"new", "known"} => q.user \in accounts
    BY <1>7, <2>1 DEF Sound
  <2>3. a.account # NoUser /\ a.front # "off"
    BY <1>3, <1>13
  <2>4. a.front \in {"new", "edit"} =>
           a.typed \in User /\ (a.user = a.typed \/ a.user \in C)
    BY <1>2, <1>13
  <2> QED BY <1>10, <1>11, <2>1, <2>2, <2>3, <2>4 DEF Sound, n, C
<1> QED BY <1>12, <1>13 DEF b, n, C

(* What every answer to a sign-in has in common.                           *)
LEMMA AnswerTyped ==
    ASSUME Typed, NEW d \in Device, NEW a \in AppState,
           app' = [app EXCEPT ![d] = a],
           Sound(a, uploads[d], accounts, crossed'),
           crossed \subseteq crossed', crossed' \subseteq User,
           skipped' \subseteq User \ crossed',
           UNCHANGED <<vars, accounts, verified, uploads, stored>>
    PROVE  Typed'
<1>1. /\ app' \in [Device -> AppState] /\ uploads' \in [Device -> [User -> Nat]]
      /\ \A e \in Device : Sound(app'[e], uploads'[e], accounts', crossed')
  BY ScreenStep
<1>2. QueuesOf(SessionWrite)'
  BY DEF Typed, QueuesOf, vars
<1> QED BY <1>1, <1>2 DEF Typed, vars

LEMMA AcceptedTyped ==
    ASSUME Typed, NEW d \in Device, NEW r, Accepted(d, r)
    PROVE  Typed' /\ UNCHANGED vars /\ crossed \subseteq crossed'
<1> DEFINE b == app[d]
           a == SignedIn(b, r, Target(r))
<1>1. b \in AppState /\ accounts \subseteq User
  BY DEF Typed
<1>2. r \in Request /\ r \in b.requests /\ r.result \in {"new", "known"}
  BY <1>1 DEF Accepted, AppState
<1>3. r.user \in User
  BY <1>2 DEF Request
<1>4. /\ app' = [app EXCEPT ![d] = a]
      /\ crossed' = crossed \cup Crosses(d, r.user)
      /\ UNCHANGED <<vars, accounts, verified, uploads, stored>>
  BY DEF Accepted
<1>5. crossed' \subseteq User
  BY <1>3, <1>4, CrossesAll DEF Typed
<1>6. skipped' \subseteq User \ crossed'
  BY <1>3, CrossesAll DEF Accepted, Typed
<1>7. Target(r) \in {"new", "tabs"}
  BY DEF Target
<1> DEFINE x == [b EXCEPT !.account = r.user, !.user = r.user, !.requests = b.requests \ {r},
                          !.overtaken = b.overtaken \/ r.stale]
           t == Target(r)
           y == [x EXCEPT !.front = t, !.typed = IF t = "new" THEN r.user ELSE NoUser,
                          !.requests = Aged(x.requests)]
<1>8. a = IF MayLead(b, r) THEN y ELSE x
  BY DEF SignedIn
<1>9. /\ x \in AppState
      /\ x.user = r.user /\ x.account = r.user /\ (b.overtaken \/ r.stale => x.overtaken)
      /\ x.front = b.front /\ x.typed = b.typed /\ x.requests = b.requests \ {r}
  BY <1>1, <1>3 DEF AppState
<1> HIDE DEF x, t
<1>10. Aged(x.requests) \in SUBSET Request
  BY <1>9, AgedRequests DEF AppState
<1>11. /\ y \in AppState
       /\ y.user = r.user /\ y.account = r.user /\ (b.overtaken \/ r.stale => y.overtaken)
       /\ y.front = t /\ (t = "new" => y.typed = r.user) /\ y.requests = Aged(b.requests \ {r})
  BY <1>3, <1>7, <1>9, <1>10 DEF AppState, t
<1> HIDE DEF y, a
<1>12. a \in AppState /\ Sound(a, uploads[d], accounts, crossed')
  <2>1. CASE MayLead(b, r)
    <3>1. a = y
      BY <1>8, <2>1
    <3>2. y.front = "tabs" \/ (y.front = "new" /\ y.typed = r.user)
      BY <1>7, <1>11 DEF t
    <3> HIDE DEF b
    <3>3. Sound(y, uploads[d], accounts, crossed \cup Crosses(d, r.user))
      BY <1>2, <1>11, <3>2, AnswerSound DEF b
    <3> QED BY <1>4, <1>11, <3>1, <3>3
  <2>2. CASE ~MayLead(b, r)
    <3>1. a = x
      BY <1>8, <2>2
    <3>2. Sound(x, uploads[d], accounts, crossed \cup Crosses(d, r.user))
      BY <1>2, <1>9, AnswerSound
    <3> QED BY <1>4, <1>9, <3>1, <3>2
  <2> QED BY <2>1, <2>2
<1> QED BY <1>4, <1>5, <1>6, <1>12, AnswerTyped

LEMMA NotVerifiedTyped ==
    ASSUME Typed, NEW d \in Device, NEW r, NotVerified(d, r)
    PROVE  Typed' /\ UNCHANGED vars /\ crossed \subseteq crossed'
<1> DEFINE b == app[d]
           a == [b EXCEPT !.account = NoUser, !.user = r.user,
                          !.requests = b.requests \ {r},
                          !.alert = b.alert \/ b.front = "login",
                          !.overtaken = b.overtaken \/ r.stale]
<1>1. b \in AppState
  BY DEF Typed
<1>2. r \in Request /\ r \in b.requests /\ r.result \in {"new", "known"}
  BY <1>1 DEF NotVerified, AppState
<1>3. r.user \in User
  BY <1>2 DEF Request
<1>4. /\ app' = [app EXCEPT ![d] = a]
      /\ crossed' = crossed \cup Crosses(d, r.user)
      /\ UNCHANGED <<vars, accounts, verified, uploads, stored>>
  BY DEF NotVerified
<1>5. crossed' \subseteq User
  BY <1>3, <1>4, CrossesAll DEF Typed
<1>6. skipped' \subseteq User \ crossed'
  BY <1>3, CrossesAll DEF NotVerified, Typed
<1>7. /\ a \in AppState
      /\ a.user = r.user /\ a.account = NoUser /\ (b.overtaken \/ r.stale => a.overtaken)
      /\ a.front = b.front /\ a.typed = b.typed /\ a.requests = b.requests \ {r}
  BY <1>1, <1>3 DEF AppState
<1> HIDE DEF a
<1>8. Sound(a, uploads[d], accounts, crossed \cup Crosses(d, r.user))
  BY <1>2, <1>7, AnswerSound
<1> QED BY <1>4, <1>5, <1>6, <1>7, <1>8, AnswerTyped

LEMMA FailedTyped ==
    ASSUME Typed, NEW d \in Device, NEW r, Failed(d, r)
    PROVE  Typed' /\ UNCHANGED <<vars, crossed>>
<1> DEFINE b == app[d]
           a == [b EXCEPT !.requests = b.requests \ {r},
                          !.alert = b.alert \/ (r.kind # "federated" /\ MayLead(b, r))]
<1>1. b \in AppState /\ Sound(b, uploads[d], accounts, crossed)
  BY DEF Typed
<1>2. r \in Request
  BY <1>1 DEF Failed, AppState
<1>3. r.user \in User
  BY <1>2 DEF Request
<1>4. app' = [app EXCEPT ![d] = a] /\ UNCHANGED <<vars, accounts, verified, uploads, stored, crossed>>
  BY DEF Failed
<1>5. skipped' \subseteq User \ crossed'
  BY <1>3 DEF Failed, Typed
<1>6. /\ a \in AppState
      /\ a.account = b.account /\ a.user = b.user /\ a.front = b.front /\ a.typed = b.typed
      /\ a.overtaken = b.overtaken /\ a.requests = b.requests \ {r}
  BY <1>1 DEF AppState
<1> HIDE DEF a
<1>7. Sound(a, uploads[d], accounts, crossed)
  BY <1>1, <1>6 DEF Sound
<1>8. crossed' \subseteq User
  BY <1>4 DEF Typed
<1> QED BY <1>4, <1>5, <1>6, <1>7, <1>8, AnswerTyped

LEMMA VerifyTyped ==
    ASSUME Typed, NEW u \in User, Verify(u)
    PROVE  Typed' /\ UNCHANGED <<vars, crossed>>
<1>1. /\ verified' \subseteq accounts
      /\ UNCHANGED <<vars, accounts, app, uploads, stored, skipped, crossed>>
  BY DEF Verify, Typed
<1>2. QueuesOf(SessionWrite)'
  BY <1>1 DEF Typed, QueuesOf, vars
<1> QED BY <1>1, <1>2 DEF Typed, vars

-----------------------------------------------------------------------------
(* The form, its uploads and the connection.                               *)

LEMMA FormWrites ==
    ASSUME NEW u \in User, NEW v \in User
    PROVE  LET ws == <<Overwrite(UserSubtree(u), {Profile(u, v)})>>
           IN  /\ ws \in Seq(SessionWrite) /\ Len(ws) = 1
               /\ ws[1].drop = UserSubtree(u) /\ ws[1].put = {Profile(u, v)}
<1> DEFINE w1 == Overwrite(UserSubtree(u), {Profile(u, v)})
<1>1. w1 \in SessionWrite /\ w1.drop = UserSubtree(u) /\ w1.put = {Profile(u, v)}
  BY SaidLeaves DEF Overwrite, SessionWrite
<1> HIDE DEF w1
<1>2. <<w1>> \in Seq(SessionWrite) /\ Len(<<w1>>) = 1 /\ <<w1>>[1] = w1
  BY <1>1
<1> QED BY <1>1, <1>2 DEF w1

LEMMA PhotoWrites ==
    ASSUME NEW u \in User, NEW v \in User
    PROVE  LET ws == <<Overwrite(Photos(u), {PhotoUrl(u, v)})>>
           IN  /\ ws \in Seq(SessionWrite) /\ Len(ws) = 1
               /\ ws[1].drop = Photos(u) /\ ws[1].put = {PhotoUrl(u, v)}
<1> DEFINE w1 == Overwrite(Photos(u), {PhotoUrl(u, v)})
<1>1. w1 \in SessionWrite /\ w1.drop = Photos(u) /\ w1.put = {PhotoUrl(u, v)}
  BY SaidLeaves DEF Overwrite, SessionWrite
<1> HIDE DEF w1
<1>2. <<w1>> \in Seq(SessionWrite) /\ Len(<<w1>>) = 1 /\ <<w1>>[1] = w1
  BY <1>1
<1> QED BY <1>1, <1>2 DEF w1

LEMMA DiesTyped ==
    ASSUME Typed, NEW d \in Device, Dies(d), UNCHANGED <<accounts, verified, crossed>>
    PROVE  Typed'
<1> DEFINE a == Off(app[d].account)
<1>1. app[d].account \in accounts \cup {NoUser} /\ accounts \subseteq User
  BY DEF Typed, Sound
<1>2. a \in AppState
  BY <1>1 DEF Off, AppState
<1>3. NoUploads \in [User -> Nat] /\ \A v \in User : NoUploads[v] = 0
  BY DEF NoUploads
<1>4. Sound(a, NoUploads, accounts, crossed)
  BY <1>1, <1>3 DEF Off, Sound
<1>5. app' = [app EXCEPT ![d] = a] /\ uploads' = [uploads EXCEPT ![d] = NoUploads]
  BY DEF Dies
<1> HIDE DEF a
<1>6. /\ app' \in [Device -> AppState] /\ uploads' \in [Device -> [User -> Nat]]
      /\ \A e \in Device : Sound(app'[e], uploads'[e], accounts', crossed')
  BY <1>2, <1>3, <1>4, <1>5, AppStep
<1>7. QueuesOf(SessionWrite)' /\ tree' = tree
  BY ForgetQueue DEF Typed, Dies, Kill
<1>8. wanted' \subseteq Link /\ torn' \subseteq Link /\ stored' \subseteq User /\ skipped' \subseteq User \ crossed'
  BY DEF Typed, Dies, Kill
<1> QED BY <1>6, <1>7, <1>8 DEF Typed

(* finishSignUp: what is written is the node of the user of the form.      *)
LEMMA FinishStep ==
    ASSUME Typed, NEW d \in Device, FinishSignUp(d)
    PROVE  /\ app[d].user \in User /\ app[d].typed \in User
           /\ app[d].user = app[d].typed \/ app[d].user \in crossed
           /\ app[d].account \in {NoUser, app[d].user}
           /\ Submit(d, <<Overwrite(UserSubtree(app[d].user), {Profile(app[d].user, app[d].typed)})>>)
           /\ UNCHANGED <<wanted, torn, skipped, accounts, verified, crossed>>
           /\ stored' \subseteq stored
<1>1. Sound(app[d], uploads[d], accounts, crossed) /\ app[d] \in AppState
  BY DEF Typed
<1>2. app[d].front \in {"new", "edit"} /\ app[d].user # NoUser
  BY DEF FinishSignUp
<1>3. app[d].user \in User /\ app[d].account \in {NoUser, app[d].user}
  BY <1>1, <1>2 DEF Sound, AppState
<1>4. app[d].typed \in User /\ (app[d].user = app[d].typed \/ app[d].user \in crossed)
  BY <1>1, <1>2 DEF Sound
<1>5. /\ Submit(d, <<Overwrite(UserSubtree(app[d].user), {Profile(app[d].user, app[d].typed)})>>)
      /\ UNCHANGED <<wanted, torn, skipped, accounts, verified, crossed>>
  BY DEF FinishSignUp, linkVars
<1>6. stored' \subseteq stored
  BY DEF FinishSignUp
<1> QED BY <1>3, <1>4, <1>5, <1>6

(* ... and where it leads: f is in front then, and n are the uploads.      *)
LEMMA FinishTarget ==
    ASSUME Typed, NEW d \in Device, FinishSignUp(d)
    PROVE  \E f \in {"tabs", "doomed"}, n \in [User -> Nat] :
              /\ app' = [app EXCEPT ![d] = [app[d] EXCEPT !.front = f, !.typed = NoUser]]
              /\ uploads' = [uploads EXCEPT ![d] = n]
              /\ f = "tabs" => app[d].account = app[d].user
              /\ \A x \in User \ {app[d].user} : n[x] = uploads[d][x]
              /\ n[app[d].user] # 0 \/ app[d].user \notin stored'
<1>1. uploads[d] \in [User -> Nat]
  BY DEF Typed
<1>2. app[d].user \in User /\ app[d].account \in {NoUser, app[d].user}
  BY FinishStep
<1>3. CASE app[d].account = NoUser
  <2>1. /\ app' = [app EXCEPT ![d] = [app[d] EXCEPT !.front = "doomed", !.typed = NoUser]]
        /\ stored' = stored \ {app[d].user} /\ uploads' = uploads
    BY <1>3 DEF FinishSignUp
  <2>2. uploads' = [uploads EXCEPT ![d] = uploads[d]]
    BY <2>1 DEF Typed
  <2> QED BY <1>1, <2>1, <2>2
<1>4. CASE app[d].account # NoUser
  <2> DEFINE m == [uploads[d] EXCEPT ![app[d].user] = @ + 1]
  <2>1. /\ app' = [app EXCEPT ![d] = [app[d] EXCEPT !.front = "tabs", !.typed = NoUser]]
        /\ uploads' = [uploads EXCEPT ![d][app[d].account] = @ + 1]
    BY <1>4 DEF FinishSignUp
  <2>2. app[d].account = app[d].user
    BY <1>2, <1>4
  <2>3. m \in [User -> Nat] /\ m[app[d].user] # 0 /\ \A x \in User \ {app[d].user} : m[x] = uploads[d][x]
    BY <1>1, <1>2
  <2>4. uploads' = [uploads EXCEPT ![d] = m]
    BY <2>1, <2>2
  <2> HIDE DEF m
  <2> QED BY <2>1, <2>2, <2>3, <2>4
<1> QED BY <1>3, <1>4

LEMMA FinishTyped ==
    ASSUME Typed, NEW d \in Device, FinishSignUp(d)
    PROVE  Typed'
<1> DEFINE u == app[d].user
           ws == <<Overwrite(UserSubtree(u), {Profile(u, app[d].typed)})>>
<1>1. /\ u \in User /\ app[d].typed \in User
      /\ Submit(d, ws) /\ stored' \subseteq stored
      /\ UNCHANGED <<wanted, torn, skipped, accounts, verified, crossed>>
  BY FinishStep
<1>2. PICK f \in {"tabs", "doomed"}, n \in [User -> Nat] :
         /\ app' = [app EXCEPT ![d] = [app[d] EXCEPT !.front = f, !.typed = NoUser]]
         /\ uploads' = [uploads EXCEPT ![d] = n]
         /\ f = "tabs" => app[d].account = app[d].user
         /\ \A x \in User \ {app[d].user} : n[x] = uploads[d][x]
         /\ n[app[d].user] # 0 \/ app[d].user \notin stored'
  BY FinishTarget
<1> DEFINE a == [app[d] EXCEPT !.front = f, !.typed = NoUser]
<1>3. /\ Sound(app[d], uploads[d], accounts, crossed) /\ app[d] \in AppState
      /\ app[d].front \in {"new", "edit"}
  BY DEF Typed, FinishSignUp
<1>4. ws \in Seq(SessionWrite)
  BY <1>1, FormWrites
<1>5. a \in AppState
  BY <1>2, <1>3 DEF AppState
<1>6. /\ a.account = app[d].account /\ a.user = u /\ a.front = f
      /\ a.requests = app[d].requests
  BY <1>3 DEF AppState
<1> HIDE DEF ws, a
<1>7. Sound(a, n, accounts, crossed)
  <2>1. \A x \in User : n[x] > 0 => a.user \in User /\ (a.user = x \/ a.user \in crossed)
    BY <1>1, <1>2, <1>3, <1>6 DEF Sound
  <2>2. f = "tabs" => a.account # NoUser
    BY <1>1, <1>2, <1>6, NoUserAssumption
  <2>3. \A r \in a.requests : r.stale /\ (r.result \in {"new", "known"} => r.user \in accounts)
    BY <1>3, <1>6 DEF Sound
  <2>4. a.account \in accounts \cup {NoUser} /\ (a.account # NoUser => a.user = a.account)
    BY <1>3, <1>6 DEF Sound
  <2>5. a.front \in {"tabs", "doomed"}
    BY <1>6
  <2> QED BY <1>6, <2>1, <2>2, <2>3, <2>4, <2>5 DEF Sound
<1>8. /\ app' \in [Device -> AppState] /\ uploads' \in [Device -> [User -> Nat]]
      /\ \A e \in Device : Sound(app'[e], uploads'[e], accounts', crossed')
  <2>1. app' = [app EXCEPT ![d] = a] /\ accounts' = accounts /\ crossed' = crossed
    BY <1>1, <1>2 DEF a
  <2> QED BY <1>2, <1>5, <1>7, <2>1, AppStep
<1>9. QueuesOf(SessionWrite)' /\ tree' = tree
  BY <1>1, <1>4, SubmitQueue DEF Typed
<1> QED BY <1>1, <1>8, <1>9 DEF Typed

(* An upload of v that ends on d.                                          *)
LEMMA UploadEnds ==
    ASSUME Typed, NEW d \in Device, NEW v \in User, uploads[d][v] > 0,
           uploads' = [uploads EXCEPT ![d][v] = @ - 1],
           UNCHANGED <<accounts, verified, app, skipped, crossed>>
    PROVE  /\ app' \in [Device -> AppState] /\ uploads' \in [Device -> [User -> Nat]]
           /\ \A e \in Device : Sound(app'[e], uploads'[e], accounts', crossed')
           /\ app[d].user \in User
           /\ app[d].user = v \/ app[d].user \in crossed
<1> DEFINE n == [uploads[d] EXCEPT ![v] = @ - 1]
<1>1. Sound(app[d], uploads[d], accounts, crossed) /\ app[d] \in AppState /\ uploads[d] \in [User -> Nat]
  BY DEF Typed
<1>2. n \in [User -> Nat] /\ \A x \in User : (n[x] > 0 => uploads[d][x] > 0) /\ (uploads[d][x] = 0 => n[x] = 0)
  BY <1>1
<1>3. uploads' = [uploads EXCEPT ![d] = n]
  OBVIOUS
<1>4. app' = [app EXCEPT ![d] = app[d]]
  BY DEF Typed
<1> HIDE DEF n
<1>5. Sound(app[d], n, accounts, crossed)
  BY <1>1, <1>2 DEF Sound
<1>6. app[d].user \in User /\ (app[d].user = v \/ app[d].user \in crossed)
  BY <1>1 DEF Sound
<1> QED BY <1>1, <1>2, <1>3, <1>4, <1>5, <1>6, AppStep

LEMMA UploadSucceedsTyped ==
    ASSUME Typed, NEW d \in Device, NEW v \in User, UploadSucceeds(d, v)
    PROVE  Typed'
<1> DEFINE u == app[d].user
           ws == <<Overwrite(Photos(u), {PhotoUrl(u, v)})>>
<1>1. /\ Submit(d, ws) /\ stored' \in {stored \cup {v}, stored \ {v}}
      /\ UNCHANGED <<wanted, torn, accounts, verified, app, skipped, crossed>>
  BY DEF UploadSucceeds, linkVars
<1>2. /\ app' \in [Device -> AppState] /\ uploads' \in [Device -> [User -> Nat]]
      /\ \A e \in Device : Sound(app'[e], uploads'[e], accounts', crossed')
      /\ u \in User
  BY UploadEnds DEF UploadSucceeds
<1>3. ws \in Seq(SessionWrite)
  BY <1>2, PhotoWrites
<1> HIDE DEF ws, u
<1>4. QueuesOf(SessionWrite)' /\ tree' = tree
  BY <1>1, <1>3, SubmitQueue DEF Typed
<1> QED BY <1>1, <1>2, <1>4 DEF Typed

LEMMA UploadFailsTyped ==
    ASSUME Typed, NEW d \in Device, NEW v \in User, UploadFails(d, v)
    PROVE  Typed' /\ UNCHANGED <<vars, crossed>>
<1>1. /\ app' \in [Device -> AppState] /\ uploads' \in [Device -> [User -> Nat]]
      /\ \A e \in Device : Sound(app'[e], uploads'[e], accounts', crossed')
  BY UploadEnds DEF UploadFails
<1>2. UNCHANGED <<vars, accounts, verified, skipped, crossed>> /\ stored' \subseteq stored
  BY DEF UploadFails
<1>3. QueuesOf(SessionWrite)'
  BY <1>2 DEF Typed, QueuesOf, vars
<1> QED BY <1>1, <1>2, <1>3 DEF Typed, vars

LEMMA DeliverTyped ==
    ASSUME Typed, NEW d \in Device, SessionDeliver(d)
    PROVE  Typed'
<1>1. /\ QueuesOf(SessionWrite)
      /\ UNCHANGED <<wanted, torn, accounts, verified, app, uploads, stored, skipped, crossed>>
  BY DEF Typed, SessionDeliver, Deliver, linkVars
<1>2. QueuesOf(SessionWrite)' /\ tree' \subseteq SessionLeaf
  <2>1. CASE Serve(d)
    <3>1. /\ QueuesOf(SessionWrite)'
          /\ sent[d] + 1 \in 1..Len(pending[d])
          /\ tree' = Applied(tree, pending[d][sent[d] + 1])
      BY <1>1, <2>1, ServeQueue
    <3>2. pending[d][sent[d] + 1] \in SessionWrite
      BY <1>1, <3>1, QueuedWrite
    <3> QED BY <3>1, <3>2 DEF Typed, Applied, SessionWrite
  <2>2. CASE Ack(d)
    BY <1>1, <2>2, AckQueue DEF Typed
  <2>3. CASE Resend(d)
    BY <1>1, <2>3, ResendQueue DEF Typed
  <2> QED BY <2>1, <2>2, <2>3 DEF SessionDeliver, Deliver
<1> QED BY <1>1, <1>2 DEF Typed

-----------------------------------------------------------------------------
(* Steps.                                                                  *)

(* What leaves the database and the crossings alone, or only adds to the   *)
(* latter.                                                                 *)
Aside(d) ==
    \/ Launch(d) \/ Dismiss(d) \/ LogOut(d) \/ OpenEdit(d) \/ Back(d)
    \/ \E way \in Ways : SignIn(d, way)
    \/ \E u \in User : UploadFails(d, u)
    \/ \E r \in app[d].requests :
         Authenticate(d, r) \/ Accepted(d, r) \/ NotVerified(d, r) \/ Failed(d, r)

LEMMA SessionCases ==
    ASSUME SessionNext
    PROVE  \/ \E d \in Device : \/ Aside(d)
                                \/ \E u \in User : UploadSucceeds(d, u)
                                \/ FinishSignUp(d)
                                \/ Dies(d) /\ UNCHANGED <<accounts, verified, crossed>>
                                \/ SessionDeliver(d)
           \/ \E u \in User : Verify(u)
BY DEF SessionNext, SessionKill, Aside

LEMMA AsideTyped ==
    ASSUME Typed, NEW d \in Device, Aside(d)
    PROVE  Typed' /\ UNCHANGED vars /\ crossed \subseteq crossed'
<1>1. CASE \/ Launch(d) \/ Dismiss(d) \/ LogOut(d) \/ OpenEdit(d) \/ Back(d)
           \/ \E way \in Ways : SignIn(d, way)
  <2>1. /\ app' \in [Device -> AppState] /\ uploads' \in [Device -> [User -> Nat]]
        /\ \A e \in Device : Sound(app'[e], uploads'[e], accounts, crossed)
        /\ UNCHANGED <<vars, accounts, verified, stored, skipped, crossed>>
    BY <1>1, MovesSound
  <2>2. QueuesOf(SessionWrite)'
    BY <2>1 DEF Typed, QueuesOf, vars
  <2> QED BY <2>1, <2>2 DEF Typed, vars
<1>2. ASSUME NEW r \in app[d].requests,
             Authenticate(d, r) \/ Accepted(d, r) \/ NotVerified(d, r) \/ Failed(d, r)
      PROVE  Typed' /\ UNCHANGED vars /\ crossed \subseteq crossed'
  BY <1>2, AuthenticateTyped, AcceptedTyped, NotVerifiedTyped, FailedTyped
<1> QED BY <1>1, <1>2, UploadFailsTyped DEF Aside

LEMMA TypedInit == SessionInit => Typed
<1> SUFFICES ASSUME SessionInit PROVE Typed
  OBVIOUS
<1>1. wanted \subseteq Link /\ accounts \subseteq User /\ verified = accounts
  BY StandingAssumption DEF SessionInit
<1>2. tree \subseteq SessionLeaf
  <2>1. (UNION {Halves(l) : l \in wanted}) \cup FoundedLeaves \subseteq SessionLeaf
    BY <1>1 DEF SessionLeaf, Leaf
  <2>2. \A u \in User : Profile(u, u) \in SessionLeaf /\ PhotoUrl(u, u) \in SessionLeaf
    BY SaidLeaves DEF Said
  <2> QED BY <1>1, <2>1, <2>2 DEF SessionInit
<1>3. QueuesOf(SessionWrite)
  BY EmptyQueues DEF SessionInit
<1>4. NoUploads \in [User -> Nat] /\ \A v \in User : NoUploads[v] = 0
  BY DEF NoUploads
<1>5. ASSUME NEW c \in accounts \cup {NoUser}
      PROVE  Off(c) \in AppState /\ Sound(Off(c), NoUploads, accounts, crossed)
  BY <1>1, <1>4 DEF Off, AppState, Sound
<1>6. app \in [Device -> {Off(c) : c \in accounts \cup {NoUser}}] /\ uploads = [d \in Device |-> NoUploads]
  BY DEF SessionInit
<1>7. \A d \in Device : app[d] \in AppState /\ Sound(app[d], uploads[d], accounts, crossed)
  BY <1>5, <1>6
<1>8. app \in [Device -> AppState] /\ uploads \in [Device -> [User -> Nat]]
  BY <1>4, <1>6, <1>7
<1> QED BY <1>1, <1>2, <1>3, <1>7, <1>8 DEF Typed, SessionInit

LEMMA TypedStep == Typed /\ [SessionNext]_sessionVars => Typed'
<1> SUFFICES ASSUME Typed, [SessionNext]_sessionVars PROVE Typed'
  OBVIOUS
<1>1. CASE UNCHANGED sessionVars
  BY <1>1 DEF Typed, QueuesOf, sessionVars
<1>2. CASE SessionNext
  BY <1>2, SessionCases, AsideTyped, UploadSucceedsTyped, FinishTyped, DiesTyped, DeliverTyped, VerifyTyped
<1> QED BY <1>1, <1>2

LEMMA AlwaysTyped == SessionSpec => []Typed
<1>1. SessionInit => Typed
  BY TypedInit
<1>2. Typed /\ [SessionNext]_sessionVars => Typed'
  BY TypedStep
<1> QED BY <1>1, <1>2, PTL DEF SessionSpec

(* Accounts, screens, requests and queues keep their types.                *)
THEOREM SessionTypeCorrect == SessionSpec => []SessionTypeOK
<1>1. Typed => SessionTypeOK
  BY TypedImplies
<1> QED BY <1>1, AlwaysTyped, PTL

(* The tabs, whose screens unwrap the signed-in user by force, have one,   *)
(* unless the answer to another sign-in came after the one that led there. *)
THEOREM TabsAreSignedIn == SessionSpec => []TabsHaveUser
<1>1. Typed => TabsHaveUser
  BY TypedImplies
<1> QED BY <1>1, AlwaysTyped, PTL

-----------------------------------------------------------------------------
(* Own nodes.                                                              *)

(* NodeIsOwn, and nothing on its way will change that.                     *)
OwnInv ==
    \A u \in User \ crossed :
        /\ tree \cap Said(u) \subseteq Own(u)
        /\ \A d \in Device : \A i \in 1..Len(pending[d]) : pending[d][i].put \cap Said(u) \subseteq Own(u)

LEMMA OwnInit == SessionInit => OwnInv
<1> SUFFICES ASSUME SessionInit, NEW u \in User
             PROVE  /\ tree \cap Said(u) \subseteq Own(u)
                    /\ \A d \in Device : 1..Len(pending[d]) = {}
  BY DEF OwnInv
<1>1. wanted \subseteq Link /\ accounts \subseteq User
  BY StandingAssumption DEF SessionInit
<1>2. ASSUME NEW p \in tree, p \in Said(u)
      PROVE  p \in Own(u)
  <2>1. p \notin Leaf
    BY <1>2, ListsApart
  <2>2. (UNION {Halves(l) : l \in wanted}) \cup FoundedLeaves \subseteq Leaf
    BY <1>1 DEF Leaf
  <2>3. PICK v \in accounts : p = Profile(v, v) \/ p = PhotoUrl(v, v)
    BY <2>1, <2>2 DEF SessionInit
  <2>4. v = u
    BY <1>1, <1>2, <2>3, SaidApart
  <2> QED BY <2>3, <2>4 DEF Own
<1>3. \A d \in Device : 1..Len(pending[d]) = {}
  BY EmptyQueues DEF SessionInit
<1> QED BY <1>2, <1>3

(* A tap whose one write says what is the user's own.                      *)
LEMMA SubmitOwn ==
    ASSUME Typed, OwnInv, NEW d \in Device, NEW ws \in Seq(SessionWrite), Submit(d, ws),
           crossed' = crossed,
           \A u \in User \ crossed : \A k \in 1..Len(ws) : ws[k].put \cap Said(u) \subseteq Own(u)
    PROVE  OwnInv'
<1> DEFINE m == Len(pending[d])
<1>1. /\ tree' = tree
      /\ \A e \in Device \ {d} : pending'[e] = pending[e]
      /\ Len(pending'[d]) = m + Len(ws)
      /\ \A i \in 1..m : pending'[d][i] = pending[d][i]
      /\ \A i \in 1..Len(ws) : pending'[d][m + i] = ws[i]
  BY SubmitQueue DEF Typed
<1>2. m \in Nat /\ Len(ws) \in Nat
  BY DEF Typed, QueuesOf
<1>3. ASSUME NEW u \in User \ crossed, NEW e \in Device, NEW i \in 1..Len(pending'[e])
      PROVE  pending'[e][i].put \cap Said(u) \subseteq Own(u)
  <2>1. CASE e # d
    BY <1>1, <2>1 DEF OwnInv
  <2>2. CASE e = d /\ i \in 1..m
    BY <1>1, <2>2 DEF OwnInv
  <2>3. CASE e = d /\ i \notin 1..m
    <3> HIDE DEF m
    <3>1. i - m \in 1..Len(ws) /\ m + (i - m) = i
      BY <1>1, <1>2, <2>3
    <3>2. ws[i - m].put \cap Said(u) \subseteq Own(u)
      BY <3>1
    <3> QED BY <1>1, <2>3, <3>1, <3>2
  <2> QED BY <2>1, <2>2, <2>3
<1> QED BY <1>1, <1>3 DEF OwnInv

LEMMA UploadOwn ==
    ASSUME Typed, OwnInv, NEW d \in Device, NEW v \in User, UploadSucceeds(d, v)
    PROVE  OwnInv'
<1> DEFINE w == app[d].user
           ws == <<Overwrite(Photos(w), {PhotoUrl(w, v)})>>
<1>1. Submit(d, ws) /\ crossed' = crossed
  BY DEF UploadSucceeds
<1>2. w \in User /\ (w = v \/ w \in crossed)
  BY UploadEnds DEF UploadSucceeds
<1>3. ws \in Seq(SessionWrite) /\ Len(ws) = 1 /\ ws[1].put = {PhotoUrl(w, v)}
  BY <1>2, PhotoWrites
<1>4. ASSUME NEW u \in User \ crossed
      PROVE  {PhotoUrl(w, v)} \cap Said(u) \subseteq Own(u)
  BY <1>2, SaidApart DEF Own
<1> HIDE DEF ws
<1>5. \A u \in User \ crossed : \A k \in 1..Len(ws) : ws[k].put \cap Said(u) \subseteq Own(u)
  BY <1>3, <1>4
<1> QED BY <1>1, <1>3, <1>5, SubmitOwn

LEMMA FinishOwn ==
    ASSUME Typed, OwnInv, NEW d \in Device, FinishSignUp(d)
    PROVE  OwnInv'
<1> DEFINE w == app[d].user
           v == app[d].typed
           ws == <<Overwrite(UserSubtree(w), {Profile(w, v)})>>
<1>1. w \in User /\ v \in User /\ (w = v \/ w \in crossed) /\ Submit(d, ws) /\ crossed' = crossed
  BY FinishStep
<1>2. ws \in Seq(SessionWrite) /\ Len(ws) = 1 /\ ws[1].put = {Profile(w, v)}
  BY <1>1, FormWrites
<1>3. ASSUME NEW u \in User \ crossed
      PROVE  {Profile(w, v)} \cap Said(u) \subseteq Own(u)
  BY <1>1, SaidApart DEF Own
<1> HIDE DEF ws
<1>4. \A u \in User \ crossed : \A k \in 1..Len(ws) : ws[k].put \cap Said(u) \subseteq Own(u)
  BY <1>2, <1>3
<1> QED BY <1>1, <1>2, <1>4, SubmitOwn

LEMMA DiesOwn ==
    ASSUME Typed, OwnInv, NEW d \in Device, Dies(d), crossed' = crossed
    PROVE  OwnInv'
<1>1. /\ tree' = tree /\ pending'[d] = <<>> /\ 1..Len(<<>>) = {}
      /\ \A e \in Device \ {d} : pending'[e] = pending[e]
  BY ForgetQueue DEF Typed, Dies, Kill
<1>2. ASSUME NEW u \in User \ crossed, NEW e \in Device, NEW i \in 1..Len(pending'[e])
      PROVE  pending'[e][i].put \cap Said(u) \subseteq Own(u)
  <2>1. e # d
    BY <1>1, <1>2
  <2> QED BY <1>1, <2>1 DEF OwnInv
<1> QED BY <1>1, <1>2 DEF OwnInv

LEMMA DeliverOwn ==
    ASSUME Typed, OwnInv, NEW d \in Device, SessionDeliver(d)
    PROVE  OwnInv'
<1>1. QueuesOf(SessionWrite) /\ crossed' = crossed
  BY DEF Typed, SessionDeliver
<1>2. CASE Serve(d)
  <2>1. /\ pending' = pending
        /\ sent[d] + 1 \in 1..Len(pending[d])
        /\ tree' = Applied(tree, pending[d][sent[d] + 1])
    BY <1>1, <1>2, ServeQueue
  <2> DEFINE k == sent[d] + 1
  <2> HIDE DEF k
  <2>2. k \in 1..Len(pending[d]) /\ tree' \subseteq tree \cup pending[d][k].put
    BY <2>1 DEF Applied, k
  <2> QED BY <1>1, <2>1, <2>2 DEF OwnInv
<1>3. CASE Ack(d)
  <2>1. /\ tree' = tree
        /\ \A i \in 1..Len(pending'[d]) :
              i + 1 \in 1..Len(pending[d]) /\ pending'[d][i] = pending[d][i + 1]
        /\ \A e \in Device \ {d} : pending'[e] = pending[e]
    BY <1>1, <1>3, AckQueue
  <2>2. \A e \in Device : \A i \in 1..Len(pending'[e]) :
           \E k \in 1..Len(pending[e]) : pending'[e][i] = pending[e][k]
    BY <2>1
  <2> QED BY <1>1, <2>1, <2>2 DEF OwnInv
<1>4. CASE Resend(d)
  BY <1>1, <1>4, ResendQueue DEF OwnInv
<1> QED BY <1>2, <1>3, <1>4 DEF SessionDeliver, Deliver

LEMMA OwnStep == Typed /\ OwnInv /\ [SessionNext]_sessionVars => OwnInv'
<1> SUFFICES ASSUME Typed, OwnInv, [SessionNext]_sessionVars PROVE OwnInv'
  OBVIOUS
<1>1. ASSUME UNCHANGED vars, crossed \subseteq crossed'
      PROVE  OwnInv'
  BY <1>1 DEF OwnInv, vars
<1>2. CASE UNCHANGED sessionVars
  BY <1>1, <1>2 DEF sessionVars, vars
<1>3. ASSUME NEW u \in User, Verify(u)
      PROVE  OwnInv'
  BY <1>1, <1>3, VerifyTyped
<1>4. ASSUME NEW d \in Device, Aside(d)
      PROVE  OwnInv'
  BY <1>1, <1>4, AsideTyped
<1> QED BY <1>2, <1>3, <1>4, SessionCases, UploadOwn, FinishOwn, DiesOwn, DeliverOwn

(* Whatever forms, uploads and answers overlap on whatever phones, a node  *)
(* says what its own user typed and shows his own picture, unless another  *)
(* account came in on the phone while that was under way.                  *)
THEOREM NodesAreOwn == SessionSpec => []NodeIsOwn
<1>1. SessionInit => OwnInv
  BY OwnInit
<1>2. Typed /\ OwnInv /\ [SessionNext]_sessionVars => OwnInv'
  BY OwnStep
<1>3. OwnInv => NodeIsOwn
  BY DEF OwnInv, NodeIsOwn, Said, Own
<1> QED BY <1>1, <1>2, <1>3, AlwaysTyped, PTL DEF SessionSpec

-----------------------------------------------------------------------------
(* Profiles.                                                               *)

Creating(d, u) == \E q \in app[d].requests : q.user = u /\ q.result = "new"
Filling(d, u) == app[d].front = "new" /\ app[d].typed = u

(* Every account whose form was neither passed over nor lost is being      *)
(* created, or has its form in front, or has a profile that is stored or   *)
(* will be; the last is so wherever he is signed in without the form.      *)
ProfileInv ==
    /\ \A u \in User \ crossed : Uncleared(Profile(u, u))
    /\ \A u \in accounts \ (skipped \cup crossed) :
          \/ Profile(u, u) \in tree
          \/ \E d \in Device : Creating(d, u) \/ Filling(d, u) \/ Due(d, Profile(u, u))
    /\ \A d \in Device : \A u \in User \ (skipped \cup crossed) :
          app[d].account = u => Filling(d, u) \/ Due(d, Profile(u, u))

LEMMA ProfileInit == SessionInit => ProfileInv
<1> SUFFICES ASSUME SessionInit PROVE ProfileInv
  OBVIOUS
<1>1. \A d \in Device : 1..Len(pending[d]) = {}
  BY EmptyQueues DEF SessionInit
<1>2. \A u \in accounts : Profile(u, u) \in tree
  BY DEF SessionInit
<1>3. \A d \in Device : app[d].account \in accounts \cup {NoUser}
  <2>1. \A c \in accounts \cup {NoUser} : Off(c).account = c
    BY DEF Off
  <2>2. \A d \in Device : \E c \in accounts \cup {NoUser} : app[d] = Off(c)
    BY DEF SessionInit
  <2> QED BY <2>1, <2>2
<1> QED BY <1>1, <1>2, <1>3, NoUserAssumption DEF ProfileInv, Uncleared, Due

(* Steps that leave the queues alone, and on one phone at most the screens *)
(* and requests change: what they must respect.                            *)
LEMMA AsideProfile ==
    ASSUME Typed, ProfileInv, UNCHANGED vars, crossed \subseteq crossed',
           skipped \cup crossed \subseteq skipped' \cup crossed',
           NEW d \in Device, \A e \in Device \ {d} : app'[e] = app[e],
           \A u \in accounts' \ (skipped' \cup crossed') :
              \/ Creating(d, u)'
              \/ Filling(d, u)'
              \/ u \in accounts /\ ~Creating(d, u) /\ ~Filling(d, u),
           \A u \in User \ (skipped' \cup crossed') : app'[d].account = u =>
              \/ app[d].account = u /\ (Filling(d, u) => Filling(d, u)')
              \/ Filling(d, u)'
              \/ Due(d, Profile(u, u))
    PROVE  ProfileInv'
<1>1. UNCHANGED <<tree, pending, sent>>
  BY DEF vars
<1>2. \A u : /\ Uncleared(Profile(u, u)) => Uncleared(Profile(u, u))'
             /\ \A e \in Device : Due(e, Profile(u, u)) => Due(e, Profile(u, u))'
  BY <1>1, DueSteady
<1>3. \A u \in User \ crossed' : Uncleared(Profile(u, u))'
  BY <1>2 DEF ProfileInv
<1>4. ASSUME NEW u \in accounts' \ (skipped' \cup crossed')
      PROVE  \/ Profile(u, u) \in tree'
             \/ \E e \in Device : Creating(e, u)' \/ Filling(e, u)' \/ Due(e, Profile(u, u))'
  <2>1. CASE Creating(d, u)' \/ Filling(d, u)'
    BY <2>1
  <2>2. CASE u \in accounts /\ ~Creating(d, u) /\ ~Filling(d, u)
    <3>1. u \in accounts \ (skipped \cup crossed)
      BY <1>4, <2>2
    <3>2. CASE Profile(u, u) \in tree
      BY <1>1, <3>2
    <3>3. CASE \E e \in Device : Creating(e, u) \/ Filling(e, u) \/ Due(e, Profile(u, u))
      <4>1. PICK e \in Device : Creating(e, u) \/ Filling(e, u) \/ Due(e, Profile(u, u))
        BY <3>3
      <4>2. CASE Due(e, Profile(u, u))
        BY <1>2, <4>2
      <4>3. CASE Creating(e, u) \/ Filling(e, u)
        <5>1. app'[e] = app[e]
          BY <2>2, <4>3
        <5>2. Creating(e, u)' \/ Filling(e, u)'
          BY <4>3, <5>1 DEF Creating, Filling
        <5> QED BY <5>2
      <4> QED BY <4>1, <4>2, <4>3
    <3> QED BY <3>1, <3>2, <3>3 DEF ProfileInv
  <2> QED BY <2>1, <2>2
<1>5. ASSUME NEW e \in Device, NEW u \in User \ (skipped' \cup crossed'), app'[e].account = u
      PROVE  Filling(e, u)' \/ Due(e, Profile(u, u))'
  <2>1. u \in User \ (skipped \cup crossed)
    BY <1>5
  <2>2. CASE e # d
    <3>1. app'[e] = app[e]
      BY <2>2
    <3>2. Filling(e, u) \/ Due(e, Profile(u, u))
      BY <1>5, <2>1, <3>1 DEF ProfileInv
    <3> QED BY <1>2, <3>1, <3>2 DEF Filling
  <2>3. CASE e = d /\ app[d].account = u /\ (Filling(d, u) => Filling(d, u)')
    <3>1. Filling(d, u) \/ Due(d, Profile(u, u))
      BY <2>1, <2>3 DEF ProfileInv
    <3> QED BY <1>2, <2>3, <3>1
  <2> QED BY <1>2, <1>5, <2>2, <2>3
<1> QED BY <1>3, <1>4, <1>5 DEF ProfileInv

LEMMA MovesProfile ==
    ASSUME Typed, ProfileInv, NEW d \in Device,
           \/ Launch(d) \/ Dismiss(d) \/ LogOut(d) \/ OpenEdit(d) \/ Back(d)
           \/ \E way \in Ways : SignIn(d, way)
           \/ \E u \in User : UploadFails(d, u)
    PROVE  ProfileInv'
<1>1. UNCHANGED <<vars, accounts, skipped, crossed>>
  BY DEF Launch, Dismiss, LogOut, OpenEdit, Back, SignIn, UploadFails
<1>2. app[d] \in AppState
  BY DEF Typed
<1>3. /\ \A e \in Device \ {d} : app'[e] = app[e]
      /\ app'[d].account \in {app[d].account, NoUser}
      /\ app[d].front = "new" => app'[d].front = "new" /\ app'[d].typed = app[d].typed
      /\ \A r \in app[d].requests : \E q \in app'[d].requests : q.user = r.user /\ q.result = r.result
  <2>1. CASE Launch(d)
    BY <1>2, <2>1 DEF Launch, Typed, AppState
  <2>2. CASE Dismiss(d)
    BY <1>2, <2>2 DEF Dismiss, Typed, AppState
  <2>3. CASE LogOut(d)
    <3>1. /\ \A e \in Device \ {d} : app'[e] = app[e]
          /\ app'[d].account = NoUser /\ app[d].front = "tabs"
          /\ app'[d].requests = Aged(app[d].requests)
      BY <1>2, <2>3 DEF LogOut, Typed, AppState
    <3>2. \A r \in app[d].requests : LET q == [r EXCEPT !.stale = TRUE]
                                     IN  q \in Aged(app[d].requests) /\ q.user = r.user /\ q.result = r.result
      BY <1>2 DEF Aged, AppState, Request
    <3> QED BY <3>1, <3>2
  <2>4. CASE OpenEdit(d)
    BY <1>2, <2>4 DEF OpenEdit, Typed, AppState
  <2>5. CASE Back(d)
    BY <1>2, <2>5 DEF Back, Typed, AppState
  <2>6. ASSUME NEW way \in Ways, SignIn(d, way)
        PROVE  <1>3
    BY <1>2, <2>6 DEF SignIn, Typed, AppState
  <2>7. ASSUME NEW u \in User, UploadFails(d, u)
        PROVE  <1>3
    BY <2>7 DEF UploadFails
  <2> QED BY <2>1, <2>2, <2>3, <2>4, <2>5, <2>6, <2>7
<1>4. \A u : (Creating(d, u) => Creating(d, u)') /\ (Filling(d, u) => Filling(d, u)')
  BY <1>3 DEF Creating, Filling
<1>5. \A u \in User : app'[d].account = u => app[d].account = u
  BY <1>3, NoUserAssumption
<1> QED BY <1>1, <1>3, <1>4, <1>5, AsideProfile

(* The server's verdict: whom it creates an account for is being told.     *)
LEMMA AuthenticateProfile ==
    ASSUME Typed, ProfileInv, NEW d \in Device, NEW r, Authenticate(d, r)
    PROVE  ProfileInv'
<1> DEFINE b == app[d]
           v == Verdict(r)
           q == [r EXCEPT !.result = v]
           a == [b EXCEPT !.requests = (b.requests \ {r}) \cup {q}]
<1>1. b \in AppState /\ r \in b.requests /\ r.result = "none" /\ r \in Request
  BY DEF Typed, Authenticate, AppState
<1>2. /\ app' = [app EXCEPT ![d] = a]
      /\ accounts' = IF v = "new" THEN accounts \cup {r.user} ELSE accounts
      /\ UNCHANGED <<vars, skipped, crossed>>
  BY DEF Authenticate
<1> HIDE DEF v
<1>3. /\ a.requests = (b.requests \ {r}) \cup {q} /\ q.user = r.user /\ q.result = v
      /\ a.account = b.account /\ a.front = b.front /\ a.typed = b.typed
  BY <1>1 DEF AppState, Request
<1> HIDE DEF a, q
<1>4. app'[d] = a /\ \A e \in Device \ {d} : app'[e] = app[e]
  BY <1>2 DEF Typed
<1>5. \A u : (Creating(d, u) => Creating(d, u)') /\ (Filling(d, u) => Filling(d, u)')
  BY <1>1, <1>3, <1>4 DEF Creating, Filling
<1>6. \A u \in accounts' : u \in accounts \/ Creating(d, u)'
  BY <1>2, <1>3, <1>4 DEF Creating
<1>7. app'[d].account = app[d].account
  BY <1>3, <1>4
<1> QED BY <1>2, <1>4, <1>5, <1>6, <1>7, AsideProfile

(* Whom the server knew, and whose form is not still to come, has a        *)
(* profile, or its form right here.                                        *)
LEMMA KnownDue ==
    ASSUME Typed, ProfileInv, NEW d \in Device, NEW r \in app[d].requests, r.result = "known",
           ~FormPending(d, r), r.user \notin skipped \cup crossed
    PROVE  Filling(d, r.user) \/ Due(d, Profile(r.user, r.user))
<1> DEFINE u == r.user
<1>1. u \in accounts \ (skipped \cup crossed) /\ u \in User
  BY DEF Typed, Sound
<1>2. \A e \in Device : /\ ~Creating(e, u)
                        /\ e # d => ~Filling(e, u) /\ Landed(e, Profile(u, u))
  <2>1. Profile(u, u) \in Profiles(u)
    BY <1>1, SaidLeaves
  <2> QED BY <2>1 DEF FormPending, Creating, Filling
<1> HIDE DEF u
<1>3. QueuesOf(SessionWrite) /\ \A w \in SessionWrite : w.put \subseteq w.drop
  BY DEF Typed, SessionWrite
<1>4. CASE Profile(u, u) \in tree
  BY <1>4 DEF Due, u
<1>5. CASE \E e \in Device : Creating(e, u) \/ Filling(e, u) \/ Due(e, Profile(u, u))
  <2>1. PICK e \in Device : Filling(e, u) \/ Due(e, Profile(u, u))
    BY <1>2, <1>5
  <2>2. CASE e = d
    BY <2>1, <2>2 DEF u
  <2>3. CASE e # d
    <3>1. Profile(u, u) \in tree
      BY <1>2, <1>3, <2>1, <2>3, DueLanded
    <3> QED BY <3>1 DEF Due, u
  <2> QED BY <2>2, <2>3
<1> QED BY <1>1, <1>4, <1>5 DEF ProfileInv

LEMMA AcceptedProfile ==
    ASSUME Typed, ProfileInv, NEW d \in Device, NEW r, Accepted(d, r)
    PROVE  ProfileInv'
<1> DEFINE b == app[d]
           t == Target(r)
           a == SignedIn(b, r, t)
           x == [b EXCEPT !.account = r.user, !.user = r.user, !.requests = b.requests \ {r},
                          !.overtaken = b.overtaken \/ r.stale]
           y == [x EXCEPT !.front = t, !.typed = IF t = "new" THEN r.user ELSE NoUser,
                          !.requests = Aged(x.requests)]
<1>1. b \in AppState /\ r \in b.requests /\ r.result \in {"new", "known"} /\ r \in Request
  BY DEF Typed, Accepted, AppState
<1>2. /\ app' = [app EXCEPT ![d] = a]
      /\ crossed' = crossed \cup Crosses(d, r.user)
      /\ skipped' = (skipped \cup LosesForm(d, r.user) \cup {u \in {r.user} : FormPending(d, r)})
                       \ crossed'
      /\ UNCHANGED <<vars, accounts>>
  BY DEF Accepted
<1>3. t = IF r.result = "new" THEN "new" ELSE "tabs"
  BY DEF Target
<1>4. a = IF MayLead(b, r) THEN y ELSE x
  BY DEF SignedIn
<1>5. /\ x.account = r.user /\ x.front = b.front /\ x.typed = b.typed
      /\ x.requests = b.requests \ {r}
  BY <1>1 DEF AppState
<1>6. \A q \in b.requests \ {r} : \E z \in Aged(b.requests \ {r}) : z.user = q.user /\ z.result = q.result
  <2>1. \A q \in b.requests \ {r} : LET z == [q EXCEPT !.stale = TRUE]
                                    IN  z \in Aged(b.requests \ {r}) /\ z.user = q.user /\ z.result = q.result
    BY <1>1 DEF Aged, AppState, Request
  <2> QED BY <2>1
<1> HIDE DEF t
<1>7. /\ y.account = r.user /\ y.front = t /\ (t = "new" => y.typed = r.user)
      /\ y.requests = Aged(b.requests \ {r})
  BY <1>1, <1>5 DEF AppState
<1> HIDE DEF x, y
<1>8. /\ a.account = r.user
      /\ \A q \in b.requests \ {r} : \E z \in a.requests : z.user = q.user /\ z.result = q.result
      /\ MayLead(b, r) => a.front = t /\ (t = "new" => a.typed = r.user)
      /\ ~MayLead(b, r) => a.front = b.front /\ a.typed = b.typed
  BY <1>4, <1>5, <1>6, <1>7
<1> HIDE DEF a
<1>9. app'[d] = a /\ \A e \in Device \ {d} : app'[e] = app[e]
  BY <1>2 DEF Typed
<1>10. skipped \cup crossed \subseteq skipped' \cup crossed' /\ crossed \subseteq crossed'
  BY <1>2
<1>11. r.result = "new" => MayLead(b, r) \/ r.user \in skipped' \cup crossed'
  BY <1>2 DEF FormPending
<1>12. \A u : Filling(d, u) => Filling(d, u)'
  BY <1>8, <1>9 DEF Filling, MayLead
<1>13. \A u : Creating(d, u) => Creating(d, u)' \/ (r.result = "new" /\ u = r.user)
  BY <1>8, <1>9 DEF Creating
<1>14. r.result = "new" => Filling(d, r.user)' \/ r.user \in skipped' \cup crossed'
  BY <1>3, <1>8, <1>9, <1>11 DEF Filling
<1>15. r.user \notin skipped' \cup crossed' => Filling(d, r.user)' \/ Due(d, Profile(r.user, r.user))
  <2>1. CASE r.result = "new"
    BY <1>14, <2>1
  <2>2. CASE r.result = "known"
    <3>1. r.user \notin skipped' \cup crossed' => ~FormPending(d, r) /\ r.user \notin skipped \cup crossed
      BY <1>2, <1>10
    <3> QED BY <1>1, <1>12, <2>2, <3>1, KnownDue
  <2> QED BY <1>1, <2>1, <2>2
<1>16. \A u \in accounts' \ (skipped' \cup crossed') :
          \/ Creating(d, u)'
          \/ Filling(d, u)'
          \/ u \in accounts /\ ~Creating(d, u) /\ ~Filling(d, u)
  BY <1>2, <1>12, <1>13, <1>14
<1>17. \A u \in User \ (skipped' \cup crossed') : app'[d].account = u =>
          \/ Filling(d, u)'
          \/ Due(d, Profile(u, u))
  BY <1>8, <1>9, <1>15
<1> QED BY <1>2, <1>9, <1>10, <1>16, <1>17, AsideProfile

(* An answer that signs nobody in.                                         *)
LEMMA RejectedProfile ==
    ASSUME Typed, ProfileInv, NEW d \in Device, NEW r, NotVerified(d, r) \/ Failed(d, r)
    PROVE  ProfileInv'
<1> DEFINE b == app[d]
<1>1. b \in AppState /\ r \in b.requests
  BY DEF Typed, NotVerified, Failed
<1>2. /\ app'[d].requests = b.requests \ {r}
      /\ app'[d].account \in {b.account, NoUser}
      /\ app'[d].front = b.front /\ app'[d].typed = b.typed
      /\ \A e \in Device \ {d} : app'[e] = app[e]
  <2>1. CASE NotVerified(d, r)
    BY <1>1, <2>1 DEF NotVerified, Typed, AppState
  <2>2. CASE Failed(d, r)
    BY <1>1, <2>2 DEF Failed, Typed, AppState
  <2> QED BY <2>1, <2>2
<1>3. /\ UNCHANGED <<vars, accounts>> /\ crossed \subseteq crossed'
      /\ skipped \cup crossed \subseteq skipped' \cup crossed'
      /\ r.result = "new" => r.user \in skipped' \cup crossed'
  <2>1. CASE NotVerified(d, r)
    BY <2>1 DEF NotVerified
  <2>2. CASE Failed(d, r)
    BY <2>2 DEF Failed
  <2> QED BY <2>1, <2>2
<1>4. \A u : /\ Creating(d, u) => Creating(d, u)' \/ u \in skipped' \cup crossed'
             /\ Filling(d, u) => Filling(d, u)'
  BY <1>2, <1>3 DEF Creating, Filling
<1>5. \A u \in User : app'[d].account = u => app[d].account = u
  BY <1>2, NoUserAssumption
<1> QED BY <1>2, <1>3, <1>4, <1>5, AsideProfile

(* Whose form to finish the sign-up is taken over by another account has   *)
(* lost it.                                                                *)
LostForms ==
    \A d \in Device : app[d].front = "new" /\ app[d].typed # app[d].user =>
        app[d].typed \in skipped \cup crossed

LEMMA LostStep == Typed /\ LostForms /\ [SessionNext]_sessionVars => LostForms'
<1> SUFFICES ASSUME Typed, LostForms, [SessionNext]_sessionVars PROVE LostForms'
  OBVIOUS
<1>1. \A d \in Device : app[d].front = "new" => app[d].typed \in User
  BY DEF Typed, Sound
<1>2. ASSUME skipped \cup crossed \subseteq skipped' \cup crossed',
             NEW d \in Device, \A e \in Device \ {d} : app'[e] = app[e],
             \/ app'[d].front # "new" \/ app'[d].typed = app'[d].user
             \/ /\ app'[d].front = app[d].front /\ app'[d].typed = app[d].typed
                /\ app'[d].user = app[d].user \/ app[d].typed \in skipped' \cup crossed'
      PROVE  LostForms'
  BY <1>2 DEF LostForms
<1>3. ASSUME UNCHANGED <<app, skipped, crossed>> PROVE LostForms'
  BY <1>3 DEF LostForms
<1>4. ASSUME NEW d \in Device, UNCHANGED <<skipped, crossed>>,
             Launch(d) \/ Dismiss(d) \/ LogOut(d) \/ OpenEdit(d) \/ Back(d)
               \/ \E way \in Ways : SignIn(d, way)
      PROVE  LostForms'
  <2>1. app[d] \in AppState /\ app \in [Device -> AppState]
    BY DEF Typed
  <2>2. /\ \A e \in Device \ {d} : app'[e] = app[e]
        /\ \/ app'[d].front # "new"
           \/ /\ app'[d].front = app[d].front /\ app'[d].typed = app[d].typed
              /\ app'[d].user = app[d].user
    <3>1. CASE Launch(d) \/ LogOut(d)
      BY <2>1, <3>1 DEF Launch, LogOut, AppState
    <3>2. CASE OpenEdit(d) \/ Back(d)
      BY <2>1, <3>2 DEF OpenEdit, Back, AppState
    <3>3. CASE Dismiss(d)
      BY <2>1, <3>3 DEF Dismiss, AppState
    <3>4. CASE \E way \in Ways : SignIn(d, way)
      BY <2>1, <3>4 DEF SignIn, AppState
    <3> QED BY <1>4, <3>1, <3>2, <3>3, <3>4
  <2> QED BY <1>2, <1>4, <2>2
<1>5. ASSUME NEW d \in Device, NEW r, Accepted(d, r) PROVE LostForms'
  <2> DEFINE b == app[d]
             t == Target(r)
             a == SignedIn(b, r, t)
             x == [b EXCEPT !.account = r.user, !.user = r.user, !.requests = b.requests \ {r},
                            !.overtaken = b.overtaken \/ r.stale]
             y == [x EXCEPT !.front = t, !.typed = IF t = "new" THEN r.user ELSE NoUser,
                            !.requests = Aged(x.requests)]
  <2>1. b \in AppState
    BY DEF Typed
  <2>2. /\ app' = [app EXCEPT ![d] = a]
        /\ crossed' = crossed \cup Crosses(d, r.user)
        /\ skipped' = (skipped \cup LosesForm(d, r.user) \cup {u \in {r.user} : FormPending(d, r)})
                         \ crossed'
    BY <1>5 DEF Accepted
  <2>3. a = IF MayLead(b, r) THEN y ELSE x
    BY DEF SignedIn
  <2> HIDE DEF t
  <2>4. /\ x.user = r.user /\ x.front = b.front /\ x.typed = b.typed
        /\ y.user = r.user /\ y.front = t /\ (t = "new" => y.typed = r.user)
    BY <2>1 DEF AppState
  <2> HIDE DEF x, y
  <2>5. app'[d] = a /\ \A e \in Device \ {d} : app'[e] = app[e]
    BY <2>2 DEF Typed
  <2>6. b.front = "new" /\ b.typed # r.user => b.typed \in skipped' \cup crossed'
    <3> HIDE DEF a
    <3> QED BY <1>1, <2>2 DEF LosesForm
  <2>7. skipped \cup crossed \subseteq skipped' \cup crossed'
    BY <2>2
  <2> HIDE DEF a, b
  <2>8. CASE a = y
    BY <1>2, <2>4, <2>5, <2>7, <2>8
  <2>9. CASE a = x
    <3>1. \/ app'[d].front # "new" \/ app'[d].typed = app'[d].user
          \/ app[d].typed \in skipped' \cup crossed'
      BY <2>4, <2>5, <2>6, <2>9 DEF b
    <3> QED BY <1>2, <2>4, <2>5, <2>7, <2>9, <3>1 DEF b
  <2> QED BY <2>3, <2>8, <2>9
<1>6. ASSUME NEW d \in Device, NEW r, NotVerified(d, r) PROVE LostForms'
  <2>1. app[d] \in AppState
    BY DEF Typed
  <2>2. /\ \A e \in Device \ {d} : app'[e] = app[e]
        /\ app'[d].front = app[d].front /\ app'[d].typed = app[d].typed /\ app'[d].user = r.user
    BY <1>6, <2>1 DEF NotVerified, Typed, AppState
  <2>3. /\ skipped' = (skipped \cup LosesForm(d, r.user)) \ crossed'
        /\ crossed' = crossed \cup Crosses(d, r.user)
    BY <1>6 DEF NotVerified
  <2>4. app[d].front = "new" /\ app[d].typed # r.user => app[d].typed \in skipped' \cup crossed'
    BY <1>1, <2>3 DEF LosesForm
  <2> QED BY <1>2, <2>2, <2>3, <2>4
<1>7. ASSUME NEW d \in Device, NEW r, Failed(d, r) \/ Authenticate(d, r) PROVE LostForms'
  <2>1. app[d] \in AppState
    BY DEF Typed
  <2>2. /\ \A e \in Device \ {d} : app'[e] = app[e]
        /\ app'[d].front = app[d].front /\ app'[d].typed = app[d].typed /\ app'[d].user = app[d].user
    <3>1. CASE Failed(d, r)
      BY <2>1, <3>1 DEF Failed, Typed, AppState
    <3>2. CASE Authenticate(d, r)
      BY <2>1, <3>2 DEF Authenticate, Typed, AppState
    <3> QED BY <1>7, <3>1, <3>2
  <2>3. skipped \cup crossed \subseteq skipped' \cup crossed'
    BY <1>7 DEF Failed, Authenticate
  <2> QED BY <1>2, <2>2, <2>3
<1>8. ASSUME NEW d \in Device, FinishSignUp(d) PROVE LostForms'
  <2>1. PICK f \in {"tabs", "doomed"} :
           app' = [app EXCEPT ![d] = [app[d] EXCEPT !.front = f, !.typed = NoUser]]
    BY <1>8, FinishTarget
  <2>2. app[d] \in AppState
    BY DEF Typed
  <2>3. app'[d].front # "new" /\ \A e \in Device \ {d} : app'[e] = app[e]
    BY <2>1, <2>2 DEF Typed, AppState
  <2> QED BY <1>2, <1>8, <2>3 DEF FinishSignUp
<1>9. ASSUME NEW d \in Device, Dies(d), UNCHANGED crossed PROVE LostForms'
  <2>1. app'[d].front # "new" /\ \A e \in Device \ {d} : app'[e] = app[e]
    BY <1>9 DEF Dies, Off, Typed
  <2> QED BY <1>2, <1>9, <2>1 DEF Dies
<1>10. ASSUME NEW d \in Device, Aside(d) PROVE LostForms'
  <2>1. CASE Launch(d) \/ Dismiss(d) \/ LogOut(d) \/ OpenEdit(d) \/ Back(d)
               \/ \E way \in Ways : SignIn(d, way)
    BY <1>4, <2>1 DEF Launch, Dismiss, LogOut, OpenEdit, Back, SignIn
  <2>2. CASE \E u \in User : UploadFails(d, u)
    BY <1>3, <2>2 DEF UploadFails
  <2> QED BY <1>5, <1>6, <1>7, <1>10, <2>1, <2>2 DEF Aside
<1>11. CASE UNCHANGED sessionVars
  BY <1>3, <1>11 DEF sessionVars
<1>12. ASSUME NEW d \in Device, SessionDeliver(d) \/ \E u \in User : UploadSucceeds(d, u)
       PROVE  LostForms'
  BY <1>3, <1>12 DEF SessionDeliver, UploadSucceeds
<1>13. ASSUME NEW u \in User, Verify(u) PROVE LostForms'
  BY <1>3, <1>13 DEF Verify
<1> QED BY <1>8, <1>9, <1>10, <1>11, <1>12, <1>13, SessionCases

(* finishSignUp: the form that goes leaves its user's profile on the way.  *)
LEMMA FinishProfile ==
    ASSUME Typed, LostForms, ProfileInv, NEW d \in Device, FinishSignUp(d)
    PROVE  ProfileInv'
<1> DEFINE w == app[d].user
           v == app[d].typed
           ws == <<Overwrite(UserSubtree(w), {Profile(w, v)})>>
<1>1. /\ w \in User /\ v \in User /\ (w = v \/ w \in crossed)
      /\ app[d].account \in {NoUser, w} /\ Submit(d, ws)
      /\ UNCHANGED <<skipped, accounts, crossed>>
  BY FinishStep
<1> PICK f \in {"tabs", "doomed"} :
       app' = [app EXCEPT ![d] = [app[d] EXCEPT !.front = f, !.typed = NoUser]]
  BY FinishTarget
<1> DEFINE a == [app[d] EXCEPT !.front = f, !.typed = NoUser]
<1>2. /\ ws \in Seq(SessionWrite) /\ Len(ws) = 1
      /\ ws[1].drop = UserSubtree(w) /\ ws[1].put = {Profile(w, v)}
  BY <1>1, FormWrites
<1>3. app[d] \in AppState /\ QueuesOf(SessionWrite)
  BY DEF Typed
<1>4. a.account = app[d].account /\ a.front = f /\ a.requests = app[d].requests
  BY <1>1, <1>3 DEF AppState
<1>5. 1 \in 1..Len(ws) /\ \A k \in 1..Len(ws) : k = 1
  BY <1>2
<1>6. app'[d] = a /\ \A e \in Device \ {d} : app'[e] = app[e]
  BY DEF Typed
<1> HIDE DEF ws, a
<1>7. ASSUME NEW u \in User \ crossed
      PROVE  /\ Uncleared(Profile(u, u))'
             /\ \A e \in Device : Due(e, Profile(u, u)) => Due(e, Profile(u, u))'
             /\ u = w => Due(d, Profile(u, u))'
  <2>1. Uncleared(Profile(u, u))
    BY DEF ProfileInv
  <2>2. u = w => u = v
    BY <1>1
  <2>3. \A k \in 1..Len(ws) : Profile(u, u) \in ws[k].drop => Profile(u, u) \in ws[k].put
    BY <1>1, <1>2, <1>5, <2>2, SubtreesApart
  <2>4. u = w => \E k \in 1..Len(ws) : Profile(u, u) \in ws[k].put
    BY <1>2, <1>5, <2>2
  <2> QED BY <1>1, <1>2, <1>3, <2>1, <2>3, <2>4, DueSubmit
<1>8. ASSUME NEW u \in accounts \ (skipped \cup crossed)
      PROVE  \/ Profile(u, u) \in tree'
             \/ \E e \in Device : Creating(e, u)' \/ Filling(e, u)' \/ Due(e, Profile(u, u))'
  <2>1. u \in User \ crossed /\ tree' = tree
    BY <1>1 DEF Typed, Submit
  <2>2. CASE Profile(u, u) \in tree
    BY <2>1, <2>2
  <2>3. CASE \E e \in Device : Creating(e, u) \/ Filling(e, u) \/ Due(e, Profile(u, u))
    <3>1. PICK e \in Device : Creating(e, u) \/ Filling(e, u) \/ Due(e, Profile(u, u))
      BY <2>3
    <3>2. CASE Due(e, Profile(u, u))
      BY <1>7, <2>1, <3>2
    <3>3. CASE Creating(e, u)
      BY <1>4, <1>6, <3>3 DEF Creating
    <3>4. CASE Filling(e, u) /\ e # d
      BY <1>6, <3>4 DEF Filling
    <3>5. CASE Filling(e, u) /\ e = d
      <4>1. u = w
        BY <3>5 DEF Filling, LostForms
      <4> QED BY <1>7, <2>1, <4>1
    <3> QED BY <3>1, <3>2, <3>3, <3>4, <3>5
  <2> QED BY <2>2, <2>3 DEF ProfileInv
<1>9. ASSUME NEW e \in Device, NEW u \in User \ (skipped \cup crossed), app'[e].account = u
      PROVE  Filling(e, u)' \/ Due(e, Profile(u, u))'
  <2>1. CASE e = d
    <3>1. u = w
      BY <1>1, <1>4, <1>6, <1>9, <2>1, NoUserAssumption
    <3> QED BY <1>7, <2>1, <3>1
  <2>2. CASE e # d
    <3>1. Filling(e, u) \/ Due(e, Profile(u, u))
      BY <1>6, <1>9, <2>2 DEF ProfileInv
    <3> QED BY <1>6, <1>7, <2>2, <3>1 DEF Filling
  <2> QED BY <2>1, <2>2
<1> QED BY <1>1, <1>7, <1>8, <1>9 DEF ProfileInv

(* Steps of the connection and of uploads leave every profile to come.     *)
LEMMA SteadyProfile ==
    ASSUME Typed, ProfileInv, UNCHANGED <<accounts, app, skipped, crossed>>,
           \A u \in User \ crossed :
              /\ Uncleared(Profile(u, u))'
              /\ \A e \in Device : Due(e, Profile(u, u)) => Due(e, Profile(u, u))'
              /\ Profile(u, u) \in tree => Profile(u, u) \in tree'
    PROVE  ProfileInv'
BY DEF ProfileInv, Creating, Filling, Typed

LEMMA UploadProfile ==
    ASSUME Typed, ProfileInv, NEW d \in Device, NEW v \in User, UploadSucceeds(d, v)
    PROVE  ProfileInv'
<1> DEFINE w == app[d].user
           ws == <<Overwrite(Photos(w), {PhotoUrl(w, v)})>>
<1>1. w \in User
  BY UploadEnds DEF UploadSucceeds
<1>2. /\ ws \in Seq(SessionWrite) /\ Len(ws) = 1 /\ ws[1].drop = Photos(w)
  BY <1>1, PhotoWrites
<1>3. Submit(d, ws) /\ UNCHANGED <<accounts, app, skipped, crossed>> /\ tree' = tree
  BY DEF UploadSucceeds, Submit
<1> HIDE DEF ws
<1>4. ASSUME NEW u \in User \ crossed
      PROVE  /\ Uncleared(Profile(u, u))'
             /\ \A e \in Device : Due(e, Profile(u, u)) => Due(e, Profile(u, u))'
  <2>1. \A k \in 1..Len(ws) : Profile(u, u) \notin ws[k].drop
    BY <1>1, <1>2, SubtreesApart
  <2>2. Uncleared(Profile(u, u)) /\ QueuesOf(SessionWrite)
    BY DEF ProfileInv, Typed
  <2> QED BY <1>2, <1>3, <2>1, <2>2, DueSubmit
<1> QED BY <1>3, <1>4, SteadyProfile

LEMMA DeliverProfile ==
    ASSUME Typed, ProfileInv, NEW d \in Device, SessionDeliver(d)
    PROVE  ProfileInv'
<1>1. /\ QueuesOf(SessionWrite) /\ (Serve(d) \/ Ack(d) \/ Resend(d))
      /\ UNCHANGED <<accounts, app, skipped, crossed>>
  BY DEF Typed, SessionDeliver, Deliver
<1>2. ASSUME NEW u \in User \ crossed
      PROVE  /\ Uncleared(Profile(u, u))'
             /\ \A e \in Device : Due(e, Profile(u, u)) => Due(e, Profile(u, u))'
             /\ Profile(u, u) \in tree => Profile(u, u) \in tree'
  <2>1. Uncleared(Profile(u, u))
    BY DEF ProfileInv
  <2>2. CASE Serve(d)
    <3>1. /\ sent[d] + 1 \in 1..Len(pending[d])
          /\ tree' = Applied(tree, pending[d][sent[d] + 1])
      BY <1>1, <2>2, ServeQueue
    <3>2. Profile(u, u) \in tree => Profile(u, u) \in tree'
      BY <2>1, <3>1 DEF Uncleared, Applied
    <3> QED BY <1>1, <2>1, <3>2, DueDelivered
  <2>3. CASE Ack(d) \/ Resend(d)
    <3>1. tree' = tree
      BY <2>3 DEF Ack, Resend
    <3> QED BY <1>1, <2>1, <3>1, DueDelivered
  <2> QED BY <1>1, <2>2, <2>3
<1> QED BY <1>1, <1>2, SteadyProfile

(* A death skips the accounts whose form or creation was in its memory.    *)
LEMMA DiesProfile ==
    ASSUME Typed, ProfileInv, NEW d \in Device, Dies(d), UNCHANGED <<accounts, crossed>>
    PROVE  ProfileInv'
<1>1. /\ Forget(d) /\ app' = [app EXCEPT ![d] = Off(app[d].account)]
      /\ skipped \subseteq skipped'
      /\ \A u \in User \ crossed :
            (\/ Filling(d, u)
             \/ \E p \in Profiles(u) : ~Landed(d, p)
             \/ Creating(d, u)) => u \in skipped'
  BY DEF Dies, Kill, Filling, Creating
<1>2. QueuesOf(SessionWrite) /\ \A w \in SessionWrite : w.put \subseteq w.drop
  BY DEF Typed, SessionWrite
<1>3. /\ app'[d] = Off(app[d].account) /\ \A e \in Device \ {d} : app'[e] = app[e]
  BY <1>1 DEF Typed
<1>4. Off(app[d].account).account = app[d].account
  BY DEF Off
<1>5. ASSUME NEW u \in User \ crossed
      PROVE  /\ Uncleared(Profile(u, u))' /\ tree' = tree
             /\ \A e \in Device \ {d} : Due(e, Profile(u, u)) => Due(e, Profile(u, u))'
  <2>1. Uncleared(Profile(u, u))
    BY DEF ProfileInv
  <2> QED BY <1>1, <1>2, <2>1, DueForget
<1>6. ASSUME NEW u \in User \ (skipped' \cup crossed)
      PROVE  /\ u \notin skipped /\ ~Filling(d, u) /\ ~Creating(d, u)
             /\ Due(d, Profile(u, u)) => Profile(u, u) \in tree'
  <2>1. u \notin skipped /\ ~Filling(d, u) /\ ~Creating(d, u) /\ \A p \in Profiles(u) : Landed(d, p)
    BY <1>1
  <2>2. Landed(d, Profile(u, u))
    BY <2>1, SaidLeaves
  <2>3. Due(d, Profile(u, u)) => Profile(u, u) \in tree
    BY <1>2, <2>2, DueLanded
  <2> QED BY <1>5, <2>1, <2>3
<1>7. ASSUME NEW u \in accounts \ (skipped' \cup crossed)
      PROVE  \/ Profile(u, u) \in tree'
             \/ \E e \in Device : Creating(e, u)' \/ Filling(e, u)' \/ Due(e, Profile(u, u))'
  <2>1. u \in User \ (skipped' \cup crossed) /\ u \in accounts \ (skipped \cup crossed)
    BY <1>1 DEF Typed
  <2>2. CASE Profile(u, u) \in tree
    BY <1>5, <2>1, <2>2
  <2>3. CASE \E e \in Device : Creating(e, u) \/ Filling(e, u) \/ Due(e, Profile(u, u))
    <3>1. PICK e \in Device : Creating(e, u) \/ Filling(e, u) \/ Due(e, Profile(u, u))
      BY <2>3
    <3>2. CASE e = d
      BY <1>6, <2>1, <3>1, <3>2
    <3>3. CASE e # d
      BY <1>3, <1>5, <2>1, <3>1, <3>3 DEF Creating, Filling
    <3> QED BY <3>2, <3>3
  <2> QED BY <2>1, <2>2, <2>3 DEF ProfileInv
<1>8. ASSUME NEW e \in Device, NEW u \in User \ (skipped' \cup crossed), app'[e].account = u
      PROVE  Filling(e, u)' \/ Due(e, Profile(u, u))'
  <2>1. u \in User \ (skipped \cup crossed)
    BY <1>6
  <2>2. CASE e = d
    <3>1. Filling(d, u) \/ Due(d, Profile(u, u))
      BY <1>3, <1>4, <1>8, <2>1, <2>2 DEF ProfileInv
    <3>2. Profile(u, u) \in tree'
      BY <1>6, <3>1
    <3> QED BY <3>2 DEF Due
  <2>3. CASE e # d
    <3>1. Filling(e, u) \/ Due(e, Profile(u, u))
      BY <1>3, <1>8, <2>1, <2>3 DEF ProfileInv
    <3> QED BY <1>3, <1>5, <2>1, <2>3, <3>1 DEF Filling
  <2> QED BY <2>2, <2>3
<1>9. \A u \in User \ crossed' : Uncleared(Profile(u, u))'
  BY <1>5
<1> QED BY <1>7, <1>8, <1>9 DEF ProfileInv

LEMMA ProfileStep == Typed /\ LostForms /\ ProfileInv /\ [SessionNext]_sessionVars => ProfileInv'
<1> SUFFICES ASSUME Typed, LostForms, ProfileInv, [SessionNext]_sessionVars PROVE ProfileInv'
  OBVIOUS
<1>1. ASSUME UNCHANGED <<tree, pending, sent, accounts, app, skipped, crossed>>
      PROVE  ProfileInv'
  <2>1. \A u : /\ Uncleared(Profile(u, u)) => Uncleared(Profile(u, u))'
               /\ \A e \in Device : Due(e, Profile(u, u)) => Due(e, Profile(u, u))'
    BY <1>1, DueSteady
  <2>2. \A u \in User \ crossed : Uncleared(Profile(u, u))
    BY DEF ProfileInv
  <2> QED BY <1>1, <2>1, <2>2, SteadyProfile
<1>2. CASE UNCHANGED sessionVars
  BY <1>1, <1>2 DEF sessionVars
<1>3. ASSUME NEW u \in User, Verify(u)
      PROVE  ProfileInv'
  BY <1>1, <1>3 DEF Verify, vars
<1>4. ASSUME NEW d \in Device, Aside(d)
      PROVE  ProfileInv'
  BY <1>4, MovesProfile, AuthenticateProfile, AcceptedProfile, RejectedProfile DEF Aside
<1> QED BY <1>2, <1>3, <1>4, SessionCases, UploadProfile, FinishProfile, DiesProfile, DeliverProfile

LEMMA ProfileImplies == Typed /\ ProfileInv => ProfileBeforeTabs
<1> SUFFICES ASSUME Typed, ProfileInv, NEW d \in Device, app[d].front = "tabs",
                    app[d].account \notin skipped \cup crossed \cup {NoUser}
             PROVE  \E v \in User : Sees(d, Profile(app[d].account, v))
  BY DEF ProfileBeforeTabs
<1> DEFINE u == app[d].account
<1>1. u \in User \ (skipped \cup crossed)
  BY DEF Typed, Sound
<1>2. Uncleared(Profile(u, u)) /\ Due(d, Profile(u, u))
  BY <1>1 DEF ProfileInv, Filling
<1>3. QueuesOf(SessionWrite) /\ \A w \in SessionWrite : w.put \subseteq w.drop
  BY DEF Typed, SessionWrite
<1> HIDE DEF u
<1>4. Sees(d, Profile(u, u))
  BY <1>2, <1>3, DueSeen
<1> QED BY <1>1, <1>4 DEF u

(* Whoever reaches the tabs has a profile there, on however many phones    *)
(* he signs in and out, unless his form was passed over or lost.           *)
THEOREM ProfilesComeFirst == SessionSpec => []ProfileBeforeTabs
<1>1. SessionInit => ProfileInv /\ LostForms
  <2>1. SessionInit => app \in [Device -> {Off(a) : a \in accounts \cup {NoUser}}]
    BY DEF SessionInit
  <2>2. \A a : Off(a).front = "off"
    BY DEF Off
  <2>3. SessionInit => \A d \in Device : app[d].front = "off"
    BY <2>1, <2>2
  <2> QED BY <2>3, ProfileInit DEF LostForms
<1>2. Typed /\ LostForms /\ ProfileInv /\ [SessionNext]_sessionVars => LostForms' /\ ProfileInv'
  BY LostStep, ProfileStep
<1>3. Typed /\ ProfileInv => ProfileBeforeTabs
  BY ProfileImplies
<1> QED BY <1>1, <1>2, <1>3, AlwaysTyped, PTL DEF SessionSpec

-----------------------------------------------------------------------------
(* Pictures.                                                               *)

(* The only phone of its users.                                            *)
OnePhone == \A d \in Device : \A e \in Device : d = e

(* A user whose latest picture was uploaded and who uploads no other has   *)
(* it for good.                                                            *)
PictureInv ==
    \A u \in User \ crossed :
        u \in stored /\ (\A d \in Device : uploads[d][u] = 0) => Kept(PhotoUrl(u, u))

(* The form clears its user's picture; it starts another upload, or the    *)
(* picture is not stored for him any more.                                 *)
LEMMA FinishPicture ==
    ASSUME Typed, PictureInv, NEW d \in Device, FinishSignUp(d)
    PROVE  PictureInv'
<1> DEFINE w == app[d].user
           ws == <<Overwrite(UserSubtree(w), {Profile(w, app[d].typed)})>>
<1>1. /\ w \in User /\ app[d].typed \in User /\ Submit(d, ws)
      /\ stored' \subseteq stored /\ UNCHANGED crossed
  BY FinishStep
<1> PICK n \in [User -> Nat] :
       /\ uploads' = [uploads EXCEPT ![d] = n]
       /\ \A x \in User \ {w} : n[x] = uploads[d][x]
       /\ n[w] # 0 \/ w \notin stored'
  BY FinishTarget
<1>2. ws \in Seq(SessionWrite) /\ Len(ws) = 1 /\ ws[1].drop = UserSubtree(w)
  BY <1>1, FormWrites
<1>3. QueuesOf(SessionWrite)
  BY DEF Typed
<1> HIDE DEF ws, w
<1>4. /\ uploads'[d] = n /\ \A e \in Device \ {d} : uploads'[e] = uploads[e]
  BY DEF Typed
<1> SUFFICES ASSUME NEW u \in User \ crossed, u \in stored', \A e \in Device : uploads'[e][u] = 0
             PROVE  Kept(PhotoUrl(u, u))'
  BY <1>1 DEF PictureInv
<1>5. u # w
  BY <1>4
<1>6. Kept(PhotoUrl(u, u))
  <2>1. \A e \in Device : uploads[e][u] = 0
    BY <1>4, <1>5
  <2> QED BY <1>1, <2>1 DEF PictureInv
<1>7. \A k \in 1..Len(ws) : PhotoUrl(u, u) \notin ws[k].drop
  BY <1>1, <1>2, <1>5, SubtreesApart
<1> QED BY <1>1, <1>2, <1>3, <1>6, <1>7, KeptSubmit

(* The upload for v succeeds: his picture comes after all that cleared it, *)
(* as long as no other phone writes there.                                 *)
LEMMA UploadPicture ==
    ASSUME OnePhone, Typed, PictureInv, NEW d \in Device, NEW v \in User, UploadSucceeds(d, v)
    PROVE  PictureInv'
<1> DEFINE w == app[d].user
           ws == <<Overwrite(Photos(w), {PhotoUrl(w, v)})>>
<1>1. w \in User /\ (w = v \/ w \in crossed)
  BY UploadEnds DEF UploadSucceeds
<1>2. /\ ws \in Seq(SessionWrite) /\ Len(ws) = 1
      /\ ws[1].drop = Photos(w) /\ ws[1].put = {PhotoUrl(w, v)}
  BY <1>1, PhotoWrites
<1>3. /\ Submit(d, ws) /\ crossed' = crossed
      /\ stored' = IF w = v THEN stored \cup {v} ELSE stored \ {v}
      /\ uploads' = [uploads EXCEPT ![d][v] = @ - 1]
  BY DEF UploadSucceeds
<1>4. QueuesOf(SessionWrite)
  BY DEF Typed
<1>5. 1 \in 1..Len(ws) /\ \A k \in 1..Len(ws) : k = 1 /\ k \in k..Len(ws)
  BY <1>2
<1> HIDE DEF ws, w
<1> SUFFICES ASSUME NEW u \in User \ crossed, u \in stored', \A e \in Device : uploads'[e][u] = 0
             PROVE  Kept(PhotoUrl(u, u))'
  BY <1>3 DEF PictureInv
<1>6. CASE u = v
  <2>1. w = u
    BY <1>3, <1>6
  <2>2. \E k \in 1..Len(ws) : PhotoUrl(u, u) \in ws[k].put
    BY <1>2, <1>5, <1>6, <2>1
  <2>3. \A k \in 1..Len(ws) : PhotoUrl(u, u) \in ws[k].drop => \E j \in k..Len(ws) : PhotoUrl(u, u) \in ws[j].put
    BY <1>2, <1>5, <1>6, <2>1
  <2>4. \A e \in Device \ {d} : Refilled(e, PhotoUrl(u, u))
    BY DEF OnePhone
  <2> QED BY <1>2, <1>3, <1>4, <2>2, <2>3, <2>4, KeptPut
<1>7. CASE u # v
  <2>1. \A e \in Device : uploads[e][u] = 0
    BY <1>3, <1>7 DEF Typed
  <2>2. Kept(PhotoUrl(u, u))
    BY <1>3, <1>7, <2>1 DEF PictureInv
  <2>3. u # w
    BY <1>1, <1>7
  <2>4. \A k \in 1..Len(ws) : PhotoUrl(u, u) \notin ws[k].drop
    BY <1>1, <1>2, <1>5, <2>3, SubtreesApart
  <2> QED BY <1>2, <1>3, <1>4, <2>2, <2>4, KeptSubmit
<1> QED BY <1>6, <1>7

LEMMA DiesPicture ==
    ASSUME OnePhone, Typed, PictureInv, NEW d \in Device, Dies(d), UNCHANGED crossed
    PROVE  PictureInv'
<1>1. /\ Forget(d)
      /\ stored' = {u \in stored : uploads[d][u] = 0 /\ \A p \in Photos(u) : Landed(d, p)}
  BY DEF Dies, Kill
<1>2. QueuesOf(SessionWrite) /\ \A w \in SessionWrite : w.put \subseteq w.drop
  BY DEF Typed, SessionWrite
<1> SUFFICES ASSUME NEW u \in User \ crossed, u \in stored'
             PROVE  Kept(PhotoUrl(u, u))'
  BY DEF PictureInv
<1>3. u \in stored /\ (\A e \in Device : uploads[e][u] = 0) /\ Landed(d, PhotoUrl(u, u))
  BY <1>1, SaidLeaves DEF OnePhone
<1>4. Kept(PhotoUrl(u, u))
  BY <1>3 DEF PictureInv
<1> QED BY <1>1, <1>2, <1>3, <1>4, KeptForget

LEMMA PictureStep ==
    ASSUME OnePhone
    PROVE  Typed /\ PictureInv /\ [SessionNext]_sessionVars => PictureInv'
<1> SUFFICES ASSUME Typed, PictureInv, [SessionNext]_sessionVars PROVE PictureInv'
  OBVIOUS
<1>1. ASSUME UNCHANGED <<tree, pending, sent, uploads, stored>>, crossed \subseteq crossed'
      PROVE  PictureInv'
  BY <1>1, KeptSteady DEF PictureInv
<1>2. CASE UNCHANGED sessionVars
  BY <1>1, <1>2 DEF sessionVars
<1>3. ASSUME NEW u \in User, Verify(u)
      PROVE  PictureInv'
  BY <1>1, <1>3 DEF Verify, vars
<1>4. ASSUME NEW d \in Device, NEW v \in User, UploadFails(d, v)
      PROVE  PictureInv'
  <2>1. /\ UNCHANGED <<tree, pending, sent, crossed>> /\ stored' = stored \ {v}
        /\ uploads' = [uploads EXCEPT ![d][v] = @ - 1]
    BY <1>4 DEF UploadFails, vars
  <2>2. \A u \in User \ {v} : \A e \in Device : uploads'[e][u] = uploads[e][u]
    BY <2>1 DEF Typed
  <2>3. \A u : Kept(PhotoUrl(u, u)) => Kept(PhotoUrl(u, u))'
    BY <2>1, KeptSteady
  <2> QED BY <2>1, <2>2, <2>3 DEF PictureInv
<1>5. ASSUME NEW d \in Device, Aside(d)
      PROVE  PictureInv'
  <2>1. CASE \E v \in User : UploadFails(d, v)
    BY <1>4, <2>1
  <2>2. CASE ~\E v \in User : UploadFails(d, v)
    <3>1. UNCHANGED vars /\ crossed \subseteq crossed'
      BY <1>5, AsideTyped
    <3>2. UNCHANGED <<uploads, stored>>
      BY <1>5, <2>2 DEF Aside, Launch, Dismiss, LogOut, OpenEdit, Back, SignIn,
                        Authenticate, Accepted, NotVerified, Failed
    <3> QED BY <1>1, <3>1, <3>2 DEF vars
  <2> QED BY <2>1, <2>2
<1>6. ASSUME NEW d \in Device, SessionDeliver(d)
      PROVE  PictureInv'
  <2>1. QueuesOf(SessionWrite) /\ (Serve(d) \/ Ack(d) \/ Resend(d)) /\ UNCHANGED <<uploads, stored, crossed>>
    BY <1>6 DEF Typed, SessionDeliver, Deliver
  <2> QED BY <2>1, KeptServe, KeptAck, KeptResend DEF PictureInv
<1> QED BY <1>2, <1>3, <1>5, <1>6, SessionCases, UploadPicture, FinishPicture, DiesPicture

LEMMA PictureImplies == Typed /\ PictureInv => PhotoListed
<1> SUFFICES ASSUME Typed, PictureInv, NEW u \in User \ crossed, u \in stored,
                    \A d \in Device : uploads[d][u] = 0 /\ \A p \in Photos(u) : Landed(d, p)
             PROVE  PhotoUrl(u, u) \in tree
  BY DEF PhotoListed
<1>1. Kept(PhotoUrl(u, u)) /\ \A d \in Device : Landed(d, PhotoUrl(u, u))
  BY SaidLeaves DEF PictureInv
<1>2. QueuesOf(SessionWrite) /\ \A w \in SessionWrite : w.put \subseteq w.drop
  BY DEF Typed, SessionWrite
<1> QED BY <1>1, <1>2, KeptLanded

(* On the only phone of its users, a stored picture is listed, however     *)
(* many of them share it and however their submissions, uploads, deaths    *)
(* and reconnections overlap.  (With a second phone it need not be: one    *)
(* form clears the picture the other has uploaded, and if its own upload   *)
(* fails before that of the first succeeds none of them comes back.)       *)
THEOREM PicturesAreListed ==
    ASSUME OnePhone
    PROVE  SessionSpec => []PhotoListed
<1>1. SessionInit => PictureInv
  BY DEF SessionInit, PictureInv
<1>2. Typed /\ PictureInv /\ [SessionNext]_sessionVars => PictureInv'
  BY PictureStep
<1>3. Typed /\ PictureInv => PhotoListed
  BY PictureImplies
<1> QED BY <1>1, <1>2, <1>3, AlwaysTyped, PTL DEF SessionSpec
=============================================================================
