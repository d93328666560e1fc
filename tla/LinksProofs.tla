----------------------------- MODULE LinksProofs -----------------------------
(***************************************************************************)
(* The two-sided lists stay in step for every number of devices, accounts, *)
(* clubs and events, and for every length of the write queues.             *)
(***************************************************************************)
EXTENDS Links, TLAPS

-----------------------------------------------------------------------------
(* Queues.                                                                 *)

(* At most one write is the last one on a leaf.                            *)
LEMMA LastOnUnique ==
    ASSUME NEW q, NEW p, NEW i, NEW j, LastOn(q, p, i), LastOn(q, p, j), Len(q) \in Nat
    PROVE  i = j
BY DEF LastOn

(* Two writes that leave p alone change nothing about p.                   *)
LEMMA AppendOther ==
    ASSUME NEW W, NEW q \in Seq(W), NEW w1 \in W, NEW w2 \in W, NEW p, NEW t,
           p \notin w1.drop, p \notin w2.drop
    PROVE  /\ Covered(q \o <<w1, w2>>, p) <=> Covered(q, p)
           /\ Latest(q \o <<w1, w2>>, t, p) <=> Latest(q, t, p)
<1> DEFINE r == q \o <<w1, w2>>
<1>1. /\ Len(r) = Len(q) + 2
      /\ \A i \in 1..Len(q) : r[i] = q[i]
      /\ r[Len(q) + 1] = w1
      /\ r[Len(q) + 2] = w2
  OBVIOUS
<1> HIDE DEF r
<1>2. \A i \in 1..Len(r) : p \in r[i].drop => i \in 1..Len(q)
  BY <1>1
<1>3. Covered(r, p) <=> Covered(q, p)
  BY <1>1, <1>2 DEF Covered
<1>4. \A i : LastOn(r, p, i) <=> LastOn(q, p, i)
  BY <1>1, <1>2 DEF LastOn
<1>5. Latest(r, t, p) <=> Latest(q, t, p)
  BY <1>1, <1>3, <1>4 DEF Latest, LastOn
<1> QED BY <1>3, <1>5 DEF r

(* If one of two writes covers p, it alone decides what p reads.           *)
LEMMA AppendOn ==
    ASSUME NEW W, NEW q \in Seq(W), NEW w1 \in W, NEW w2 \in W, NEW p, NEW t,
           NEW w, \/ w = w1 /\ p \notin w2.drop
                  \/ w = w2 /\ p \notin w1.drop,
           p \in w.drop
    PROVE  /\ Covered(q \o <<w1, w2>>, p)
           /\ Latest(q \o <<w1, w2>>, t, p) <=> p \in w.put
<1> DEFINE r == q \o <<w1, w2>>
<1>1. /\ Len(q) \in Nat
      /\ Len(r) = Len(q) + 2
      /\ r[Len(q) + 1] = w1
      /\ r[Len(q) + 2] = w2
  OBVIOUS
<1> HIDE DEF r
<1>2. PICK k \in 1..Len(r) : r[k] = w /\ LastOn(r, p, k)
  <2>1. CASE w = w1 /\ p \notin w2.drop
    BY <1>1, <2>1 DEF LastOn
  <2>2. CASE w = w2 /\ p \notin w1.drop
    BY <1>1, <2>2 DEF LastOn
  <2> QED BY <2>1, <2>2
<1>3. Covered(r, p)
  BY <1>2 DEF Covered
<1>4. \A i : LastOn(r, p, i) => i = k
  BY <1>1, <1>2, LastOnUnique
<1>5. Latest(r, t, p) <=> p \in w.put
  BY <1>2, <1>3, <1>4 DEF Latest
<1> QED BY <1>3, <1>5 DEF r

(* Acknowledging the oldest write does not change what p reads, as long as *)
(* the server already holds it when no later write covers p.               *)
LEMMA TailLatest ==
    ASSUME NEW W, NEW q \in Seq(W), q # <<>>, NEW p, NEW t,
           ~Covered(Tail(q), p) /\ p \in q[1].drop => (p \in t <=> p \in q[1].put)
    PROVE  Latest(Tail(q), t, p) <=> Latest(q, t, p)
<1> DEFINE r == Tail(q)
<1>1. /\ Len(q) \in Nat \ {0}
      /\ Len(r) = Len(q) - 1
      /\ \A i \in 1..Len(r) : r[i] = q[i + 1]
  OBVIOUS
<1> HIDE DEF r
<1>2. \A i \in 2..Len(q) : i - 1 \in 1..Len(r) /\ r[i - 1] = q[i]
  BY <1>1
<1>3. \A i \in 1..Len(r) : LastOn(r, p, i) <=> LastOn(q, p, i + 1)
  BY <1>1, <1>2 DEF LastOn
<1>4. Covered(q, p) <=> p \in q[1].drop \/ Covered(r, p)
  <2>1. Covered(r, p) => Covered(q, p)
    BY <1>1 DEF Covered
  <2>2. p \in q[1].drop => Covered(q, p)
    BY <1>1 DEF Covered
  <2>3. ASSUME NEW i \in 1..Len(q), p \in q[i].drop, i # 1
        PROVE  Covered(r, p)
    <3>1. i - 1 \in 1..Len(r) /\ r[i - 1] = q[i]
      BY <1>2, <2>3, <1>1
    <3> QED BY <3>1, <2>3 DEF Covered
  <2> QED BY <2>1, <2>2, <2>3 DEF Covered
<1>5. CASE Covered(r, p)
  <2> PICK k \in 1..Len(r) : p \in r[k].drop
    BY <1>5 DEF Covered
  <2>1. k + 1 \in 2..Len(q) /\ p \in q[k + 1].drop
    BY <1>1
  <2>2. ~LastOn(q, p, 1)
    BY <2>1 DEF LastOn
  <2>3. \A i \in 1..Len(q) : LastOn(q, p, i) => i - 1 \in 1..Len(r) /\ r[i - 1] = q[i] /\ LastOn(r, p, i - 1)
    BY <1>1, <1>2, <1>3, <2>2
  <2>4. \A i \in 1..Len(r) : LastOn(r, p, i) => i + 1 \in 1..Len(q) /\ r[i] = q[i + 1] /\ LastOn(q, p, i + 1)
    BY <1>1, <1>3
  <2> QED BY <1>4, <1>5, <2>3, <2>4 DEF Latest, r
<1>6. CASE ~Covered(r, p) /\ p \in q[1].drop
  <2>1. LastOn(q, p, 1)
    BY <1>1, <1>2, <1>6 DEF LastOn, Covered
  <2>2. \A i : LastOn(q, p, i) => i = 1
    BY <2>1, <1>1, LastOnUnique
  <2>3. Latest(q, t, p) <=> p \in q[1].put
    BY <1>1, <2>1, <2>2, <1>4, <1>6 DEF Latest
  <2>4. Latest(r, t, p) <=> p \in t
    BY <1>6 DEF Latest, LastOn, Covered
  <2> QED BY <2>3, <2>4, <1>6 DEF r
<1>7. CASE ~Covered(r, p) /\ p \notin q[1].drop
  <2>1. ~Covered(q, p)
    BY <1>4, <1>7
  <2>2. Latest(q, t, p) <=> p \in t
    BY <2>1 DEF Latest, LastOn, Covered
  <2>3. Latest(r, t, p) <=> p \in t
    BY <1>7 DEF Latest, LastOn, Covered
  <2> QED BY <2>2, <2>3 DEF r
<1> QED BY <1>5, <1>6, <1>7

(* What p reads over its own last write i.                                 *)
LEMMA LatestOfLast ==
    ASSUME NEW q, Len(q) \in Nat, NEW p, NEW t, NEW i \in 1..Len(q), LastOn(q, p, i)
    PROVE  Latest(q, t, p) <=> p \in q[i].put
<1>1. \A j : LastOn(q, p, j) => j = i
  BY LastOnUnique
<1>2. Covered(q, p)
  BY DEF LastOn, Covered
<1> QED BY <1>1, <1>2 DEF Latest

-----------------------------------------------------------------------------
(* Links and leaves.                                                       *)

LEMMA LinkFields ==
    ASSUME NEW l \in Link
    PROVE  /\ l = [kind |-> l.kind, user |-> l.user, key |-> l.key]
           /\ l.kind \in {"club", "follow", "event"}
           /\ Near(l) # Far(l)
           /\ Near(l) \in Leaf
           /\ Far(l) \in Leaf
<1>1. /\ l = [kind |-> l.kind, user |-> l.user, key |-> l.key]
      /\ l.kind \in {"club", "follow", "event"}
  BY DEF Link
<1>2. Near(l) # Far(l)
  BY <1>1 DEF Near, Far, NearList, FarList
<1>3. Near(l) \in Leaf /\ Far(l) \in Leaf
  BY DEF Leaf, Halves
<1> QED BY <1>1, <1>2, <1>3

(* No leaf belongs to two links.                                           *)
LEMMA HalvesDisjoint ==
    ASSUME NEW l \in Link, NEW m \in Link, l # m
    PROVE  Halves(l) \cap Halves(m) = {}
<1>1. Near(l) # Near(m)
  BY LinkFields DEF Near, NearList
<1>2. Far(l) # Far(m)
  BY LinkFields DEF Far, FarRoot, FarList
<1>3. Near(l) # Far(m) /\ Far(l) # Near(m)
  BY LinkFields DEF Near, Far, NearList, FarList
<1> QED BY <1>1, <1>2, <1>3 DEF Halves

(* A tap on m writes the two halves of m, one write each.                  *)
TapWrites(m, act) ==
    IF act = "attach" THEN AttachWrites(m) ELSE DetachWrites(m)

LEMMA TapShape ==
    ASSUME NEW m \in Link, NEW act \in {"attach", "detach"}
    PROVE  \E w1, w2 \in WriteSet :
              /\ TapWrites(m, act) = <<w1, w2>>
              /\ w1.drop \subseteq Halves(m) /\ w2.drop \subseteq Halves(m)
              /\ \A p \in w1.drop : p \in w1.put <=> act = "attach"
              /\ \A p \in w2.drop : p \in w2.put <=> act = "attach"
              /\ \A p \in Halves(m) : \/ p \in w1.drop /\ p \notin w2.drop
                                      \/ p \in w2.drop /\ p \notin w1.drop
<1>1. \A p \in Halves(m) : Update(p) \in WriteSet /\ Remove(p) \in WriteSet
  BY LinkFields DEF Halves, Update, Remove, WriteSet
<1>2. Near(m) # Far(m)
  BY LinkFields
<1>3. CASE act = "attach" /\ m.kind = "event"
  <2> /\ Update(Far(m)) \in WriteSet
      /\ Update(Near(m)) \in WriteSet
    BY <1>1 DEF Halves
  <2> WITNESS Update(Far(m)) \in WriteSet, Update(Near(m)) \in WriteSet
  <2> QED BY <1>2, <1>3 DEF TapWrites, AttachWrites, Update, Halves
<1>4. CASE act = "attach" /\ m.kind # "event"
  <2> /\ Update(Near(m)) \in WriteSet
      /\ Update(Far(m)) \in WriteSet
    BY <1>1 DEF Halves
  <2> WITNESS Update(Near(m)) \in WriteSet, Update(Far(m)) \in WriteSet
  <2> QED BY <1>2, <1>4 DEF TapWrites, AttachWrites, Update, Halves
<1>5. CASE act = "detach"
  <2> /\ Remove(Near(m)) \in WriteSet
      /\ Remove(Far(m)) \in WriteSet
    BY <1>1 DEF Halves
  <2> WITNESS Remove(Near(m)) \in WriteSet, Remove(Far(m)) \in WriteSet
  <2> QED BY <1>2, <1>5 DEF TapWrites, DetachWrites, Remove, Halves
<1> QED BY <1>3, <1>4, <1>5

-----------------------------------------------------------------------------
(* Steps.                                                                  *)

(* What Attach and Detach have in common.                                  *)
Tap(d, m, act) ==
    /\ Submit(d, TapWrites(m, act))
    /\ wanted' = IF act = "attach" THEN wanted \cup {m} ELSE wanted \ {m}
    /\ Judge(d, m)

LEMMA NextCases ==
    ASSUME Next
    PROVE  \E d \in Device :
              \/ \E m \in Link, act \in {"attach", "detach"} : Tap(d, m, act)
              \/ Serve(d) /\ UNCHANGED linkVars
              \/ Ack(d) /\ UNCHANGED linkVars
              \/ Resend(d) /\ UNCHANGED linkVars
              \/ Kill(d)
<1>1. ASSUME NEW d \in Device, NEW m \in Link, Attach(d, m)
      PROVE  Tap(d, m, "attach")
  BY <1>1 DEF Attach, Tap, TapWrites
<1>2. ASSUME NEW d \in Device, NEW m \in Link, Detach(d, m)
      PROVE  Tap(d, m, "detach")
  BY <1>2 DEF Detach, Tap, TapWrites
<1> QED BY <1>1, <1>2 DEF Next, Deliver

(* What a tap does to the queue of its device.                             *)
LEMMA TapQueue ==
    ASSUME TypeOK, NEW d \in Device, NEW m \in Link, NEW act \in {"attach", "detach"}, Tap(d, m, act)
    PROVE  /\ pending' \in [Device -> Seq(WriteSet)]
           /\ \A e \in Device \ {d} : pending'[e] = pending[e]
           /\ Len(pending'[d]) = Len(pending[d]) + 2
           /\ \A i \in 1..Len(pending[d]) : pending'[d][i] = pending[d][i]
           /\ \A p : p \notin Halves(m) =>
                 /\ Covered(pending'[d], p) <=> Covered(pending[d], p)
                 /\ Latest(pending'[d], tree', p) <=> Latest(pending[d], tree, p)
           /\ \A p \in Halves(m) :
                 /\ Latest(pending'[d], tree', p) <=> act = "attach"
                 /\ \E i \in (Len(pending[d]) + 1)..Len(pending'[d]) : p \in pending'[d][i].drop
           /\ tree' = tree /\ sent' = sent
<1>1. PICK w1 \in WriteSet, w2 \in WriteSet :
         /\ TapWrites(m, act) = <<w1, w2>>
         /\ w1.drop \subseteq Halves(m) /\ w2.drop \subseteq Halves(m)
         /\ \A p \in w1.drop : p \in w1.put <=> act = "attach"
         /\ \A p \in w2.drop : p \in w2.put <=> act = "attach"
         /\ \A p \in Halves(m) : \/ p \in w1.drop /\ p \notin w2.drop
                                 \/ p \in w2.drop /\ p \notin w1.drop
  BY TapShape
<1> DEFINE q == pending[d]
<1>2. q \in Seq(WriteSet)
  BY DEF TypeOK
<1>3. /\ pending' = [pending EXCEPT ![d] = q \o <<w1, w2>>]
      /\ tree' = tree
      /\ sent' = sent
  BY <1>1 DEF Tap, Submit
<1>4. /\ pending'[d] = q \o <<w1, w2>>
      /\ \A e \in Device \ {d} : pending'[e] = pending[e]
  BY <1>3 DEF TypeOK
<1>5. q \o <<w1, w2>> \in Seq(WriteSet)
  BY <1>2
<1>6. pending' \in [Device -> Seq(WriteSet)]
  BY <1>3, <1>5 DEF TypeOK
<1>7. /\ Len(q \o <<w1, w2>>) = Len(q) + 2
      /\ \A i \in 1..Len(q) : (q \o <<w1, w2>>)[i] = q[i]
      /\ (q \o <<w1, w2>>)[Len(q) + 1] = w1
      /\ (q \o <<w1, w2>>)[Len(q) + 2] = w2
      /\ Len(q) \in Nat
  BY <1>2
<1>8. ASSUME NEW p, p \notin Halves(m)
      PROVE  /\ Covered(pending'[d], p) <=> Covered(q, p)
             /\ Latest(pending'[d], tree', p) <=> Latest(q, tree, p)
  <2>1. p \notin w1.drop /\ p \notin w2.drop
    BY <1>1, <1>8
  <2> QED BY <1>2, <1>3, <1>4, <2>1, AppendOther
<1>9. ASSUME NEW p \in Halves(m)
      PROVE  /\ Latest(pending'[d], tree', p) <=> act = "attach"
             /\ \E i \in (Len(q) + 1)..Len(pending'[d]) : p \in pending'[d][i].drop
  <2>1. PICK w \in {w1, w2} :
          /\ (w = w1 /\ p \notin w2.drop) \/ (w = w2 /\ p \notin w1.drop)
          /\ p \in w.drop
    BY <1>1, <1>9
  <2>2. p \in w.put <=> act = "attach"
    BY <1>1, <2>1
  <2>3. w \in WriteSet
    BY <2>1
  <2>4. Latest(q \o <<w1, w2>>, tree, p) <=> p \in w.put
    BY <1>2, <2>1, <2>3, AppendOn
  <2>5. Latest(pending'[d], tree', p) <=> p \in w.put
    BY <1>3, <1>4, <2>4
  <2>6. \E i \in (Len(q) + 1)..(Len(q) + 2) : p \in (q \o <<w1, w2>>)[i].drop
    BY <1>7, <2>1
  <2> QED BY <1>4, <1>7, <2>2, <2>5, <2>6
<1> HIDE DEF q
<1> QED BY <1>3, <1>4, <1>6, <1>7, <1>8, <1>9 DEF q

-----------------------------------------------------------------------------
(* Types.                                                                  *)

LEMMA TypeInit == Init => TypeOK
<1> SUFFICES ASSUME Init PROVE TypeOK
  OBVIOUS
<1>1. tree \subseteq Leaf
  BY DEF Init, Leaf
<1>2. /\ pending \in [Device -> Seq(WriteSet)]
      /\ sent \in [Device -> Nat]
      /\ \A d \in Device : sent[d] <= Len(pending[d])
  BY DEF Init
<1>3. wanted \subseteq Link /\ torn \subseteq Link
  BY DEF Init
<1> QED BY <1>1, <1>2, <1>3 DEF TypeOK

LEMMA TypeStep == TypeOK /\ [Next]_vars => TypeOK'
<1> SUFFICES ASSUME TypeOK, [Next]_vars PROVE TypeOK'
  OBVIOUS
<1>1. CASE UNCHANGED vars
  BY <1>1 DEF TypeOK, vars
<1>2. ASSUME NEW d \in Device, NEW m \in Link, NEW act \in {"attach", "detach"},
             Tap(d, m, act)
      PROVE  TypeOK'
  <2>1. wanted' \subseteq Link /\ torn' \subseteq Link
    BY <1>2 DEF TypeOK, Tap, Judge
  <2>2. \A e \in Device : sent'[e] <= Len(pending'[e])
    <3>1. \A e \in Device : Len(pending[e]) \in Nat /\ sent[e] \in Nat
      BY DEF TypeOK
    <3>2. /\ sent' = sent
          /\ Len(pending'[d]) = Len(pending[d]) + 2
          /\ \A e \in Device \ {d} : pending'[e] = pending[e]
      BY <1>2, TapQueue
    <3> QED BY <3>1, <3>2 DEF TypeOK
  <2> QED BY <1>2, <2>1, <2>2, TapQueue DEF TypeOK
<1>3. ASSUME NEW d \in Device, Serve(d), UNCHANGED linkVars
      PROVE  TypeOK'
  <2>1. pending[d] \in Seq(WriteSet) /\ sent[d] + 1 \in 1..Len(pending[d])
    BY <1>3 DEF TypeOK, Serve
  <2>2. pending[d][sent[d] + 1] \in WriteSet
    BY <2>1
  <2>3. tree' \subseteq Leaf
    BY <1>3, <2>2 DEF TypeOK, Serve, Applied, WriteSet
  <2>4. /\ sent' \in [Device -> Nat]
        /\ \A e \in Device : sent'[e] <= Len(pending'[e])
    BY <1>3, <2>1 DEF TypeOK, Serve
  <2> QED BY <1>3, <2>3, <2>4 DEF TypeOK, Serve, linkVars
<1>4. ASSUME NEW d \in Device, Ack(d), UNCHANGED linkVars
      PROVE  TypeOK'
  <2>1. /\ pending[d] \in Seq(WriteSet) /\ pending[d] # <<>>
        /\ sent[d] \in Nat \ {0} /\ sent[d] <= Len(pending[d])
    BY <1>4 DEF TypeOK, Ack
  <2>2. Tail(pending[d]) \in Seq(WriteSet) /\ Len(Tail(pending[d])) = Len(pending[d]) - 1
    BY <2>1
  <2>3. /\ pending' \in [Device -> Seq(WriteSet)]
        /\ sent' \in [Device -> Nat]
    BY <1>4, <2>1, <2>2 DEF TypeOK, Ack
  <2>4. \A e \in Device : sent'[e] <= Len(pending'[e])
    BY <1>4, <2>1, <2>2 DEF TypeOK, Ack
  <2> QED BY <1>4, <2>3, <2>4 DEF TypeOK, Ack, linkVars
<1>5. ASSUME NEW d \in Device, Resend(d), UNCHANGED linkVars
      PROVE  TypeOK'
  BY <1>5 DEF TypeOK, Resend, linkVars
<1>6. ASSUME NEW d \in Device, Kill(d)
      PROVE  TypeOK'
  BY <1>6 DEF TypeOK, Kill, Forget
<1>7. CASE Next
  BY <1>2, <1>3, <1>4, <1>5, <1>6, <1>7, NextCases
<1> QED BY <1>1, <1>7

(* The queues, the tree and the histories keep their types.                *)
THEOREM TypeCorrect == Spec => []TypeOK
  BY TypeInit, TypeStep, PTL DEF Spec

-----------------------------------------------------------------------------
(* Links in step.                                                          *)

LEMMA BusyCovered ==
    ASSUME NEW d \in Device, NEW l \in Link
    PROVE  Busy(d, l) <=> \E p \in Halves(l) : Covered(pending[d], p)
BY DEF Busy, Touches, Covered

(* Without a pending write on p, a device reads the server.                *)
LEMMA SeesServer ==
    ASSUME NEW d \in Device, NEW p, ~Covered(pending[d], p)
    PROVE  Sees(d, p) <=> p \in tree
BY DEF Sees, Latest, LastOn, Covered

(* A tap on m leaves every other link as it was.                           *)
LEMMA TapOther ==
    ASSUME TypeOK, NEW d \in Device, NEW m \in Link, NEW act \in {"attach", "detach"},
           Tap(d, m, act), NEW l \in Link, l # m, l \notin torn, Steady(l)
    PROVE  Steady(l)'
<1>1. /\ \A e \in Device \ {d} : pending'[e] = pending[e]
      /\ Len(pending'[d]) = Len(pending[d]) + 2
      /\ \A i \in 1..Len(pending[d]) : pending'[d][i] = pending[d][i]
      /\ tree' = tree /\ sent' = sent
  BY TapQueue
<1>2. \A p \in Halves(l) : p \notin Halves(m)
  BY HalvesDisjoint
<1>3. \A p \in Halves(l) :
         /\ Covered(pending'[d], p) <=> Covered(pending[d], p)
         /\ Latest(pending'[d], tree', p) <=> Latest(pending[d], tree, p)
  BY <1>2, TapQueue
<1>4. ASSUME NEW e \in Device, NEW p \in Halves(l)
      PROVE  /\ Covered(pending[e], p)' <=> Covered(pending[e], p)
             /\ Sees(e, p)' <=> Sees(e, p)
             /\ Landed(e, p)' => Landed(e, p)
  <2>1. CASE e = d
    <3>1. sent[d] \in Nat /\ Len(pending[d]) \in Nat
      BY DEF TypeOK
    <3>2. Landed(d, p)' => Landed(d, p)
      BY <1>1, <3>1 DEF Landed
    <3> QED BY <1>3, <2>1, <3>2 DEF Sees
  <2>2. CASE e # d
    BY <1>1, <2>2 DEF Sees, Landed
  <2> QED BY <2>1, <2>2
<1>5. \A e \in Device : Busy(e, l)' <=> Busy(e, l)
  <2>1. \A e \in Device : Busy(e, l)' <=> \E p \in Halves(l) : Covered(pending[e], p)'
    BY DEF Busy, Touches, Covered
  <2> QED BY <1>4, <2>1, BusyCovered
<1>6. l \in wanted' <=> l \in wanted
  BY DEF Tap
<1> QED BY <1>1, <1>4, <1>5, <1>6 DEF Steady

(* An unraced tap on l puts l in step, whatever it was before.             *)
LEMMA TapSame ==
    ASSUME TypeOK, NEW d \in Device, NEW l \in Link, NEW act \in {"attach", "detach"},
           Tap(d, l, act), l \notin torn'
    PROVE  Steady(l)'
<1>1. /\ \A e \in Device \ {d} : pending'[e] = pending[e]
      /\ tree' = tree /\ sent' = sent
  BY TapQueue
<1>2. \A e \in Device \ {d} : ~Busy(e, l)'
  BY <1>1 DEF Tap, Judge, Raced, Busy
<1>3. \A p \in Halves(l) :
         /\ Latest(pending'[d], tree', p) <=> act = "attach"
         /\ \E i \in (Len(pending[d]) + 1)..Len(pending'[d]) : p \in pending'[d][i].drop
  BY TapQueue
<1>4. /\ sent[d] \in Nat
      /\ Len(pending[d]) \in Nat
      /\ sent[d] <= Len(pending[d])
      /\ Len(pending'[d]) = Len(pending[d]) + 2
  BY TapQueue DEF TypeOK
<1>5. \A p \in Halves(l) : ~Landed(d, p)'
  BY <1>1, <1>3, <1>4 DEF Landed
<1>6. Busy(d, l)'
  <2>1. PICK i \in (Len(pending[d]) + 1)..Len(pending'[d]) : Near(l) \in pending'[d][i].drop
    BY <1>3 DEF Halves
  <2>2. i \in 1..Len(pending'[d])
    BY <1>4
  <2> QED BY <2>1, <2>2 DEF Busy, Touches, Halves
<1>7. l \in wanted' <=> act = "attach"
  BY DEF Tap
<1>8. \A e \in Device \ {d} : \A p \in Halves(l) : ~Covered(pending[e], p)'
  BY <1>2 DEF Busy, Touches, Covered
<1>9. \A p \in Halves(l) : Sees(d, p)' <=> l \in wanted'
  BY <1>3, <1>7 DEF Sees
<1> QED BY <1>2, <1>5, <1>6, <1>8, <1>9 DEF Steady

(* The next write of d reaches the server.                                 *)
LEMMA ServeSteady ==
    ASSUME TypeOK, NEW d \in Device, Serve(d), UNCHANGED linkVars,
           NEW l \in Link, Steady(l)
    PROVE  Steady(l)'
<1> DEFINE i == sent[d] + 1
           w == pending[d][i]
<1>1. /\ pending' = pending
      /\ wanted' = wanted
      /\ tree' = (tree \ w.drop) \cup w.put
      /\ sent' = [sent EXCEPT ![d] = i]
  BY DEF Serve, Applied, linkVars
<1>2. /\ i \in 1..Len(pending[d])
      /\ sent[d] \in Nat
      /\ Len(pending[d]) \in Nat
      /\ w.put \subseteq w.drop
      /\ sent'[d] = i
      /\ \A e \in Device \ {d} : sent'[e] = sent[e]
  <2>1. pending[d] \in Seq(WriteSet) /\ sent[d] \in Nat /\ sent[d] < Len(pending[d])
    BY DEF TypeOK, Serve
  <2>2. w \in WriteSet /\ i \in 1..Len(pending[d])
    BY <2>1
  <2> QED BY <1>1, <2>1, <2>2 DEF WriteSet, TypeOK
<1>3. \A e \in Device : Busy(e, l)' <=> Busy(e, l)
  BY <1>1 DEF Busy
<1>4. \A p \in Halves(l) : p \in w.drop => Busy(d, l) /\ Covered(pending[d], p)
  BY <1>2 DEF Busy, Touches, Covered
<1> HIDE DEF w
<1>5. \A p \in Halves(l) : p \notin w.drop => (p \in tree' <=> p \in tree)
  BY <1>1, <1>2
<1>6. ASSUME NEW e \in Device, NEW p \in Halves(l), Busy(e, l)
      PROVE  Sees(e, p)' <=> Sees(e, p)
  <2>1. CASE p \in w.drop
    <3>1. e = d
      BY <1>4, <1>6, <2>1 DEF Steady
    <3>2. Covered(pending[e], p)
      BY <1>4, <2>1, <3>1
    <3> QED BY <1>1, <3>2 DEF Sees, Latest
  <2>2. CASE p \notin w.drop
    BY <1>1, <1>5, <2>2 DEF Sees, Latest
  <2> QED BY <2>1, <2>2
<1>7. ASSUME NEW e \in Device, NEW p \in Halves(l),
             Covered(pending[e], p)', Landed(e, p)'
      PROVE  p \in tree' <=> Sees(e, p)'
  <2>1. Covered(pending[e], p) /\ Busy(e, l)
    BY <1>1, <1>7, BusyCovered
  <2>2. CASE p \in w.drop
    <3>1. e = d
      BY <1>4, <2>1, <2>2 DEF Steady
    <3>2. LastOn(pending[d], p, i)
      BY <1>1, <1>2, <1>7, <2>2, <3>1 DEF Landed, LastOn, w
    <3>3. Latest(pending[d], tree', p) <=> p \in w.put
      BY <1>2, <3>2, LatestOfLast DEF w
    <3> QED BY <1>1, <2>2, <3>1, <3>3 DEF Sees
  <2>3. CASE p \notin w.drop
    <3>1. Landed(e, p)
      <4>1. CASE e = d
        BY <1>1, <1>2, <1>7, <2>3, <4>1 DEF Landed, w
      <4>2. CASE e # d
        BY <1>1, <1>2, <1>7, <4>2 DEF Landed
      <4> QED BY <4>1, <4>2
    <3>2. p \in tree <=> Sees(e, p)
      BY <2>1, <3>1 DEF Steady
    <3> QED BY <1>5, <1>6, <2>1, <2>3, <3>2
  <2> QED BY <2>2, <2>3
<1>8. ASSUME \A e \in Device : ~Busy(e, l)', NEW p \in Halves(l)
      PROVE  p \in tree' <=> l \in wanted'
  <2>1. p \notin w.drop
    BY <1>3, <1>4, <1>8
  <2> QED BY <1>1, <1>3, <1>5, <1>8, <2>1 DEF Steady
<1> QED BY <1>1, <1>3, <1>6, <1>7, <1>8 DEF Steady

(* The answer to the oldest write of d reaches d.                          *)
LEMMA AckSteady ==
    ASSUME TypeOK, NEW d \in Device, Ack(d), UNCHANGED linkVars,
           NEW l \in Link, Steady(l)
    PROVE  Steady(l)'
<1> DEFINE q == pending[d]
<1>1. /\ q \in Seq(WriteSet) /\ q # <<>>
      /\ Len(q) \in Nat
      /\ sent[d] \in Nat \ {0} /\ sent[d] <= Len(q)
  BY DEF TypeOK, Ack
<1>2. /\ pending'[d] = Tail(q)
      /\ \A e \in Device \ {d} : pending'[e] = pending[e] /\ sent'[e] = sent[e]
      /\ sent'[d] = sent[d] - 1
      /\ tree' = tree /\ wanted' = wanted
  BY DEF TypeOK, Ack, linkVars
<1>3. /\ Len(Tail(q)) = Len(q) - 1
      /\ \A i \in 1..Len(Tail(q)) : Tail(q)[i] = q[i + 1]
      /\ \A i \in 2..Len(q) : i - 1 \in 1..Len(Tail(q)) /\ Tail(q)[i - 1] = q[i]
  BY <1>1
<1> HIDE DEF q
<1>4. \A p : Covered(q, p) <=> p \in q[1].drop \/ Covered(Tail(q), p)
  BY <1>1, <1>3 DEF Covered
<1>5. ASSUME NEW p \in Halves(l)
      PROVE  Sees(d, p)' <=> Sees(d, p)
  <2>1. ASSUME ~Covered(Tail(q), p), p \in q[1].drop
        PROVE  p \in tree <=> p \in q[1].put
    <3>1. LastOn(q, p, 1)
      BY <1>1, <1>3, <2>1 DEF LastOn, Covered
    <3>2. Landed(d, p)
      BY <1>1, <3>1 DEF Landed, LastOn, q
    <3>3. p \in tree <=> Sees(d, p)
      BY <1>4, <2>1, <3>2 DEF Steady, q
    <3>4. Latest(q, tree, p) <=> p \in q[1].put
      BY <1>1, <3>1, LatestOfLast
    <3> QED BY <3>3, <3>4 DEF Sees, q
  <2>2. Latest(Tail(q), tree, p) <=> Latest(q, tree, p)
    BY <1>1, <2>1, TailLatest
  <2> QED BY <1>2, <2>2 DEF Sees, q
<1>6. ASSUME NEW p \in Halves(l)
      PROVE  Landed(d, p)' => Landed(d, p)
  <2>1. ASSUME Landed(d, p)', NEW i \in (sent[d] + 1)..Len(q)
        PROVE  p \notin q[i].drop
    <3>1. /\ i \in 2..Len(q)
          /\ i - 1 \in (sent'[d] + 1)..Len(pending'[d])
          /\ pending'[d][i - 1] = q[i]
      BY <1>1, <1>2, <1>3
    <3> QED BY <2>1, <3>1 DEF Landed
  <2> QED BY <2>1 DEF Landed, q
<1>7. \A p : Covered(pending[d], p)' => Covered(pending[d], p)
  BY <1>2, <1>4 DEF q
<1>8. \A e \in Device : Busy(e, l)' <=> \E p \in Halves(l) : Covered(pending[e], p)'
  BY DEF Busy, Touches, Covered
<1>9. \A e \in Device \ {d} : \A p :
         /\ Covered(pending[e], p)' <=> Covered(pending[e], p)
         /\ Sees(e, p)' <=> Sees(e, p)
         /\ Landed(e, p)' <=> Landed(e, p)
  BY <1>2 DEF Sees, Landed
<1>10. \A e \in Device : Busy(e, l)' => Busy(e, l)
  BY <1>7, <1>8, <1>9, BusyCovered
<1>11. \A e \in Device : \A p \in Halves(l) :
         Covered(pending[e], p)' /\ Landed(e, p)' => (p \in tree' <=> Sees(e, p)')
  BY <1>2, <1>5, <1>6, <1>7, <1>9 DEF Steady
<1>12. ASSUME \A e \in Device : ~Busy(e, l)', NEW p \in Halves(l)
       PROVE  p \in tree' <=> l \in wanted'
  <2>1. CASE Busy(d, l)
    <3>1. ~Covered(pending[d], p)'
      BY <1>8, <1>12
    <3>2. Sees(d, p)' <=> p \in tree'
      BY <3>1 DEF Sees, Latest, LastOn, Covered
    <3> QED BY <1>2, <1>5, <2>1, <3>2 DEF Steady
  <2>2. CASE ~Busy(d, l)
    <3>1. \A e \in Device : ~Busy(e, l)
      BY <1>8, <1>9, <1>12, <2>2, BusyCovered
    <3> QED BY <1>2, <3>1 DEF Steady
  <2> QED BY <2>1, <2>2
<1> QED BY <1>2, <1>5, <1>9, <1>10, <1>11, <1>12 DEF Steady

(* The connection of d drops and all is sent again.                        *)
LEMMA ResendSteady ==
    ASSUME TypeOK, NEW d \in Device, Resend(d), UNCHANGED linkVars,
           NEW l \in Link, Steady(l)
    PROVE  Steady(l)'
<1>1. /\ pending' = pending /\ tree' = tree /\ wanted' = wanted
      /\ sent'[d] = 0
      /\ \A e \in Device \ {d} : sent'[e] = sent[e]
  BY DEF TypeOK, Resend, linkVars
<1>2. \A e \in Device : Busy(e, l)' <=> Busy(e, l)
  BY <1>1 DEF Busy
<1>3. \A e \in Device : \A p : Sees(e, p)' <=> Sees(e, p)
  BY <1>1 DEF Sees
<1>4. \A e \in Device : \A p : Covered(pending[e], p)' /\ Landed(e, p)' => Landed(e, p)
  <2>1. \A p : ~(Covered(pending[d], p)' /\ Landed(d, p)')
    BY <1>1 DEF Covered, Landed
  <2>2. \A e \in Device \ {d} : \A p : Landed(e, p)' => Landed(e, p)
    BY <1>1 DEF Landed
  <2> QED BY <2>1, <2>2
<1> QED BY <1>1, <1>2, <1>3, <1>4 DEF Steady

(* The app dies on d; what had not reached the server is torn.             *)
LEMMA KillSteady ==
    ASSUME TypeOK, NEW d \in Device, Kill(d), NEW l \in Link, Steady(l), l \notin torn'
    PROVE  Steady(l)'
<1>1. /\ tree' = tree /\ wanted' = wanted
      /\ pending'[d] = <<>>
      /\ \A e \in Device \ {d} : pending'[e] = pending[e] /\ sent'[e] = sent[e]
  BY DEF TypeOK, Kill, Forget
<1>2. \A p \in Halves(l) : Landed(d, p)
  BY DEF Kill, Tear
<1>3. \A p : ~Covered(pending[d], p)'
  BY <1>1 DEF Covered
<1>4. \A e \in Device : Busy(e, l)' <=> \E p \in Halves(l) : Covered(pending[e], p)'
  BY DEF Busy, Touches, Covered
<1>5. \A e \in Device \ {d} : \A p :
         /\ Covered(pending[e], p)' <=> Covered(pending[e], p)
         /\ Sees(e, p)' <=> Sees(e, p)
         /\ Landed(e, p)' <=> Landed(e, p)
  BY <1>1 DEF Sees, Landed
<1>6. /\ ~Busy(d, l)'
      /\ \A e \in Device \ {d} : Busy(e, l)' <=> Busy(e, l)
  BY <1>3, <1>4, <1>5, BusyCovered
<1>7. ASSUME \A e \in Device : ~Busy(e, l)', NEW p \in Halves(l)
      PROVE  p \in tree' <=> l \in wanted'
  <2>1. CASE Busy(d, l)
    <3>1. Sees(d, p) <=> l \in wanted
      BY <2>1 DEF Steady
    <3>2. p \in tree <=> Sees(d, p)
      BY <1>2, SeesServer DEF Steady
    <3> QED BY <1>1, <3>1, <3>2
  <2>2. CASE ~Busy(d, l)
    <3>1. \A e \in Device : ~Busy(e, l)
      BY <1>6, <1>7, <2>2
    <3> QED BY <1>1, <3>1 DEF Steady
  <2> QED BY <2>1, <2>2
<1> QED BY <1>1, <1>3, <1>5, <1>6, <1>7 DEF Steady

LEMMA IInvInit == Init => IInv
<1> SUFFICES ASSUME Init PROVE IInv
  OBVIOUS
<1>1. TypeOK
  BY TypeInit
<1>2. ASSUME NEW l \in Link PROVE Steady(l)
  <2>1. \A d \in Device : \A p : ~Covered(pending[d], p)
    BY DEF Init, Covered
  <2>2. \A d \in Device : ~Busy(d, l)
    BY <2>1, BusyCovered
  <2>3. ASSUME NEW p \in Halves(l) PROVE p \in tree <=> l \in wanted
    <3>1. \A m \in Link : p \in Halves(m) => m = l
      BY HalvesDisjoint
    <3>2. p \notin FoundedLeaves
      <4>1. ASSUME NEW f \in Founded PROVE p \notin FoundingLeaves(f[1], f[2])
        <5>1. f = <<f[1], f[2]>>
          BY FoundedAssumption
        <5>2. l.kind = "club" => <<l.user, l.key>> # <<f[1], f[2]>>
          BY <5>1 DEF Link
        <5>3. l.kind \in {"club", "follow", "event"}
          BY LinkFields
        <5>4. Near(l) \notin FoundingLeaves(f[1], f[2])
          BY <5>3 DEF Near, NearList, FoundingLeaves, AdminEntry
        <5>5. CASE l.kind = "club"
          <6>1. l.user # f[1] \/ l.key # f[2]
            BY <5>2, <5>5
          <6>2. Far(l) = [root |-> "clubs", of |-> l.key, list |-> "members", key |-> l.user]
            BY <5>5 DEF Far, FarRoot, FarList
          <6>3. Far(l) \notin FoundingLeaves(f[1], f[2])
            BY <6>1, <6>2 DEF FoundingLeaves, AdminEntry
          <6> QED BY <5>4, <6>3 DEF Halves
        <5>6. CASE l.kind # "club"
          <6>1. Far(l) \notin FoundingLeaves(f[1], f[2])
            BY <5>3, <5>6 DEF Far, FarRoot, FarList, FoundingLeaves, AdminEntry
          <6> QED BY <5>4, <6>1 DEF Halves
        <5> QED BY <5>5, <5>6
      <4> QED BY <4>1 DEF FoundedLeaves
    <3>3. wanted \subseteq Link
      BY DEF Init
    <3> QED BY <3>1, <3>2, <3>3 DEF Init
  <2> QED BY <2>1, <2>2, <2>3 DEF Steady
<1> QED BY <1>1, <1>2 DEF IInv

LEMMA IInvStep == IInv /\ [Next]_vars => IInv'
<1> SUFFICES ASSUME IInv, [Next]_vars PROVE IInv'
  OBVIOUS
<1>1. TypeOK /\ TypeOK'
  BY TypeStep DEF IInv
<1> SUFFICES ASSUME NEW l \in Link, l \notin torn' PROVE Steady(l)'
  BY <1>1 DEF IInv
<1>2. l \notin torn => Steady(l)
  BY DEF IInv
<1>3. CASE UNCHANGED vars
  BY <1>2, <1>3 DEF vars, Steady, Busy, Sees, Landed
<1>4. ASSUME NEW d \in Device, NEW m \in Link, NEW act \in {"attach", "detach"},
             Tap(d, m, act)
      PROVE  Steady(l)'
  <2>1. CASE m = l
    BY <1>1, <1>4, <2>1, TapSame
  <2>2. CASE m # l
    <3>1. l \notin torn
      BY <1>4, <2>2 DEF Tap, Judge
    <3> QED BY <1>1, <1>2, <1>4, <2>2, <3>1, TapOther
  <2> QED BY <2>1, <2>2
<1>5. ASSUME NEW d \in Device, Serve(d), UNCHANGED linkVars
      PROVE  Steady(l)'
  BY <1>1, <1>2, <1>5, ServeSteady DEF linkVars
<1>6. ASSUME NEW d \in Device, Ack(d), UNCHANGED linkVars
      PROVE  Steady(l)'
  BY <1>1, <1>2, <1>6, AckSteady DEF linkVars
<1>7. ASSUME NEW d \in Device, Resend(d), UNCHANGED linkVars
      PROVE  Steady(l)'
  BY <1>1, <1>2, <1>7, ResendSteady DEF linkVars
<1>8. ASSUME NEW d \in Device, Kill(d)
      PROVE  Steady(l)'
  <2>1. l \notin torn
    BY <1>8 DEF Kill
  <2> QED BY <1>1, <1>2, <1>8, <2>1, KillSteady
<1>9. CASE Next
  BY <1>4, <1>5, <1>6, <1>7, <1>8, <1>9, NextCases
<1> QED BY <1>3, <1>9

LEMMA IInvImplies == IInv => LinkIntegrity /\ OwnView
<1> SUFFICES ASSUME IInv PROVE LinkIntegrity /\ OwnView
  OBVIOUS
<1>1. OwnView
  BY DEF IInv, Steady, OwnView
<1>2. ASSUME NEW l \in Link, l \notin torn, AllLanded(l), NEW p \in Halves(l)
      PROVE  p \in tree <=> l \in wanted
  <2>1. Steady(l)
    BY <1>2 DEF IInv
  <2>2. CASE \E d \in Device : Busy(d, l)
    <3>1. PICK d \in Device : Busy(d, l)
      BY <2>2
    <3>2. Sees(d, p) <=> l \in wanted
      BY <2>1, <3>1 DEF Steady
    <3>3. p \in tree <=> Sees(d, p)
      BY <1>2, <2>1, SeesServer DEF Steady, AllLanded
    <3> QED BY <3>2, <3>3
  <2>3. CASE \A d \in Device : ~Busy(d, l)
    BY <2>1, <2>3 DEF Steady
  <2> QED BY <2>2, <2>3
<1> QED BY <1>1, <1>2 DEF LinkIntegrity

(* The inductive invariant, the two-sided lists in step, and what the      *)
(* writing device sees, in every behaviour.                                *)
THEOREM Induction == Spec => []IInv
  BY IInvInit, IInvStep, PTL DEF Spec

(* Once everything written about an untorn link has landed, both halves    *)
(* hold the user's last choice.                                            *)
THEOREM Integrity == Spec => []LinkIntegrity
  BY Induction, IInvImplies, PTL

(* A device that has writes under way on an untorn link sees its own last  *)
(* choice on both lists.                                                   *)
THEOREM OwnChoice == Spec => []OwnView
  BY Induction, IInvImplies, PTL

-----------------------------------------------------------------------------
(* The abstract promise.                                                   *)

(* What a link's user sees follows from his last choice once it landed.    *)
StatusFollows ==
    \A l \in Link :
        Status(l) = IF l \in torn THEN "torn"
                    ELSE IF ~AllLanded(l) THEN "changing"
                    ELSE IF l \in wanted THEN "on" ELSE "off"

LEMMA StatusValue == IInv => StatusFollows
<1> SUFFICES ASSUME IInv, NEW l \in Link
             PROVE  Status(l) = IF l \in torn THEN "torn"
                                ELSE IF ~AllLanded(l) THEN "changing"
                                ELSE IF l \in wanted THEN "on" ELSE "off"
  BY DEF StatusFollows
<1>1. l \notin torn /\ AllLanded(l) => \A p \in Halves(l) : p \in tree <=> l \in wanted
  BY IInvImplies DEF LinkIntegrity
<1>2. Halves(l) # {}
  BY DEF Halves
<1> QED BY <1>1, <1>2 DEF Status

(* A tap lands nothing of its own link and leaves the others alone.        *)
LEMMA TapLanding ==
    ASSUME TypeOK, NEW d \in Device, NEW m \in Link, NEW act \in {"attach", "detach"}, Tap(d, m, act)
    PROVE  /\ ~AllLanded(m)'
           /\ \A l \in Link \ {m} : AllLanded(l)' <=> AllLanded(l)
<1>1. PICK w1 \in WriteSet, w2 \in WriteSet :
         /\ TapWrites(m, act) = <<w1, w2>>
         /\ w1.drop \subseteq Halves(m) /\ w2.drop \subseteq Halves(m)
  BY TapShape
<1> DEFINE q == pending[d]
<1>2. q \in Seq(WriteSet) /\ Len(q) \in Nat /\ sent[d] \in Nat /\ sent[d] <= Len(q)
  BY DEF TypeOK
<1>3. /\ pending'[d] = q \o <<w1, w2>>
      /\ \A e \in Device \ {d} : pending'[e] = pending[e]
      /\ sent' = sent
  BY <1>1 DEF TypeOK, Tap, Submit
<1>4. /\ Len(pending'[d]) = Len(q) + 2
      /\ \A i \in 1..Len(q) : pending'[d][i] = q[i]
      /\ pending'[d][Len(q) + 1] = w1
      /\ pending'[d][Len(q) + 2] = w2
  BY <1>2, <1>3
<1> HIDE DEF q
<1>5. ASSUME NEW l \in Link \ {m}, NEW e \in Device, NEW p \in Halves(l)
      PROVE  Landed(e, p)' <=> Landed(e, p)
  <2>1. CASE e # d
    BY <1>3, <2>1 DEF Landed
  <2>2. CASE e = d
    <3>1. p \notin w1.drop /\ p \notin w2.drop
      BY <1>1, HalvesDisjoint
    <3>2. \A i \in (sent[d] + 1)..(Len(q) + 2) :
             \/ i \in (sent[d] + 1)..Len(q) /\ pending'[d][i] = q[i]
             \/ p \notin pending'[d][i].drop
      BY <1>2, <1>4, <3>1
    <3>3. \A i \in (sent[d] + 1)..Len(q) : i \in (sent[d] + 1)..(Len(q) + 2) /\ pending'[d][i] = q[i]
      BY <1>2, <1>4
    <3> QED BY <1>3, <1>4, <2>2, <3>2, <3>3 DEF Landed, q
  <2> QED BY <2>1, <2>2
<1>6. \A l \in Link \ {m} : AllLanded(l)' <=> AllLanded(l)
  BY <1>5 DEF AllLanded
<1>7. ~AllLanded(m)'
  <2>1. Near(m) \in Halves(m)
    BY DEF Halves
  <2>2. PICK i \in (Len(q) + 1)..Len(pending'[d]) : Near(m) \in pending'[d][i].drop
    BY <2>1, TapQueue DEF q
  <2>3. i \in (sent'[d] + 1)..Len(pending'[d])
    BY <1>2, <1>3, <1>4
  <2>4. ~Landed(d, Near(m))'
    BY <2>2, <2>3 DEF Landed
  <2> QED BY <2>1, <2>4 DEF AllLanded
<1> QED BY <1>6, <1>7

(* A tap of Links is the tap of the promise.                               *)
LEMMA TapIsPromised ==
    ASSUME TypeOK, StatusFollows, StatusFollows',
           NEW d \in Device, NEW m \in Link, NEW act \in {"attach", "detach"},
           Tap(d, m, act)
    PROVE  Promise!Tap(m)
<1>1. \A l \in Link \ {m} : /\ AllLanded(l)' <=> AllLanded(l)
                            /\ l \in wanted' <=> l \in wanted
                            /\ l \in torn' <=> l \in torn
  BY TapLanding DEF Tap, Judge
<1>2. \A l \in Link \ {m} : Status(l)' = Status(l)
  BY <1>1 DEF StatusFollows
<1>3. Status(m)' \in {"changing", "torn"}
  BY TapLanding DEF Status
<1>4. [l \in Link |-> Status(l)]' = [[l \in Link |-> Status(l)] EXCEPT ![m] = Status(m)']
  BY <1>2
<1>5. wanted' = wanted \cup {m} \/ wanted' = wanted \ {m}
  BY DEF Tap
<1> QED BY <1>3, <1>4, <1>5 DEF Promise!Tap

(* A step that leaves the choices alone and tears only what is under way   *)
(* is a step of the network.                                               *)
LEMMA NetworkIsPromised ==
    ASSUME StatusFollows, StatusFollows', UNCHANGED wanted,
           \A l \in Link : l \in torn => l \in torn',
           \A l \in Link : l \in torn' \ torn => ~AllLanded(l)
    PROVE  Promise!Network
<1> DEFINE S == [l \in Link |-> Status(l)]
<1>1. \A l \in Link : Status(l)' \in Promise!Status
  BY DEF StatusFollows, Promise!Status
<1>2. ASSUME NEW l \in Link
      PROVE  Promise!MayBecome(l, Status(l), Status(l)')
  <2>1. CASE l \in torn
    BY <2>1 DEF Status, Promise!MayBecome
  <2>2. CASE l \notin torn /\ l \in torn'
    BY <2>2 DEF Status, Promise!MayBecome
  <2>3. CASE l \notin torn /\ l \notin torn'
    BY <2>3 DEF StatusFollows, Promise!MayBecome, Promise!Settled
  <2> QED BY <2>1, <2>2, <2>3
<1>3. S' \in [Link -> Promise!Status]
  BY <1>1
<1>4. \A l \in Link : Promise!MayBecome(l, S[l], S'[l])
  BY <1>2
<1> QED BY <1>3, <1>4 DEF Promise!Network

LEMMA PromiseStep ==
    ASSUME TypeOK, StatusFollows, StatusFollows', [Next]_vars
    PROVE  [Promise!Next]_<<wanted, [l \in Link |-> Status(l)]>>
<1>1. CASE UNCHANGED vars
  BY <1>1 DEF vars, Status, AllLanded, Landed
<1>2. ASSUME NEW d \in Device, NEW m \in Link, NEW act \in {"attach", "detach"}, Tap(d, m, act)
      PROVE  Promise!Next
  BY <1>2, TapIsPromised DEF Promise!Next
<1>3. ASSUME UNCHANGED linkVars
      PROVE  Promise!Next
  BY <1>3, NetworkIsPromised DEF Promise!Next, linkVars
<1>4. ASSUME NEW d \in Device, Kill(d)
      PROVE  Promise!Next
  BY <1>4, NetworkIsPromised DEF Promise!Next, Kill, Tear, AllLanded
<1>5. CASE Next
  BY <1>2, <1>3, <1>4, <1>5, NextCases
<1> QED BY <1>1, <1>5

LEMMA PromiseInit == Init => Promise!Init
<1> SUFFICES ASSUME Init PROVE Promise!Init
  OBVIOUS
<1>1. StatusFollows
  BY IInvInit, StatusValue
<1>2. \A l \in Link : AllLanded(l) /\ l \notin torn
  BY DEF Init, AllLanded, Landed
<1>3. \A l \in Link : Status(l) = Promise!Settled(l)
  BY <1>1, <1>2 DEF StatusFollows, Promise!Settled
<1> QED BY <1>3 DEF Promise!Init, Init

(* The lists of the app implement the promise: to a user, a link is on, off *)
(* or changing into what he asked for, whatever queues and connections do. *)
THEOREM PromiseKept == Spec => KeepsPromise
<1>1. IInv => TypeOK /\ StatusFollows
  BY StatusValue DEF IInv
<1> QED BY <1>1, PromiseInit, PromiseStep, Induction, PTL DEF Spec, KeepsPromise, Promise!Spec

-----------------------------------------------------------------------------
(* Links of an account that one phone holds alone.  What that phone shows  *)
(* of such a link changes by a tap on it or by the death of the app, and   *)
(* by nothing the network does, torn links included.  The club and profile *)
(* screens need this: between an answer and the next tap they do not look. *)

(* Only d has writes on l under way, and none if l was given up.           *)
Alone(d, l) ==
    /\ \A e \in Device \ {d} : ~Busy(e, l)
    /\ l \in torn => ~Busy(d, l)

(* A step without a tap on l; one that is no death of d either.            *)
Passes(l, D) ==
    \/ UNCHANGED vars
    \/ \E e \in Device : Deliver(e)
    \/ \E e \in D : Kill(e)
    \/ \E e \in Device, m \in Link \ {l}, act \in {"attach", "detach"} : Tap(e, m, act)
NoTapOn(l) == Passes(l, Device)
Spares(d, l) == Passes(l, Device \ {d})

LEMMA AloneInit ==
    ASSUME Init, NEW d \in Device, NEW l \in Link
    PROVE  Alone(d, l)
BY DEF Init, Alone, Busy

(* Nothing but a tap on l puts a write on l into a queue.                  *)
LEMMA BusyStays ==
    ASSUME TypeOK, NEW l \in Link, NoTapOn(l), NEW e \in Device, Busy(e, l)'
    PROVE  Busy(e, l)
<1>1. PICK p \in Halves(l) : Covered(pending'[e], p)
  BY DEF Busy, Touches, Covered
<1>2. CASE UNCHANGED vars
  BY <1>1, <1>2, BusyCovered DEF vars
<1>3. ASSUME NEW d \in Device, NEW m \in Link \ {l}, NEW act \in {"attach", "detach"},
             Tap(d, m, act)
      PROVE  Busy(e, l)
  <2>1. p \notin Halves(m)
    BY HalvesDisjoint
  <2>2. Covered(pending[e], p)
    BY <1>1, <1>3, <2>1, TapQueue
  <2> QED BY <2>2, BusyCovered
<1>4. ASSUME NEW d \in Device, Serve(d) \/ Resend(d)
      PROVE  Busy(e, l)
  BY <1>1, <1>4, BusyCovered DEF Serve, Resend
<1>5. ASSUME NEW d \in Device, Ack(d)
      PROVE  Busy(e, l)
  <2>1. pending[d] \in Seq(WriteSet) /\ pending[d] # <<>>
    BY <1>5 DEF TypeOK, Ack
  <2>2. \A i \in 1..Len(Tail(pending[d])) :
           i + 1 \in 1..Len(pending[d]) /\ Tail(pending[d])[i] = pending[d][i + 1]
    BY <2>1
  <2>3. CASE d = e
    <3>1. pending'[e] = Tail(pending[d])
      BY <1>5, <2>3 DEF Ack, TypeOK
    <3>2. Covered(pending[e], p)
      BY <1>1, <2>2, <2>3, <3>1 DEF Covered
    <3> QED BY <3>2, BusyCovered
  <2>4. CASE d # e
    BY <1>1, <1>5, <2>4, BusyCovered DEF Ack, TypeOK
  <2> QED BY <2>3, <2>4
<1>6. ASSUME NEW d \in Device, Kill(d)
      PROVE  Busy(e, l)
  <2>1. CASE d = e
    <3>1. pending'[e] = <<>>
      BY <1>6, <2>1 DEF Kill, Forget, TypeOK
    <3> QED BY <1>1, <3>1 DEF Covered
  <2>2. CASE d # e
    BY <1>1, <1>6, <2>2, BusyCovered DEF Kill, Forget, TypeOK
  <2> QED BY <2>1, <2>2
<1> QED BY <1>2, <1>3, <1>4, <1>5, <1>6 DEF NoTapOn, Passes, Deliver

(* A death tears only what its own phone was writing.                      *)
LEMMA TornBy ==
    ASSUME TypeOK, NEW e \in Device, Kill(e), NEW l \in Link, l \in torn', l \notin torn
    PROVE  Busy(e, l)
<1>1. PICK p \in Halves(l) : ~Landed(e, p)
  BY DEF Kill, Tear
<1>2. PICK i \in (sent[e] + 1)..Len(pending[e]) : p \in pending[e][i].drop
  BY <1>1 DEF Landed
<1>3. sent[e] \in Nat /\ Len(pending[e]) \in Nat
  BY DEF TypeOK
<1>4. i \in 1..Len(pending[e])
  BY <1>3
<1> QED BY <1>2, <1>4 DEF Busy, Touches

(* One phone stays alone with its links while no other taps them.          *)
LEMMA AloneStep ==
    ASSUME TypeOK, NEW d \in Device, NEW l \in Link, Alone(d, l), NoTapOn(l)
    PROVE  Alone(d, l)'
<1>1. \A e \in Device : Busy(e, l)' => Busy(e, l)
  BY BusyStays
<1>2. ASSUME l \in torn', Busy(d, l)' PROVE FALSE
  <2>1. l \notin torn
    BY <1>1, <1>2 DEF Alone
  <2>2. ASSUME NEW e \in Device, Kill(e)
        PROVE  FALSE
    <3>1. e = d
      BY <1>2, <2>1, <2>2, TornBy DEF Alone
    <3>2. pending'[d] = <<>>
      BY <2>2, <3>1 DEF Kill, Forget, TypeOK
    <3> QED BY <1>2, <3>2 DEF Busy
  <2>3. ASSUME NEW e \in Device, Deliver(e)
        PROVE  FALSE
    BY <1>2, <2>1, <2>3 DEF Deliver, linkVars
  <2>4. ASSUME NEW e \in Device, NEW m \in Link \ {l}, NEW act \in {"attach", "detach"},
               Tap(e, m, act)
        PROVE  FALSE
    BY <1>2, <2>1, <2>4 DEF Tap, Judge
  <2> QED BY <1>2, <2>1, <2>2, <2>3, <2>4 DEF NoTapOn, Passes, vars
<1> QED BY <1>1, <1>2 DEF Alone

LEMMA AloneTap ==
    ASSUME TypeOK, NEW d \in Device, NEW l \in Link, Alone(d, l),
           NEW act \in {"attach", "detach"}, Tap(d, l, act)
    PROVE  Alone(d, l)'
<1>1. \A e \in Device \ {d} : pending'[e] = pending[e]
  BY TapQueue
<1>2. ~Raced(d, l)
  BY DEF Alone, Raced
<1> QED BY <1>1, <1>2 DEF Alone, Tap, Judge, Busy

(* Where nobody writes l, a step that taps nothing of l leaves its leaves. *)
LEMMA RestingLeaf ==
    ASSUME TypeOK, NEW l \in Link, NoTapOn(l), NEW p \in Halves(l),
           \A e \in Device : ~Busy(e, l)
    PROVE  p \in tree' <=> p \in tree
<1>1. CASE UNCHANGED vars
  BY <1>1 DEF vars
<1>2. ASSUME NEW e \in Device, NEW m \in Link, NEW act \in {"attach", "detach"}, Tap(e, m, act)
      PROVE  tree' = tree
  BY <1>2, TapQueue
<1>3. ASSUME NEW e \in Device, Serve(e)
      PROVE  p \in tree' <=> p \in tree
  <2> DEFINE i == sent[e] + 1
             w == pending[e][i]
  <2>1. /\ tree' = (tree \ w.drop) \cup w.put
        /\ sent[e] \in Nat /\ Len(pending[e]) \in Nat /\ sent[e] < Len(pending[e])
        /\ pending[e] \in Seq(WriteSet)
    BY <1>3 DEF Serve, Applied, TypeOK
  <2>2. i \in 1..Len(pending[e])
    BY <2>1
  <2>3. w.put \subseteq w.drop
    BY <2>1, <2>2 DEF WriteSet
  <2>4. p \notin w.drop
    BY <2>2 DEF Busy, Touches
  <2> QED BY <2>1, <2>3, <2>4
<1>4. ASSUME NEW e \in Device, Ack(e) \/ Resend(e) \/ Kill(e)
      PROVE  tree' = tree
  BY <1>4 DEF Ack, Resend, Kill, Forget
<1> QED BY <1>1, <1>2, <1>3, <1>4 DEF NoTapOn, Passes, Deliver

(* What the phone shows of its links stays, until it taps or dies.         *)
LEMMA SeenStays ==
    ASSUME IInv, IInv', NEW d \in Device, NEW l \in Link, Alone(d, l), Spares(d, l),
           NEW p \in Halves(l)
    PROVE  Sees(d, p)' <=> Sees(d, p)
<1>1. TypeOK /\ NoTapOn(l)
  BY DEF IInv, Spares, NoTapOn, Passes
<1>2. \A e \in Device : Busy(e, l)' => Busy(e, l)
  BY <1>1, BusyStays
<1>3. CASE Busy(d, l)
  <2>1. l \notin torn /\ Steady(l)
    BY <1>3 DEF Alone, IInv
  <2>2. /\ l \notin torn'
        /\ l \in wanted' <=> l \in wanted
    <3>1. CASE UNCHANGED vars
      BY <2>1, <3>1 DEF vars
    <3>2. ASSUME NEW e \in Device, NEW m \in Link \ {l}, NEW act \in {"attach", "detach"},
                 Tap(e, m, act)
          PROVE  l \notin torn' /\ (l \in wanted' <=> l \in wanted)
      BY <2>1, <3>2 DEF Tap, Judge
    <3>3. ASSUME NEW e \in Device, Deliver(e)
          PROVE  l \notin torn' /\ (l \in wanted' <=> l \in wanted)
      BY <2>1, <3>3 DEF Deliver, linkVars
    <3>4. ASSUME NEW e \in Device \ {d}, Kill(e)
          PROVE  l \notin torn' /\ (l \in wanted' <=> l \in wanted)
      <4>1. ~Busy(e, l)
        BY DEF Alone
      <4>2. wanted' = wanted
        BY <3>4 DEF Kill
      <4> QED BY <1>1, <2>1, <3>4, <4>1, <4>2, TornBy
    <3> QED BY <3>1, <3>2, <3>3, <3>4 DEF Spares, Passes
  <2>3. Steady(l)'
    BY <2>2 DEF IInv
  <2>4. Sees(d, p) <=> l \in wanted
    BY <1>3, <2>1 DEF Steady
  <2>5. CASE Busy(d, l)'
    BY <2>2, <2>3, <2>4, <2>5 DEF Steady
  <2>6. CASE ~Busy(d, l)'
    <3>1. p \in tree' <=> l \in wanted'
      BY <1>2, <2>3, <2>6 DEF Steady, Alone
    <3>2. Sees(d, p)' <=> p \in tree'
      BY <2>6 DEF Busy, Touches, Sees, Latest, LastOn, Covered
    <3> QED BY <2>2, <2>4, <3>1, <3>2
  <2> QED BY <2>5, <2>6
<1>4. CASE ~Busy(d, l)
  <2>1. \A e \in Device : ~Busy(e, l)
    BY <1>4 DEF Alone
  <2>2. p \in tree' <=> p \in tree
    BY <1>1, <2>1, RestingLeaf
  <2>3. Sees(d, p) <=> p \in tree
    BY <1>4, SeesServer, BusyCovered
  <2>4. Sees(d, p)' <=> p \in tree'
    BY <1>2, <1>4 DEF Busy, Touches, Sees, Latest, LastOn, Covered
  <2> QED BY <2>2, <2>3, <2>4
<1> QED BY <1>3, <1>4

(* A tap shows at once.                                                    *)
LEMMA TapSeen ==
    ASSUME TypeOK, NEW d \in Device, NEW l \in Link, NEW act \in {"attach", "detach"},
           Tap(d, l, act), NEW p \in Halves(l)
    PROVE  Sees(d, p)' <=> act = "attach"
BY TapQueue DEF Sees
=============================================================================
