---------------------------- MODULE DatabaseProofs ----------------------------
(***************************************************************************)
(* What the SDK's queues do to any leaf, whatever the app keeps in it: the *)
(* facts the proofs about the screens have in common.                      *)
(***************************************************************************)
EXTENDS Database, TLAPS, WellFoundedInduction

-----------------------------------------------------------------------------
(* The last write on a leaf.                                               *)

(* Induction over the natural numbers, as the library's theorem on         *)
(* well-founded relations gives it.                                        *)
LEMMA LeastElement ==
    ASSUME NEW T \in SUBSET Nat, T # {}
    PROVE  \E m \in T : \A n \in T : m <= n
<1> DEFINE R == OpToRel(<, Nat)
<1>1. IsWellFoundedOn(R, Nat)
  BY NatLessThanWellFounded
<1>2. \A x, y \in Nat : <<y, x>> \in R <=> y < x
  BY DEF OpToRel
<1> HIDE DEF R
<1>3. PICK m \in T : \A y \in T : ~ (<<y, m>> \in R)
  BY <1>1, WFMin
<1>4. \A y \in T : ~ (y < m)
  BY <1>2, <1>3
<1>5. \A y \in T : m <= y
  BY <1>4, SMT
<1> QED BY <1>5

(* A leaf that a queue covers has a last write.                            *)
LEMMA LastExists ==
    ASSUME NEW q, Len(q) \in Nat, NEW p, Covered(q, p)
    PROVE  \E i \in 1..Len(q) : LastOn(q, p, i)
<1> DEFINE n == Len(q)
           T == {k \in 0..n : n - k \in 1..n /\ p \in q[n - k].drop}
<1>1. PICK i \in 1..n : p \in q[i].drop
  BY DEF Covered
<1>2. n - i \in T
  <2>1. n - (n - i) = i /\ n - i \in 0..n
    BY <1>1, SMT
  <2> QED BY <1>1, <2>1, SMT
<1>3. T \in SUBSET Nat /\ T # {}
  <2>1. 0..n \subseteq Nat
    OBVIOUS
  <2>2. T \subseteq 0..n
    OBVIOUS
  <2> QED BY <1>2, <2>1, <2>2
<1>4. PICK m \in T : \A k \in T : m <= k
  BY <1>3, LeastElement
<1>5. n - m \in 1..n /\ p \in q[n - m].drop
  BY <1>4
<1>6. ASSUME NEW j \in (n - m + 1)..n, p \in q[j].drop
      PROVE  FALSE
  <2>1. j \in 1..n /\ n - j \in 0..n /\ n - (n - j) = j /\ n - j < m
    BY <1>4, <1>5, <1>6
  <2>2. n - j \in T
    BY <1>6, <2>1
  <2> QED BY <1>4, <2>1, <2>2
<1>7. LastOn(q, p, n - m)
  BY <1>5, <1>6 DEF LastOn
<1> QED BY <1>5, <1>7

(* A leaf that no queued write clears is seen as soon as one fills it.     *)
LEMMA LatestWhole ==
    ASSUME NEW q, Len(q) \in Nat, NEW p, NEW t,
           \A i \in 1..Len(q) : p \in q[i].drop => p \in q[i].put,
           \/ p \in t
           \/ \E i \in 1..Len(q) : p \in q[i].drop
    PROVE  Latest(q, t, p)
<1>1. CASE Covered(q, p)
  <2> PICK i \in 1..Len(q) : LastOn(q, p, i)
    BY <1>1, LastExists
  <2> QED BY DEF Latest, LastOn
<1>2. CASE ~Covered(q, p)
  BY <1>2 DEF Latest, Covered
<1> QED BY <1>1, <1>2

(* What is seen was put by somebody.                                       *)
LEMMA LatestPut ==
    ASSUME NEW q, NEW p, NEW t, Latest(q, t, p)
    PROVE  p \in t \/ \E i \in 1..Len(q) : p \in q[i].put
BY DEF Latest, LastOn

-----------------------------------------------------------------------------
(* What each operation does to the queues.                                 *)

QueuesOf(W) ==
    /\ pending \in [Device -> Seq(W)]
    /\ sent \in [Device -> Nat]
    /\ \A d \in Device : sent[d] <= Len(pending[d])

LEMMA QueuedWrite ==
    ASSUME NEW W, QueuesOf(W), NEW d \in Device, NEW i \in 1..Len(pending[d])
    PROVE  pending[d][i] \in W
BY DEF QueuesOf

LEMMA EmptyQueues ==
    ASSUME NEW W, pending = [d \in Device |-> <<>>], sent = [d \in Device |-> 0]
    PROVE  QueuesOf(W) /\ \A d \in Device : 1..Len(pending[d]) = {}
<1>1. \A d \in Device : pending[d] = <<>>
  OBVIOUS
<1>2. <<>> \in Seq(W) /\ Len(<<>>) = 0 /\ 1..0 = {}
  OBVIOUS
<1> QED BY <1>1, <1>2 DEF QueuesOf

LEMMA SubmitQueue ==
    ASSUME NEW W, QueuesOf(W), NEW d \in Device, NEW ws \in Seq(W), Submit(d, ws)
    PROVE  /\ QueuesOf(W)'
           /\ tree' = tree /\ sent' = sent
           /\ \A e \in Device \ {d} : pending'[e] = pending[e]
           /\ Len(pending'[d]) = Len(pending[d]) + Len(ws)
           /\ \A i \in 1..Len(pending[d]) : pending'[d][i] = pending[d][i]
           /\ \A i \in 1..Len(ws) : pending'[d][Len(pending[d]) + i] = ws[i]
<1> DEFINE q == pending[d]
           r == q \o ws
<1>1. q \in Seq(W) /\ ws \in Seq(W)
  BY DEF QueuesOf
<1>2. /\ r \in Seq(W)
      /\ Len(r) = Len(q) + Len(ws)
      /\ \A i \in 1..Len(q) : r[i] = q[i]
      /\ \A i \in 1..Len(ws) : r[Len(q) + i] = ws[i]
      /\ Len(q) \in Nat /\ Len(ws) \in Nat
  BY <1>1
<1>3. /\ pending' = [pending EXCEPT ![d] = r]
      /\ tree' = tree /\ sent' = sent
  BY DEF Submit
<1>4. /\ pending'[d] = r
      /\ \A e \in Device \ {d} : pending'[e] = pending[e]
  BY <1>3 DEF QueuesOf
<1> HIDE DEF r
<1>5. pending' \in [Device -> Seq(W)]
  BY <1>2, <1>3 DEF QueuesOf
<1>6. \A e \in Device : sent'[e] <= Len(pending'[e])
  BY <1>2, <1>3, <1>4 DEF QueuesOf
<1>7. QueuesOf(W)'
  BY <1>3, <1>5, <1>6 DEF QueuesOf
<1> QED BY <1>2, <1>3, <1>4, <1>7

LEMMA ServeQueue ==
    ASSUME NEW W, QueuesOf(W), NEW d \in Device, Serve(d)
    PROVE  /\ QueuesOf(W)'
           /\ pending' = pending
           /\ sent[d] + 1 \in 1..Len(pending[d])
           /\ tree' = Applied(tree, pending[d][sent[d] + 1])
           /\ sent'[d] = sent[d] + 1
           /\ \A e \in Device \ {d} : sent'[e] = sent[e]
<1>1. sent[d] \in Nat /\ Len(pending[d]) \in Nat
  BY DEF QueuesOf
<1> DEFINE n == sent[d] + 1
<1>2. n \in Nat /\ n <= Len(pending[d]) /\ n \in 1..Len(pending[d])
  BY <1>1 DEF Serve
<1>3. sent' = [sent EXCEPT ![d] = n]
  BY DEF Serve
<1>4. sent'[d] = n /\ \A e \in Device \ {d} : sent'[e] = sent[e]
  BY <1>3 DEF QueuesOf
<1>5. pending' = pending /\ tree' = Applied(tree, pending[d][n])
  BY DEF Serve
<1>6. QueuesOf(W)'
  <2> HIDE DEF n
  <2>1. sent' \in [Device -> Nat]
    BY <1>2, <1>3 DEF QueuesOf
  <2> QED BY <1>2, <1>4, <1>5, <2>1 DEF QueuesOf
<1> QED BY <1>2, <1>4, <1>5, <1>6

LEMMA AckQueue ==
    ASSUME NEW W, QueuesOf(W), NEW d \in Device, Ack(d)
    PROVE  /\ QueuesOf(W)'
           /\ tree' = tree
           /\ sent[d] \in Nat \ {0} /\ sent'[d] = sent[d] - 1
           /\ Len(pending'[d]) \in Nat /\ Len(pending[d]) = Len(pending'[d]) + 1
           /\ \A i \in 1..Len(pending'[d]) :
                 i + 1 \in 1..Len(pending[d]) /\ pending'[d][i] = pending[d][i + 1]
           /\ \A e \in Device \ {d} : pending'[e] = pending[e] /\ sent'[e] = sent[e]
<1> DEFINE q == pending[d]
           r == Tail(q)
           n == sent[d] - 1
<1>1. sent[d] \in Nat \ {0} /\ q \in Seq(W) /\ sent[d] <= Len(q)
  BY DEF QueuesOf, Ack
<1>2. q # <<>>
  BY <1>1
<1>3. /\ r \in Seq(W)
      /\ Len(r) \in Nat
      /\ Len(q) = Len(r) + 1
      /\ \A i \in 1..Len(r) : i + 1 \in 1..Len(q) /\ r[i] = q[i + 1]
  BY <1>1, <1>2
<1>4. /\ pending' = [pending EXCEPT ![d] = r]
      /\ sent' = [sent EXCEPT ![d] = n]
      /\ tree' = tree
  BY DEF Ack
<1>5. n \in Nat /\ n <= Len(r)
  BY <1>1, <1>3
<1> HIDE DEF r, n
<1>6. /\ pending'[d] = r /\ sent'[d] = n
      /\ \A e \in Device \ {d} : pending'[e] = pending[e] /\ sent'[e] = sent[e]
  BY <1>4 DEF QueuesOf
<1>7. pending' \in [Device -> Seq(W)] /\ sent' \in [Device -> Nat]
  BY <1>3, <1>4, <1>5 DEF QueuesOf
<1>8. QueuesOf(W)'
  BY <1>5, <1>6, <1>7 DEF QueuesOf
<1> QED BY <1>1, <1>3, <1>4, <1>6, <1>8 DEF n

LEMMA ResendQueue ==
    ASSUME NEW W, QueuesOf(W), NEW d \in Device, Resend(d)
    PROVE  /\ QueuesOf(W)'
           /\ tree' = tree /\ pending' = pending
           /\ sent'[d] = 0
           /\ \A e \in Device \ {d} : sent'[e] = sent[e]
<1>1. /\ sent' = [sent EXCEPT ![d] = 0]
      /\ tree' = tree /\ pending' = pending
  BY DEF Resend
<1>2. sent' \in [Device -> Nat] /\ sent'[d] = 0 /\ \A e \in Device \ {d} : sent'[e] = sent[e]
  BY <1>1 DEF QueuesOf
<1>3. \A e \in Device : sent'[e] <= Len(pending'[e])
  BY <1>1, <1>2 DEF QueuesOf
<1> QED BY <1>1, <1>2, <1>3 DEF QueuesOf

LEMMA ForgetQueue ==
    ASSUME NEW W, QueuesOf(W), NEW d \in Device, Forget(d)
    PROVE  /\ QueuesOf(W)'
           /\ tree' = tree
           /\ pending'[d] = <<>> /\ sent'[d] = 0
           /\ \A e \in Device \ {d} : pending'[e] = pending[e] /\ sent'[e] = sent[e]
<1>1. /\ pending' = [pending EXCEPT ![d] = <<>>]
      /\ sent' = [sent EXCEPT ![d] = 0]
      /\ tree' = tree
  BY DEF Forget
<1>2. /\ pending' \in [Device -> Seq(W)] /\ sent' \in [Device -> Nat]
      /\ pending'[d] = <<>> /\ sent'[d] = 0
      /\ \A e \in Device \ {d} : pending'[e] = pending[e] /\ sent'[e] = sent[e]
  BY <1>1 DEF QueuesOf
<1>3. \A e \in Device : sent'[e] <= Len(pending'[e])
  <2> TAKE e \in Device
  <2>1. Len(<<>>) = 0
    OBVIOUS
  <2>2. CASE e = d
    BY <1>2, <2>1, <2>2
  <2>3. CASE e # d
    BY <1>2, <2>3 DEF QueuesOf
  <2> QED BY <2>2, <2>3
<1>4. QueuesOf(W)'
  BY <1>2, <1>3 DEF QueuesOf
<1> QED BY <1>1, <1>2, <1>4

-----------------------------------------------------------------------------
(* Leaves that come with others.                                           *)

(* Some leaf of P is stored or on its way.                                 *)
Mentioned(P) ==
    \/ tree \cap P # {}
    \/ \E d \in Device : \E i \in 1..Len(pending[d]) : pending[d][i].put \cap P # {}

(* A leaf of P never gets ahead of the leaves N: they are stored, or       *)
(* earlier in the queue among what has still to be sent; and while a leaf  *)
(* of P is about, nothing on its way clears one of N.                      *)
Guarded(P, N) ==
    /\ tree \cap P # {} => N \subseteq tree
    /\ \A d \in Device : \A i \in 1..Len(pending[d]) : pending[d][i].put \cap P # {} =>
          N \subseteq tree \/ \E j \in (sent[d] + 1)..i : N \subseteq pending[d][j].put
    /\ Mentioned(P) =>
          \A d \in Device : \A i \in 1..Len(pending[d]) : pending[d][i].drop \cap N \subseteq pending[d][i].put

LEMMA GuardedInit ==
    ASSUME NEW P, NEW N, tree \cap P = {},
           \A d \in Device : 1..Len(pending[d]) = {}
    PROVE  Guarded(P, N)
BY DEF Guarded, Mentioned

(* Who sees a leaf of P sees all of N.                                     *)
LEMMA GuardedSeen ==
    ASSUME NEW W, QueuesOf(W), NEW P, NEW N, Guarded(P, N),
           NEW d \in Device, NEW p \in P, Sees(d, p), NEW n \in N,
           \A w \in W : w.put \subseteq w.drop
    PROVE  Sees(d, n)
<1> DEFINE q == pending[d]
<1>1. q \in Seq(W) /\ Len(q) \in Nat /\ sent[d] \in Nat
  BY DEF QueuesOf
<1>2. p \in tree \/ \E i \in 1..Len(q) : p \in q[i].put
  BY LatestPut DEF Sees
<1>3. Mentioned(P)
  BY <1>2 DEF Mentioned
<1>4. \A i \in 1..Len(q) : n \in q[i].drop => n \in q[i].put
  BY <1>3 DEF Guarded
<1>5. n \in tree \/ \E j \in 1..Len(q) : n \in q[j].put
  <2>1. CASE p \in tree
    BY <2>1 DEF Guarded
  <2>2. CASE \E i \in 1..Len(q) : p \in q[i].put
    <3>1. PICK i \in 1..Len(q) : p \in q[i].put
      BY <2>2
    <3>2. N \subseteq tree \/ \E j \in (sent[d] + 1)..i : N \subseteq q[j].put
      BY <3>1 DEF Guarded
    <3>3. \A j \in (sent[d] + 1)..i : j \in 1..Len(q)
      BY <1>1, <3>1
    <3> QED BY <3>2, <3>3
  <2> QED BY <1>2, <2>1, <2>2
<1>6. \A j \in 1..Len(q) : q[j].put \subseteq q[j].drop
  BY <1>1
<1>7. n \in tree \/ \E j \in 1..Len(q) : n \in q[j].drop
  BY <1>5, <1>6
<1> HIDE DEF q
<1>8. Latest(q, tree, n)
  BY <1>1, <1>4, <1>7, LatestWhole
<1> QED BY <1>8 DEF Sees, q

(* The connection keeps P behind N.                                        *)
LEMMA GuardedServe ==
    ASSUME NEW W, QueuesOf(W), NEW P, NEW N, Guarded(P, N), NEW d \in Device, Serve(d)
    PROVE  Guarded(P, N)'
<1> DEFINE n == sent[d] + 1
           w == pending[d][n]
<1>1. /\ pending' = pending
      /\ n \in 1..Len(pending[d])
      /\ tree' = Applied(tree, w)
      /\ sent'[d] = n
      /\ \A e \in Device \ {d} : sent'[e] = sent[e]
  BY ServeQueue
<1>2. sent \in [Device -> Nat] /\ \A e \in Device : Len(pending[e]) \in Nat
  BY DEF QueuesOf
<1>3. Mentioned(P)' => Mentioned(P)
  BY <1>1 DEF Mentioned, Applied
<1>4. Mentioned(P) /\ N \subseteq tree => N \subseteq tree'
  BY <1>1 DEF Guarded, Applied
<1>5. N \subseteq w.put => N \subseteq tree'
  BY <1>1 DEF Applied
<1>6. w.put \cap P # {} => N \subseteq tree'
  <2>1. SUFFICES ASSUME w.put \cap P # {} PROVE N \subseteq tree'
    OBVIOUS
  <2>2. Mentioned(P)
    BY <1>1, <2>1 DEF Mentioned
  <2>3. N \subseteq tree \/ \E j \in n..n : N \subseteq pending[d][j].put
    BY <1>1, <2>1 DEF Guarded
  <2>4. n..n = {n}
    BY <1>2
  <2> QED BY <1>4, <1>5, <2>2, <2>3, <2>4
<1>7. tree' \cap P # {} => N \subseteq tree'
  <2>1. tree \cap P # {} => Mentioned(P) /\ N \subseteq tree
    BY DEF Guarded, Mentioned
  <2> QED BY <1>1, <1>4, <1>6, <2>1 DEF Applied
<1>8. ASSUME NEW e \in Device, NEW i \in 1..Len(pending'[e]), pending'[e][i].put \cap P # {}
      PROVE  N \subseteq tree' \/ \E j \in (sent'[e] + 1)..i : N \subseteq pending'[e][j].put
  <2>1. i \in 1..Len(pending[e]) /\ pending[e][i].put \cap P # {}
    BY <1>1, <1>8
  <2>2. Mentioned(P)
    BY <2>1 DEF Mentioned
  <2>3. CASE N \subseteq tree
    BY <1>4, <2>2, <2>3
  <2>4. CASE \E j \in (sent[e] + 1)..i : N \subseteq pending[e][j].put
    <3>1. PICK j \in (sent[e] + 1)..i : N \subseteq pending[e][j].put
      BY <2>4
    <3>2. CASE e = d /\ j = n
      BY <1>5, <3>1, <3>2
    <3>3. CASE e = d /\ j # n
      <4>1. j \in (n + 1)..i
        BY <1>2, <3>1, <3>3
      <4> HIDE DEF n
      <4> QED BY <1>1, <3>1, <3>3, <4>1
    <3>4. CASE e # d
      BY <1>1, <3>1, <3>4
    <3> QED BY <3>2, <3>3, <3>4
  <2> QED BY <2>1, <2>3, <2>4 DEF Guarded
<1>9. Mentioned(P)' => \A e \in Device : \A i \in 1..Len(pending'[e]) :
                          pending'[e][i].drop \cap N \subseteq pending'[e][i].put
  BY <1>1, <1>3 DEF Guarded
<1> QED BY <1>7, <1>8, <1>9 DEF Guarded

LEMMA GuardedAck ==
    ASSUME NEW W, QueuesOf(W), NEW P, NEW N, Guarded(P, N), NEW d \in Device, Ack(d)
    PROVE  Guarded(P, N)'
<1>1. /\ tree' = tree
      /\ sent[d] \in Nat \ {0} /\ sent'[d] = sent[d] - 1
      /\ Len(pending'[d]) \in Nat /\ Len(pending[d]) = Len(pending'[d]) + 1
      /\ \A i \in 1..Len(pending'[d]) :
            i + 1 \in 1..Len(pending[d]) /\ pending'[d][i] = pending[d][i + 1]
      /\ \A e \in Device \ {d} : pending'[e] = pending[e] /\ sent'[e] = sent[e]
  BY AckQueue
<1>2. \A e \in Device : \A i \in 1..Len(pending'[e]) :
         \E k \in 1..Len(pending[e]) : pending'[e][i] = pending[e][k]
  BY <1>1
<1>3. Mentioned(P)' => Mentioned(P)
  <2>1. SUFFICES ASSUME NEW e \in Device, NEW i \in 1..Len(pending'[e]),
                        pending'[e][i].put \cap P # {}
                 PROVE  Mentioned(P)
    BY <1>1 DEF Mentioned
  <2>2. PICK k \in 1..Len(pending[e]) : pending'[e][i] = pending[e][k]
    BY <1>2
  <2> QED BY <2>1, <2>2 DEF Mentioned
<1>4. ASSUME NEW e \in Device, NEW i \in 1..Len(pending'[e]), pending'[e][i].put \cap P # {}
      PROVE  N \subseteq tree' \/ \E j \in (sent'[e] + 1)..i : N \subseteq pending'[e][j].put
  <2>1. CASE e = d
    <3>1. N \subseteq tree \/ \E j \in (sent[d] + 1)..(i + 1) : N \subseteq pending[d][j].put
      BY <1>1, <1>4, <2>1 DEF Guarded
    <3>2. ASSUME NEW j \in (sent[d] + 1)..(i + 1), N \subseteq pending[d][j].put
          PROVE  \E k \in (sent'[d] + 1)..i : N \subseteq pending'[d][k].put
      <4>1. j - 1 \in (sent'[d] + 1)..i /\ j - 1 \in 1..Len(pending'[d]) /\ (j - 1) + 1 = j
        BY <1>1, <2>1
      <4> QED BY <1>1, <3>2, <4>1
    <3> QED BY <1>1, <2>1, <3>1, <3>2
  <2>2. CASE e # d
    BY <1>1, <1>4, <2>2 DEF Guarded
  <2> QED BY <2>1, <2>2
<1>5. Mentioned(P)' => \A e \in Device : \A i \in 1..Len(pending'[e]) :
                          pending'[e][i].drop \cap N \subseteq pending'[e][i].put
  BY <1>2, <1>3 DEF Guarded
<1>6. tree' \cap P # {} => N \subseteq tree'
  BY <1>1 DEF Guarded
<1> QED BY <1>4, <1>5, <1>6 DEF Guarded

LEMMA GuardedResend ==
    ASSUME NEW W, QueuesOf(W), NEW P, NEW N, Guarded(P, N), NEW d \in Device, Resend(d)
    PROVE  Guarded(P, N)'
<1>1. /\ tree' = tree /\ pending' = pending
      /\ sent'[d] = 0
      /\ \A e \in Device \ {d} : sent'[e] = sent[e]
      /\ sent[d] \in Nat
  BY ResendQueue DEF QueuesOf
<1>2. Mentioned(P)' => Mentioned(P)
  BY <1>1 DEF Mentioned
<1>3. ASSUME NEW e \in Device, NEW i \in 1..Len(pending[e]), NEW j \in (sent[e] + 1)..i
      PROVE  j \in (sent'[e] + 1)..i
  BY <1>1
<1> QED BY <1>1, <1>2, <1>3 DEF Guarded

(* So does the death of the app.                                           *)
LEMMA GuardedForget ==
    ASSUME NEW W, QueuesOf(W), NEW P, NEW N, Guarded(P, N), NEW d \in Device, Forget(d)
    PROVE  Guarded(P, N)'
<1>1. /\ tree' = tree
      /\ pending'[d] = <<>>
      /\ \A e \in Device \ {d} : pending'[e] = pending[e] /\ sent'[e] = sent[e]
  BY ForgetQueue
<1>2. \A e \in Device : \A i \in 1..Len(pending'[e]) :
         e # d /\ i \in 1..Len(pending[e]) /\ pending'[e][i] = pending[e][i]
  <2> TAKE e \in Device
  <2> TAKE i \in 1..Len(pending'[e])
  <2>1. e # d
    <3>1. 1..Len(<<>>) = {}
      OBVIOUS
    <3> QED BY <1>1, <3>1
  <2> QED BY <1>1, <2>1
<1>3. Mentioned(P)' => Mentioned(P)
  BY <1>1, <1>2 DEF Mentioned
<1> QED BY <1>1, <1>2, <1>3 DEF Guarded

(* And so does a tap whose own writes keep to the order: none clears a     *)
(* leaf of N, and one of P is put only when N is stored or before it in    *)
(* the queue.                                                              *)
LEMMA GuardedSubmit ==
    ASSUME NEW W, QueuesOf(W), NEW P, NEW N, Guarded(P, N), NEW d \in Device,
           NEW ws \in Seq(W), Submit(d, ws),
           \A k \in 1..Len(ws) : ws[k].put \cap P # {} =>
              \/ N \subseteq tree
              \/ \E j \in (sent[d] + 1)..Len(pending[d]) : N \subseteq pending[d][j].put
              \/ \E j \in 1..k : N \subseteq ws[j].put,
           Mentioned(P)' =>
              /\ \A k \in 1..Len(ws) : ws[k].drop \cap N \subseteq ws[k].put
              /\ \A e \in Device : \A i \in 1..Len(pending[e]) :
                    pending[e][i].drop \cap N \subseteq pending[e][i].put
    PROVE  Guarded(P, N)'
<1> DEFINE m == Len(pending[d])
<1>1. /\ tree' = tree /\ sent' = sent
      /\ \A e \in Device \ {d} : pending'[e] = pending[e]
      /\ Len(pending'[d]) = m + Len(ws)
      /\ \A i \in 1..m : pending'[d][i] = pending[d][i]
      /\ \A i \in 1..Len(ws) : pending'[d][m + i] = ws[i]
  BY SubmitQueue
<1>2. m \in Nat /\ Len(ws) \in Nat /\ sent[d] \in Nat /\ sent[d] <= m
  BY DEF QueuesOf
<1> HIDE DEF m
<1>3. \A i \in 1..Len(pending'[d]) : i \in 1..m \/ (i - m \in 1..Len(ws) /\ m + (i - m) = i)
  BY <1>1, <1>2
<1>4. ASSUME NEW e \in Device, NEW i \in 1..Len(pending'[e]), pending'[e][i].put \cap P # {}
      PROVE  N \subseteq tree' \/ \E j \in (sent'[e] + 1)..i : N \subseteq pending'[e][j].put
  <2>1. CASE e # d
    BY <1>1, <1>4, <2>1 DEF Guarded
  <2>2. CASE e = d /\ i \in 1..m
    <3>1. N \subseteq tree \/ \E j \in (sent[d] + 1)..i : N \subseteq pending[d][j].put
      BY <1>1, <1>4, <2>2 DEF Guarded, m
    <3>2. \A j \in (sent[d] + 1)..i : j \in 1..m
      BY <1>2, <2>2
    <3> QED BY <1>1, <2>2, <3>1, <3>2
  <2>3. CASE e = d /\ i \notin 1..m
    <3>1. i - m \in 1..Len(ws) /\ pending'[d][i] = ws[i - m]
      BY <1>1, <1>3, <2>3
    <3>2. \/ N \subseteq tree
          \/ \E j \in (sent[d] + 1)..m : N \subseteq pending[d][j].put
          \/ \E j \in 1..(i - m) : N \subseteq ws[j].put
      BY <1>4, <2>3, <3>1 DEF m
    <3>3. ASSUME NEW j \in (sent[d] + 1)..m, N \subseteq pending[d][j].put
          PROVE  \E k \in (sent'[d] + 1)..i : N \subseteq pending'[d][k].put
      <4>1. j \in 1..m /\ j \in (sent'[d] + 1)..i
        BY <1>1, <1>2, <3>1
      <4> QED BY <1>1, <3>3, <4>1
    <3>4. ASSUME NEW j \in 1..(i - m), N \subseteq ws[j].put
          PROVE  \E k \in (sent'[d] + 1)..i : N \subseteq pending'[d][k].put
      <4>1. m + j \in (sent'[d] + 1)..i /\ j \in 1..Len(ws)
        BY <1>1, <1>2, <3>1
      <4> QED BY <1>1, <3>4, <4>1
    <3> QED BY <1>1, <2>3, <3>2, <3>3, <3>4
  <2> QED BY <2>1, <2>2, <2>3
<1>5. Mentioned(P)' => \A e \in Device : \A i \in 1..Len(pending'[e]) :
                          pending'[e][i].drop \cap N \subseteq pending'[e][i].put
  <2> SUFFICES ASSUME Mentioned(P)', NEW e \in Device, NEW i \in 1..Len(pending'[e])
               PROVE  pending'[e][i].drop \cap N \subseteq pending'[e][i].put
    OBVIOUS
  <2>1. CASE e # d
    BY <1>1, <2>1
  <2>2. CASE e = d /\ i \in 1..m
    BY <1>1, <2>2 DEF m
  <2>3. CASE e = d /\ i \notin 1..m
    <3>1. i - m \in 1..Len(ws) /\ pending'[d][i] = ws[i - m]
      BY <1>1, <1>3, <2>3
    <3> QED BY <2>3, <3>1
  <2> QED BY <2>1, <2>2, <2>3
<1>6. tree' \cap P # {} => N \subseteq tree'
  BY <1>1 DEF Guarded
<1> QED BY <1>4, <1>5, <1>6 DEF Guarded

(* A tap that puts no leaf of P brings none about.                         *)
LEMMA MentionedAside ==
    ASSUME NEW W, QueuesOf(W), NEW P, NEW d \in Device, NEW ws \in Seq(W), Submit(d, ws),
           \A k \in 1..Len(ws) : ws[k].put \cap P = {}
    PROVE  Mentioned(P)' => Mentioned(P)
<1> DEFINE m == Len(pending[d])
<1>1. /\ tree' = tree
      /\ \A e \in Device \ {d} : pending'[e] = pending[e]
      /\ Len(pending'[d]) = m + Len(ws)
      /\ \A i \in 1..m : pending'[d][i] = pending[d][i]
      /\ \A i \in 1..Len(ws) : pending'[d][m + i] = ws[i]
  BY SubmitQueue
<1>2. m \in Nat /\ Len(ws) \in Nat
  BY DEF QueuesOf
<1> HIDE DEF m
<1>3. ASSUME NEW e \in Device, NEW i \in 1..Len(pending'[e]), pending'[e][i].put \cap P # {}
      PROVE  i \in 1..Len(pending[e]) /\ pending[e][i].put \cap P # {}
  <2>1. CASE e # d
    BY <1>1, <1>3, <2>1
  <2>2. CASE e = d /\ i \in 1..m
    BY <1>1, <1>3, <2>2 DEF m
  <2>3. CASE e = d /\ i \notin 1..m
    <3>1. i - m \in 1..Len(ws) /\ m + (i - m) = i
      BY <1>1, <1>2, <2>3
    <3> QED BY <1>1, <1>3, <2>3, <3>1
  <2> QED BY <2>1, <2>2, <2>3
<1> QED BY <1>1, <1>3 DEF Mentioned

(* So it keeps the order if it clears no leaf of N, or if there is no leaf *)
(* of P.                                                                   *)
LEMMA GuardedNever ==
    ASSUME NEW W, QueuesOf(W), NEW P, NEW N, ~Mentioned(P), NEW d \in Device,
           NEW ws \in Seq(W), Submit(d, ws),
           \A k \in 1..Len(ws) : ws[k].put \cap P = {}
    PROVE  Guarded(P, N)'
<1>1. ~Mentioned(P)'
  BY MentionedAside
<1> QED BY <1>1 DEF Guarded, Mentioned

LEMMA GuardedAside ==
    ASSUME NEW W, QueuesOf(W), NEW P, NEW N, Guarded(P, N), NEW d \in Device,
           NEW ws \in Seq(W), Submit(d, ws),
           \A k \in 1..Len(ws) : ws[k].put \cap P = {} /\ ws[k].drop \cap N \subseteq ws[k].put
    PROVE  Guarded(P, N)'
<1>1. Mentioned(P)' => Mentioned(P)
  BY MentionedAside
<1>2. Mentioned(P) => \A e \in Device : \A i \in 1..Len(pending[e]) :
                         pending[e][i].drop \cap N \subseteq pending[e][i].put
  BY DEF Guarded
<1> QED BY <1>1, <1>2, GuardedSubmit

LEMMA GuardedSteady ==
    ASSUME NEW P, NEW N, Guarded(P, N), UNCHANGED <<tree, pending, sent>>
    PROVE  Guarded(P, N)'
BY DEF Guarded, Mentioned

-----------------------------------------------------------------------------
(* Leaves that stay.                                                       *)

(* Where d's queue clears leaf p, it fills it at once or later.            *)
Refilled(d, p) ==
    \A i \in 1..Len(pending[d]) : p \in pending[d][i].drop =>
        \E j \in i..Len(pending[d]) : p \in pending[d][j].put

(* d will send a write that fills p.                                       *)
Brings(d, p) == \E i \in (sent[d] + 1)..Len(pending[d]) : p \in pending[d][i].put

(* Leaf p is stored or will be, and no queue leaves it cleared.            *)
Kept(p) ==
    /\ \A d \in Device : Refilled(d, p)
    /\ p \in tree \/ \E d \in Device : Brings(d, p)

LEMMA KeptStored ==
    ASSUME NEW p \in tree, \A d \in Device : 1..Len(pending[d]) = {}
    PROVE  Kept(p)
BY DEF Kept, Refilled

LEMMA KeptSteady ==
    ASSUME NEW p, Kept(p), UNCHANGED <<tree, pending, sent>>
    PROVE  Kept(p)'
BY DEF Kept, Refilled, Brings

(* Once everything on it has landed, it is stored.                         *)
LEMMA KeptLanded ==
    ASSUME NEW W, QueuesOf(W), \A w \in W : w.put \subseteq w.drop,
           NEW p, Kept(p), \A d \in Device : Landed(d, p)
    PROVE  p \in tree
<1>1. ASSUME NEW d \in Device, Brings(d, p) PROVE FALSE
  <2>1. PICK i \in (sent[d] + 1)..Len(pending[d]) : p \in pending[d][i].put
    BY <1>1 DEF Brings
  <2>2. i \in 1..Len(pending[d])
    BY <2>1 DEF QueuesOf
  <2>3. p \in pending[d][i].drop
    BY <2>1, <2>2, QueuedWrite
  <2> QED BY <2>1, <2>3 DEF Landed
<1> QED BY <1>1 DEF Kept

(* The connection: what d will send it still will, unless it just did.     *)
LEMMA BringsServe ==
    ASSUME NEW W, QueuesOf(W), NEW p, NEW d \in Device, Serve(d)
    PROVE  \A e \in Device : Brings(e, p) => Brings(e, p)' \/ p \in tree'
<1> DEFINE n == sent[d] + 1
           w == pending[d][n]
<1>1. /\ pending' = pending
      /\ n \in 1..Len(pending[d])
      /\ tree' = Applied(tree, w)
      /\ sent'[d] = n
      /\ \A e \in Device \ {d} : sent'[e] = sent[e]
  BY ServeQueue
<1>2. n \in Nat /\ Len(pending[d]) \in Nat
  BY DEF QueuesOf
<1> SUFFICES ASSUME NEW e \in Device, Brings(e, p), p \notin tree' PROVE Brings(e, p)'
  OBVIOUS
<1>3. PICK i \in (sent[e] + 1)..Len(pending[e]) : p \in pending[e][i].put
  BY DEF Brings
<1>4. CASE e = d
  <2>1. i # n
    BY <1>1, <1>3, <1>4 DEF Applied
  <2>2. i \in (n + 1)..Len(pending[d])
    BY <1>2, <1>3, <1>4, <2>1
  <2> HIDE DEF n
  <2> QED BY <1>1, <1>3, <1>4, <2>2 DEF Brings
<1>5. CASE e # d
  BY <1>1, <1>3, <1>5 DEF Brings
<1> QED BY <1>4, <1>5

LEMMA BringsAck ==
    ASSUME NEW W, QueuesOf(W), NEW p, NEW d \in Device, Ack(d)
    PROVE  \A e \in Device : Brings(e, p) => Brings(e, p)'
<1>1. /\ sent[d] \in Nat \ {0} /\ sent'[d] = sent[d] - 1
      /\ Len(pending'[d]) \in Nat /\ Len(pending[d]) = Len(pending'[d]) + 1
      /\ \A i \in 1..Len(pending'[d]) :
            i + 1 \in 1..Len(pending[d]) /\ pending'[d][i] = pending[d][i + 1]
      /\ \A e \in Device \ {d} : pending'[e] = pending[e] /\ sent'[e] = sent[e]
  BY AckQueue
<1> SUFFICES ASSUME NEW e \in Device, Brings(e, p) PROVE Brings(e, p)'
  OBVIOUS
<1>2. PICK i \in (sent[e] + 1)..Len(pending[e]) : p \in pending[e][i].put
  BY DEF Brings
<1>3. CASE e = d
  <2>1. /\ i - 1 \in (sent'[d] + 1)..Len(pending'[d]) /\ i - 1 \in 1..Len(pending'[d])
        /\ (i - 1) + 1 = i
    BY <1>1, <1>2, <1>3
  <2>2. pending'[d][i - 1] = pending[d][i]
    BY <1>1, <2>1
  <2> QED BY <1>2, <1>3, <2>1, <2>2 DEF Brings
<1>4. CASE e # d
  BY <1>1, <1>2, <1>4 DEF Brings
<1> QED BY <1>3, <1>4

LEMMA BringsResend ==
    ASSUME NEW W, QueuesOf(W), NEW p, NEW d \in Device, Resend(d)
    PROVE  \A e \in Device : Brings(e, p) => Brings(e, p)'
<1>1. /\ pending' = pending
      /\ sent'[d] = 0 /\ sent[d] \in Nat
      /\ \A e \in Device \ {d} : sent'[e] = sent[e]
  BY ResendQueue DEF QueuesOf
<1> SUFFICES ASSUME NEW e \in Device, Brings(e, p) PROVE Brings(e, p)'
  OBVIOUS
<1>2. PICK i \in (sent[e] + 1)..Len(pending[e]) : p \in pending[e][i].put
  BY DEF Brings
<1>3. i \in (sent'[e] + 1)..Len(pending'[e])
  BY <1>1, <1>2
<1> QED BY <1>1, <1>2, <1>3 DEF Brings

LEMMA KeptServe ==
    ASSUME NEW W, QueuesOf(W), NEW p, Kept(p), NEW d \in Device, Serve(d)
    PROVE  Kept(p)'
<1> DEFINE n == sent[d] + 1
           w == pending[d][n]
<1>1. /\ pending' = pending
      /\ n \in 1..Len(pending[d])
      /\ tree' = Applied(tree, w)
      /\ sent'[d] = n
  BY ServeQueue
<1>2. n \in Nat /\ Len(pending[d]) \in Nat
  BY DEF QueuesOf
<1>3. \A e \in Device : Refilled(e, p)'
  BY <1>1 DEF Kept, Refilled
<1>4. CASE p \in tree'
  BY <1>3, <1>4 DEF Kept
<1>5. CASE p \in tree /\ p \notin tree'
  <2>1. p \in w.drop /\ p \notin w.put
    BY <1>1, <1>5 DEF Applied
  <2>2. PICK j \in n..Len(pending[d]) : p \in pending[d][j].put
    BY <1>1, <2>1 DEF Kept, Refilled
  <2>3. j # n
    BY <2>1, <2>2
  <2> HIDE DEF n
  <2>4. j \in (n + 1)..Len(pending[d])
    BY <1>2, <2>2, <2>3
  <2>5. Brings(d, p)'
    BY <1>1, <2>2, <2>4 DEF Brings
  <2> QED BY <1>3, <2>5 DEF Kept
<1>6. CASE p \notin tree /\ p \notin tree'
  BY <1>3, <1>6, BringsServe DEF Kept
<1> QED BY <1>4, <1>5, <1>6

LEMMA KeptAck ==
    ASSUME NEW W, QueuesOf(W), NEW p, Kept(p), NEW d \in Device, Ack(d)
    PROVE  Kept(p)'
<1>1. /\ tree' = tree
      /\ Len(pending'[d]) \in Nat /\ Len(pending[d]) = Len(pending'[d]) + 1
      /\ \A i \in 1..Len(pending'[d]) :
            i + 1 \in 1..Len(pending[d]) /\ pending'[d][i] = pending[d][i + 1]
      /\ \A e \in Device \ {d} : pending'[e] = pending[e] /\ sent'[e] = sent[e]
  BY AckQueue
<1>2. Refilled(d, p)'
  <2> SUFFICES ASSUME NEW i \in 1..Len(pending'[d]), p \in pending'[d][i].drop
               PROVE  \E j \in i..Len(pending'[d]) : p \in pending'[d][j].put
    BY DEF Refilled
  <2>1. i + 1 \in 1..Len(pending[d]) /\ p \in pending[d][i + 1].drop
    BY <1>1
  <2>2. PICK j \in (i + 1)..Len(pending[d]) : p \in pending[d][j].put
    BY <2>1 DEF Kept, Refilled
  <2>3. /\ j - 1 \in i..Len(pending'[d]) /\ j - 1 \in 1..Len(pending'[d])
        /\ (j - 1) + 1 = j
    BY <1>1
  <2>4. pending'[d][j - 1] = pending[d][j]
    BY <1>1, <2>3
  <2> QED BY <2>2, <2>3, <2>4
<1>3. \A e \in Device \ {d} : Refilled(e, p)'
  BY <1>1 DEF Kept, Refilled
<1> QED BY <1>1, <1>2, <1>3, BringsAck DEF Kept

LEMMA KeptResend ==
    ASSUME NEW W, QueuesOf(W), NEW p, Kept(p), NEW d \in Device, Resend(d)
    PROVE  Kept(p)'
<1>1. tree' = tree /\ pending' = pending
  BY DEF Resend
<1> QED BY <1>1, BringsResend DEF Kept, Refilled

(* A death spares it where its own queue had no more to say.               *)
LEMMA KeptForget ==
    ASSUME NEW W, QueuesOf(W), \A w \in W : w.put \subseteq w.drop,
           NEW p, Kept(p), NEW d \in Device, Forget(d), Landed(d, p)
    PROVE  Kept(p)'
<1>1. /\ tree' = tree
      /\ pending'[d] = <<>>
      /\ \A e \in Device \ {d} : pending'[e] = pending[e] /\ sent'[e] = sent[e]
  BY ForgetQueue
<1>2. 1..Len(<<>>) = {}
  OBVIOUS
<1>3. \A e \in Device : Refilled(e, p)'
  BY <1>1, <1>2 DEF Kept, Refilled
<1>4. ~Brings(d, p)
  <2> SUFFICES ASSUME NEW i \in (sent[d] + 1)..Len(pending[d]), p \in pending[d][i].put
               PROVE  FALSE
    BY DEF Brings
  <2>1. i \in 1..Len(pending[d])
    BY DEF QueuesOf
  <2>2. p \in pending[d][i].drop
    BY <2>1, QueuedWrite
  <2> QED BY <2>2 DEF Landed
<1>5. \A e \in Device : Brings(e, p) => Brings(e, p)'
  BY <1>1, <1>4 DEF Brings
<1> QED BY <1>1, <1>3, <1>5 DEF Kept

(* What a tap's writes ws do to p: they do not leave it cleared.           *)
LEMMA RefilledSubmit ==
    ASSUME NEW W, QueuesOf(W), NEW p, NEW d \in Device, NEW ws \in Seq(W), Submit(d, ws),
           \A k \in 1..Len(ws) : p \in ws[k].drop => \E j \in k..Len(ws) : p \in ws[j].put
    PROVE  /\ Refilled(d, p) \/ (\E k \in 1..Len(ws) : p \in ws[k].put) => Refilled(d, p)'
           /\ (\E k \in 1..Len(ws) : p \in ws[k].put) => Brings(d, p)'
           /\ \A e \in Device \ {d} : Refilled(e, p) => Refilled(e, p)'
           /\ \A e \in Device : Brings(e, p) => Brings(e, p)'
<1> DEFINE m == Len(pending[d])
<1>1. /\ tree' = tree /\ sent' = sent
      /\ \A e \in Device \ {d} : pending'[e] = pending[e]
      /\ Len(pending'[d]) = m + Len(ws)
      /\ \A i \in 1..m : pending'[d][i] = pending[d][i]
      /\ \A i \in 1..Len(ws) : pending'[d][m + i] = ws[i]
  BY SubmitQueue
<1>2. m \in Nat /\ Len(ws) \in Nat /\ sent[d] \in Nat /\ sent[d] <= m
  BY DEF QueuesOf
<1>3. \A i \in 1..m : pending[d][i] = pending'[d][i]
  BY <1>1
<1>4. \A i \in (sent[d] + 1)..m : i \in 1..m /\ i \in (sent'[d] + 1)..Len(pending'[d])
  BY <1>1, <1>2
<1>5. \A e \in Device : Brings(e, p) => Brings(e, p)'
  <2> SUFFICES ASSUME NEW e \in Device, Brings(e, p) PROVE Brings(e, p)'
    OBVIOUS
  <2>1. PICK i \in (sent[e] + 1)..Len(pending[e]) : p \in pending[e][i].put
    BY DEF Brings
  <2>2. CASE e = d
    <3>1. i \in 1..m /\ i \in (sent'[d] + 1)..Len(pending'[d])
      BY <1>4, <2>1, <2>2
    <3> QED BY <1>3, <2>1, <2>2, <3>1 DEF Brings
  <2>3. CASE e # d
    BY <1>1, <2>1, <2>3 DEF Brings
  <2> QED BY <2>2, <2>3
<1>6. \A e \in Device \ {d} : Refilled(e, p) => Refilled(e, p)'
  BY <1>1 DEF Refilled
<1>7. (\E k \in 1..Len(ws) : p \in ws[k].put) => Brings(d, p)'
  <2> SUFFICES ASSUME NEW k \in 1..Len(ws), p \in ws[k].put PROVE Brings(d, p)'
    OBVIOUS
  <2>1. m + k \in (sent'[d] + 1)..Len(pending'[d])
    BY <1>1, <1>2
  <2> QED BY <1>1, <2>1 DEF Brings
<1>8. ASSUME Refilled(d, p) \/ (\E k \in 1..Len(ws) : p \in ws[k].put) PROVE Refilled(d, p)'
  <2> SUFFICES ASSUME NEW i \in 1..Len(pending'[d]), p \in pending'[d][i].drop
               PROVE  \E j \in i..Len(pending'[d]) : p \in pending'[d][j].put
    BY DEF Refilled
  <2> HIDE DEF m
  <2>1. CASE i \in 1..m /\ \E k \in 1..Len(ws) : p \in ws[k].put
    <3>1. PICK k \in 1..Len(ws) : p \in ws[k].put
      BY <2>1
    <3>2. m + k \in i..Len(pending'[d])
      BY <1>1, <1>2, <2>1
    <3> QED BY <1>1, <3>1, <3>2
  <2>2. CASE i \in 1..m /\ ~\E k \in 1..Len(ws) : p \in ws[k].put
    <3>1. PICK j \in i..m : p \in pending[d][j].put
      BY <1>1, <1>8, <2>2 DEF Refilled, m
    <3>2. j \in 1..m /\ j \in i..Len(pending'[d])
      BY <1>1, <1>2, <2>2
    <3> QED BY <1>1, <3>1, <3>2
  <2>3. CASE i \notin 1..m
    <3>1. i - m \in 1..Len(ws) /\ m + (i - m) = i
      BY <1>1, <1>2, <2>3
    <3>2. p \in ws[i - m].drop
      BY <1>1, <3>1
    <3>3. PICK j \in (i - m)..Len(ws) : p \in ws[j].put
      BY <3>1, <3>2
    <3>4. j \in 1..Len(ws) /\ m + j \in i..Len(pending'[d])
      BY <1>1, <1>2, <3>1
    <3> QED BY <1>1, <3>3, <3>4
  <2> QED BY <2>1, <2>2, <2>3
<1> QED BY <1>5, <1>6, <1>7, <1>8

LEMMA KeptSubmit ==
    ASSUME NEW W, QueuesOf(W), NEW p, Kept(p), NEW d \in Device, NEW ws \in Seq(W), Submit(d, ws),
           \A k \in 1..Len(ws) : p \in ws[k].drop => \E j \in k..Len(ws) : p \in ws[j].put
    PROVE  Kept(p)'
<1>1. /\ \A e \in Device : Refilled(e, p)'
      /\ \A e \in Device : Brings(e, p) => Brings(e, p)'
  BY RefilledSubmit DEF Kept
<1>2. tree' = tree
  BY DEF Submit
<1> QED BY <1>1, <1>2 DEF Kept

(* A tap that fills p when no other queue leaves it cleared keeps it.      *)
LEMMA KeptPut ==
    ASSUME NEW W, QueuesOf(W), NEW p, NEW d \in Device, NEW ws \in Seq(W), Submit(d, ws),
           \A k \in 1..Len(ws) : p \in ws[k].drop => \E j \in k..Len(ws) : p \in ws[j].put,
           \E k \in 1..Len(ws) : p \in ws[k].put,
           \A e \in Device \ {d} : Refilled(e, p)
    PROVE  Kept(p)'
<1>1. (\A e \in Device : Refilled(e, p)') /\ Brings(d, p)'
  BY RefilledSubmit
<1> QED BY <1>1 DEF Kept

-----------------------------------------------------------------------------
(* Leaves that nobody clears.                                              *)

Uncleared(p) ==
    \A d \in Device : \A i \in 1..Len(pending[d]) :
        p \in pending[d][i].drop => p \in pending[d][i].put

(* As far as d goes, p is stored or will be.                               *)
Due(d, p) == p \in tree \/ Brings(d, p)

LEMMA DueSteady ==
    ASSUME NEW p, UNCHANGED <<tree, pending, sent>>
    PROVE  /\ Uncleared(p) => Uncleared(p)'
           /\ \A d \in Device : Due(d, p) => Due(d, p)'
BY DEF Uncleared, Due, Brings

LEMMA DueLanded ==
    ASSUME NEW W, QueuesOf(W), \A w \in W : w.put \subseteq w.drop,
           NEW p, NEW d \in Device, Due(d, p), Landed(d, p)
    PROVE  p \in tree
<1> SUFFICES ASSUME NEW i \in (sent[d] + 1)..Len(pending[d]), p \in pending[d][i].put
             PROVE  FALSE
  BY DEF Due, Brings
<1>1. i \in 1..Len(pending[d])
  BY DEF QueuesOf
<1>2. p \in pending[d][i].drop
  BY <1>1, QueuedWrite
<1> QED BY <1>2 DEF Landed

(* Its own device sees it.                                                 *)
LEMMA DueSeen ==
    ASSUME NEW W, QueuesOf(W), \A w \in W : w.put \subseteq w.drop,
           NEW p, Uncleared(p), NEW d \in Device, Due(d, p)
    PROVE  Sees(d, p)
<1> DEFINE q == pending[d]
<1>1. Len(q) \in Nat /\ sent[d] \in Nat
  BY DEF QueuesOf
<1>2. \A i \in 1..Len(q) : p \in q[i].drop => p \in q[i].put
  BY DEF Uncleared
<1>3. p \in tree \/ \E i \in 1..Len(q) : p \in q[i].drop
  <2> SUFFICES ASSUME NEW i \in (sent[d] + 1)..Len(q), p \in q[i].put
               PROVE  \E j \in 1..Len(q) : p \in q[j].drop
    BY DEF Due, Brings
  <2>1. i \in 1..Len(q)
    BY <1>1
  <2>2. p \in q[i].drop
    BY <2>1, QueuedWrite
  <2> QED BY <2>1, <2>2
<1> HIDE DEF q
<1>4. Latest(q, tree, p)
  BY <1>1, <1>2, <1>3, LatestWhole
<1> QED BY <1>4 DEF Sees, q

LEMMA DueDelivered ==
    ASSUME NEW W, QueuesOf(W), NEW p, Uncleared(p), NEW d \in Device,
           Serve(d) \/ Ack(d) \/ Resend(d)
    PROVE  /\ Uncleared(p)'
           /\ \A e \in Device : Due(e, p) => Due(e, p)'
<1>1. CASE Serve(d)
  <2>1. /\ pending' = pending
        /\ sent[d] + 1 \in 1..Len(pending[d])
        /\ tree' = Applied(tree, pending[d][sent[d] + 1])
    BY <1>1, ServeQueue
  <2>2. p \in tree => p \in tree'
    BY <2>1 DEF Uncleared, Applied
  <2> QED BY <1>1, <2>1, <2>2, BringsServe DEF Uncleared, Due
<1>2. CASE Ack(d)
  <2>1. /\ tree' = tree
        /\ \A i \in 1..Len(pending'[d]) :
              i + 1 \in 1..Len(pending[d]) /\ pending'[d][i] = pending[d][i + 1]
        /\ \A e \in Device \ {d} : pending'[e] = pending[e]
    BY <1>2, AckQueue
  <2>2. \A e \in Device : \A i \in 1..Len(pending'[e]) :
           \E k \in 1..Len(pending[e]) : pending'[e][i] = pending[e][k]
    BY <2>1
  <2>3. Uncleared(p)'
    BY <2>2 DEF Uncleared
  <2> QED BY <1>2, <2>1, <2>3, BringsAck DEF Due
<1>3. CASE Resend(d)
  <2>1. tree' = tree /\ pending' = pending
    BY <1>3 DEF Resend
  <2> QED BY <1>3, <2>1, BringsResend DEF Uncleared, Due
<1> QED BY <1>1, <1>2, <1>3

LEMMA DueForget ==
    ASSUME NEW W, QueuesOf(W), NEW p, Uncleared(p), NEW d \in Device, Forget(d)
    PROVE  /\ Uncleared(p)' /\ tree' = tree
           /\ \A e \in Device \ {d} : Due(e, p) => Due(e, p)'
<1>1. /\ tree' = tree /\ pending'[d] = <<>> /\ 1..Len(<<>>) = {}
      /\ \A e \in Device \ {d} : pending'[e] = pending[e] /\ sent'[e] = sent[e]
  BY ForgetQueue
<1> QED BY <1>1 DEF Uncleared, Due, Brings

LEMMA DueSubmit ==
    ASSUME NEW W, QueuesOf(W), NEW p, Uncleared(p), NEW d \in Device,
           NEW ws \in Seq(W), Submit(d, ws),
           \A k \in 1..Len(ws) : p \in ws[k].drop => p \in ws[k].put
    PROVE  /\ Uncleared(p)'
           /\ \A e \in Device : Due(e, p) => Due(e, p)'
           /\ (\E k \in 1..Len(ws) : p \in ws[k].put) => Due(d, p)'
<1> DEFINE m == Len(pending[d])
<1>1. /\ tree' = tree
      /\ \A e \in Device \ {d} : pending'[e] = pending[e]
      /\ Len(pending'[d]) = m + Len(ws)
      /\ \A i \in 1..m : pending'[d][i] = pending[d][i]
      /\ \A i \in 1..Len(ws) : pending'[d][m + i] = ws[i]
  BY SubmitQueue
<1>2. m \in Nat /\ Len(ws) \in Nat
  BY DEF QueuesOf
<1>3. /\ \A e \in Device : Brings(e, p) => Brings(e, p)'
      /\ (\E k \in 1..Len(ws) : p \in ws[k].put) => Brings(d, p)'
  <2>1. \A k \in 1..Len(ws) : k \in k..Len(ws)
    BY <1>2
  <2>2. \A k \in 1..Len(ws) : p \in ws[k].drop => \E j \in k..Len(ws) : p \in ws[j].put
    BY <2>1
  <2> QED BY <2>2, RefilledSubmit
<1>4. Uncleared(p)'
  <2> SUFFICES ASSUME NEW e \in Device, NEW i \in 1..Len(pending'[e]), p \in pending'[e][i].drop
               PROVE  p \in pending'[e][i].put
    BY DEF Uncleared
  <2>1. CASE e # d
    BY <1>1, <2>1 DEF Uncleared
  <2>2. CASE e = d /\ i \in 1..m
    BY <1>1, <2>2 DEF Uncleared
  <2>3. CASE e = d /\ i \notin 1..m
    <3> HIDE DEF m
    <3>1. i - m \in 1..Len(ws) /\ m + (i - m) = i
      BY <1>1, <1>2, <2>3
    <3> QED BY <1>1, <2>3, <3>1
  <2> QED BY <2>1, <2>2, <2>3
<1> QED BY <1>1, <1>3, <1>4 DEF Due
=============================================================================
