---------------------------- MODULE Delivery_proofs ----------------------------
(***************************************************************************)
(* What the send controller keeps, for every set of data, every range of   *)
(* the gap and every reordering threshold: DeliveryInv is an invariant of  *)
(* Delivery, and the properties that its run checks follow from it.        *)
(*                                                                         *)
(* The proof goes up from the data: first what selecting, appending and    *)
(* joining do to a queue and to where the data on it are; then one lemma   *)
(* for each operator of SendCtl, which says that it keeps Good (and Stays, *)
(* Leaves or Moves: which data change their place); then one lemma for     *)
(* each action of Delivery.  What a step does is named by a predicate on   *)
(* the controller before and after it, so that a proof sees no more of it  *)
(* than it needs.                                                          *)
(***************************************************************************)
EXTENDS Delivery, FiniteSetTheorems, SequenceTheorems, TLAPS

-------------------------------------------------------------------------------
(* Places of a queue, and what a loop keeps of it.                         *)

\* A set of places of a sequence is finite.
LEMMA PlacesFinite ==
  ASSUME NEW n \in Nat, NEW K \in SUBSET (1..n)
  PROVE  IsFiniteSet(K) /\ Cardinality(K) \in Nat /\ Cardinality(K) <= n
<1>1. IsFiniteSet(1..n) /\ Cardinality(1..n) = n
  BY FS_Interval
<1> QED
  BY <1>1, FS_Subset, FS_CardinalityType

\* The rank of a place among K grows with the place and is at most the size of K.
LEMMA RankGrows ==
  ASSUME NEW n \in Nat, NEW K \in SUBSET (1..n), NEW a \in K
  PROVE  /\ Cardinality({k \in K : k <= a}) \in 1..Cardinality(K)
         /\ \A b \in K : a < b => Cardinality({k \in K : k <= a}) < Cardinality({k \in K : k <= b})
<1> DEFINE R(b) == {k \in K : k <= b}
<1>1. \A b \in K : R(b) \in SUBSET (1..n) /\ R(b) \subseteq K
  OBVIOUS
<1>2. \A b \in K : IsFiniteSet(R(b)) /\ Cardinality(R(b)) \in Nat /\ Cardinality(R(b)) <= Cardinality(K)
  BY <1>1, PlacesFinite, FS_Subset
<1>3. a \in R(a)
  OBVIOUS
<1>4. Cardinality(R(a)) # 0
  BY <1>2, <1>3, FS_EmptySet
<1>5. ASSUME NEW b \in K, a < b
      PROVE  Cardinality(R(a)) < Cardinality(R(b))
  <2>0. \A k \in K : k \in Nat
    OBVIOUS
  <2>1. b \in R(b)
    BY <1>5, <2>0
  <2>2. b \notin R(a)
    BY <1>5, <2>0
  <2>3. \A k \in K : k <= a => k <= b
    BY <1>5, <2>0
  <2>4. R(a) \subseteq R(b)
    BY <2>3
  <2> QED
    BY <2>1, <2>2, <2>4, <1>2, FS_Subset
<1>6. Cardinality(K) \in Nat
  BY PlacesFinite
<1> HIDE DEF R
<1>7. Cardinality(R(a)) \in 1..Cardinality(K)
  BY <1>2, <1>4, <1>6
<1> QED
  BY <1>5, <1>7 DEF R

\* The places e of q that the packets of s come from: all of K, in order.
Picks(q, K, s, e) ==
  /\ e \in [DOMAIN s -> K]
  /\ \A j \in DOMAIN s : s[j] = q[e[j]]
  /\ \A i, j \in DOMAIN s : i < j => e[i] < e[j]
  /\ \A k \in K : \E j \in DOMAIN s : e[j] = k
  /\ \A j \in DOMAIN s : Cardinality({k \in K : k <= e[j]}) = j

\* Select(q, K) is q at the places K, in their order.
LEMMA SelectIs ==
  ASSUME NEW S, NEW q \in Seq(S), NEW K \in SUBSET (DOMAIN q)
  PROVE  /\ Select(q, K) \in Seq(S)
         /\ Len(Select(q, K)) = Cardinality(K) /\ DOMAIN Select(q, K) = 1..Cardinality(K)
         /\ \E e : Picks(q, K, Select(q, K), e)
<1> DEFINE n == Len(q)
           m == Cardinality(K)
           R(i) == Cardinality({k \in K : k <= i})
           f == [i \in K |-> R(i)]
<1>1. n \in Nat /\ K \in SUBSET (1..n)
  OBVIOUS
<1>2. m \in Nat /\ IsFiniteSet(K)
  BY <1>1, PlacesFinite
<1>3. \A a \in K : R(a) \in 1..m /\ \A b \in K : a < b => R(a) < R(b)
  BY <1>1, RankGrows
<1>4. \A a \in K : a \in Nat
  BY <1>1
<1> HIDE DEF n, m, R
<1>5. \A a, b \in K : R(a) = R(b) => a = b
  BY <1>2, <1>3, <1>4
<1>6. f \in Injection(K, 1..m)
  BY <1>3, <1>5 DEF Injection, IsInjective
<1>7. IsFiniteSet(1..m) /\ Cardinality(1..m) = m
  BY <1>2, FS_Interval
<1>8. f \in Surjection(K, 1..m)
  BY <1>6, <1>7, FS_Injection DEF m
<1>9. \A j \in 1..m : \E i \in K : R(i) = j
  BY <1>8 DEF Surjection
<1> DEFINE e == [j \in 1..m |-> CHOOSE i \in K : R(i) = j]
<1>10. \A j \in 1..m : e[j] \in K /\ R(e[j]) = j
  BY <1>9
<1>11. Select(q, K) = [j \in 1..m |-> q[e[j]]]
  BY DEF Select, R, m
<1>12. \A j \in 1..m : q[e[j]] \in S
  BY <1>10, <1>1
<1>13. Select(q, K) \in Seq(S) /\ Len(Select(q, K)) = m /\ DOMAIN Select(q, K) = 1..m
  BY <1>2, <1>11, <1>12, IsASeq
<1>14. e \in [1..m -> K]
  BY <1>10
<1> HIDE DEF e
<1>15. \A i, j \in 1..m : i < j => e[i] < e[j]
  BY <1>2, <1>3, <1>4, <1>10
<1>16. \A k \in K : \E j \in 1..m : e[j] = k
  BY <1>3, <1>5, <1>10
<1>17. \A j \in 1..m : Select(q, K)[j] = q[e[j]]
  BY <1>11
<1>18. Picks(q, K, Select(q, K), e)
  BY <1>10, <1>13, <1>14, <1>15, <1>16, <1>17 DEF Picks, R
<1> QED
  BY <1>13, <1>18 DEF m

\* The places of the packets of a set.
Holding(q, P) == {i \in DOMAIN q : q[i] \in P}

\* Select(q, K) holds as many packets of a set as q does at K.
LEMMA SelectCounts ==
  ASSUME NEW S, NEW q \in Seq(S), NEW K \in SUBSET (DOMAIN q), NEW P
  PROVE  Cardinality(Holding(Select(q, K), P)) = Cardinality(Holding(q, P) \cap K)
<1> DEFINE s == Select(q, K)
           A == Holding(s, P)
           B == Holding(q, P) \cap K
<1>1. PICK e : Picks(q, K, s, e)
  BY SelectIs
<1>2. DOMAIN s = 1..Cardinality(K) /\ Cardinality(K) \in Nat /\ \A k \in K : k \in Nat
  BY SelectIs, PlacesFinite
<1> HIDE DEF s
<1> DEFINE g == [j \in A |-> e[j]]
<1>3. \A i, j \in DOMAIN s : e[i] = e[j] => i = j
  BY <1>1, <1>2 DEF Picks
<1>4. g \in [A -> B]
  BY <1>1 DEF Picks, Holding
<1>5. \A i, j \in A : g[i] = g[j] => i = j
  BY <1>3 DEF Holding
<1>6. \A k \in B : \E j \in A : g[j] = k
  BY <1>1 DEF Picks, Holding
<1>7. g \in Bijection(A, B)
  BY <1>4, <1>5, <1>6 DEF Bijection, Injection, Surjection, IsInjective
<1>8. A \in SUBSET (1..Cardinality(K))
  BY <1>2 DEF Holding
<1>9. IsFiniteSet(A)
  BY <1>2, <1>8, PlacesFinite
<1>10. Cardinality(B) = Cardinality(A)
  BY <1>7, <1>9, FS_Bijection DEF ExistsBijection
<1> QED
  BY <1>10 DEF s

\* All the places together are the sequence itself.
LEMMA SelectAll ==
  ASSUME NEW S, NEW q \in Seq(S)
  PROVE  /\ Cardinality(DOMAIN q) = Len(q) /\ IsFiniteSet(DOMAIN q) /\ DOMAIN q = 1..Len(q) /\ Len(q) \in Nat
<1>1. DOMAIN q = 1..Len(q) /\ Len(q) \in Nat
  OBVIOUS
<1> QED
  BY <1>1, FS_Interval

\* What is left of some places when others are taken away.
LEMMA CountRest ==
  ASSUME NEW n \in Nat, NEW A \in SUBSET (1..n), NEW K \in SUBSET (1..n)
  PROVE  Cardinality(A \ K) = Cardinality(A) - Cardinality(K \cap A)
<1>1. IsFiniteSet(A) /\ A \cap K = K \cap A
  BY PlacesFinite
<1> QED
  <2>1. Cardinality(A \ K) = Cardinality(A) - Cardinality(A \cap K)
    BY <1>1, FS_Difference
  <2> QED
    BY <1>1, <2>1

\* When the first p places stay, their packets keep their places.
Begins(q, K, s, p) ==
  /\ p <= Len(s)
  /\ \A i \in 1..p : s[i] = q[i]
  /\ \A i \in DOMAIN s : i > p => \E k \in K : k > p /\ s[i] = q[k]

\* What is kept begins with the packets that nothing before them left.
LEMMA SelectPrefix ==
  ASSUME NEW S, NEW q \in Seq(S), NEW K \in SUBSET (DOMAIN q), NEW p \in Nat, 1..p \subseteq K
  PROVE  Begins(q, K, Select(q, K), p)
<1> DEFINE s == Select(q, K)
           R(i) == {k \in K : k <= i}
<1>1. PICK e : Picks(q, K, s, e)
  BY SelectIs
<1>2. DOMAIN s = 1..Cardinality(K) /\ Len(s) = Cardinality(K) /\ Cardinality(K) \in Nat
  BY SelectIs, PlacesFinite
<1>3. \A k \in K : k \in Nat
  OBVIOUS
<1> HIDE DEF s, R
<1>4. ASSUME NEW a \in 1..p
      PROVE  Cardinality(R(a)) = a
  <2>1. R(a) = 1..a
    BY <1>3 DEF R
  <2>2. Cardinality(1..a) = a
    BY FS_Interval
  <2> QED
    BY <2>1, <2>2
<1>5. \A j \in DOMAIN s : e[j] \in K /\ s[j] = q[e[j]] /\ Cardinality(R(e[j])) = j
  BY <1>1 DEF Picks, R
<1>6. ASSUME NEW a \in 1..p
      PROVE  a \in DOMAIN s /\ e[a] = a
  <2>1. PICK j \in DOMAIN s : e[j] = a
    BY <1>1 DEF Picks
  <2> QED
    BY <2>1, <1>4, <1>5
<1>7. \A a \in 1..p : s[a] = q[a]
  BY <1>5, <1>6
<1>8. p <= Len(s)
  BY <1>2, <1>6
<1>9. \A i \in DOMAIN s : i > p => e[i] > p
  <2> SUFFICES ASSUME NEW i \in DOMAIN s, i > p, ~(e[i] > p)
               PROVE  FALSE
    OBVIOUS
  <2>1. e[i] \in 1..p
    BY <1>3, <1>5
  <2> QED
    BY <2>1, <1>4, <1>5
<1>10. \A i \in DOMAIN s : i > p => \E k \in K : k > p /\ s[i] = q[k]
  BY <1>5, <1>9
<1> QED
  BY <1>7, <1>8, <1>10 DEF Begins, s

\* A nonempty set of numbers up to n has a least and a largest one: the first
\* and the last of the sequence they make.
LEMMA Extremes ==
  ASSUME NEW n \in Nat, NEW N \in SUBSET (0..n), N # {}
  PROVE  /\ MinOf(N) \in N /\ \A k \in N : MinOf(N) <= k
         /\ MaxOf(N) \in N /\ \A k \in N : k <= MaxOf(N)
<1> DEFINE q == [i \in 1..(n + 1) |-> i - 1]
           K == {i \in 1..(n + 1) : i - 1 \in N}
           s == Select(q, K)
           m == Cardinality(K)
<1>1. q \in Seq(Nat) /\ DOMAIN q = 1..(n + 1)
  <2>1. \A i \in 1..(n + 1) : i - 1 \in Nat
    OBVIOUS
  <2> QED
    BY <2>1, IsASeq
<1>2. K \in SUBSET (DOMAIN q)
  BY <1>1
<1>3. PICK e : Picks(q, K, s, e)
  BY <1>1, <1>2, SelectIs
<1>4. DOMAIN s = 1..m
  BY <1>1, <1>2, SelectIs
<1>5. m \in Nat
  BY PlacesFinite
<1>6. \A k \in N : k + 1 \in K /\ k \in Nat
  OBVIOUS
<1>7. \A i \in K : i - 1 \in N /\ i \in Nat
  OBVIOUS
<1> HIDE DEF K, s, m, q
<1>8. /\ e \in [1..m -> K]
      /\ \A i, j \in 1..m : i < j => e[i] < e[j]
      /\ \A k \in K : \E j \in 1..m : e[j] = k
  BY <1>3, <1>4 DEF Picks
<1>9. m > 0
  <2>1. PICK k \in K : TRUE
    BY <1>6
  <2>2. PICK j \in 1..m : e[j] = k
    BY <1>8
  <2> QED
    BY <1>5, <2>2
<1>10. e[1] - 1 \in N /\ e[m] - 1 \in N
  BY <1>5, <1>7, <1>8, <1>9
<1>11. ASSUME NEW k \in K
       PROVE  e[1] <= k /\ k <= e[m]
  <2>1. PICK j \in 1..m : e[j] = k
    BY <1>8
  <2>2. e[1] \in Nat /\ e[m] \in Nat /\ k \in Nat /\ 1 \in 1..m /\ m \in 1..m
    BY <1>5, <1>7, <1>8, <1>9
  <2>3. j = 1 \/ 1 < j
    OBVIOUS
  <2>4. j = m \/ j < m
    BY <1>5
  <2> QED
    BY <1>8, <2>1, <2>2, <2>3, <2>4
<1>12. \A k \in N : e[1] - 1 <= k /\ k <= e[m] - 1
  BY <1>5, <1>6, <1>7, <1>8, <1>9, <1>11
<1> QED
  BY <1>10, <1>12 DEF MinOf, MaxOf

\* A function on 1..n is a sequence.
LEMMA SeqIs ==
  ASSUME NEW S, NEW n \in Nat, NEW s, s = [i \in 1..n |-> s[i]], \A i \in 1..n : s[i] \in S
  PROVE  s \in Seq(S) /\ Len(s) = n
<1>1. s \in [1..n -> S]
  OBVIOUS
<1> QED
  BY <1>1

-------------------------------------------------------------------------------
(* Where the data are.                                                     *)

\* What two states of the controller share besides the fields F.
Same(c, e, F) == DOMAIN e = DOMAIN c /\ \A f \in DOMAIN c : f \in F \/ e[f] = c[f]

\* A datum has at most one place on a queue.
Alone(q, d) == \A i, j \in DatumAt(q, d) : i = j

\* A datum is in no place when it is on no queue.
LEMMA NoPlace ==
  ASSUME NEW c, NEW d
  PROVE  Places(c, d) = {} <=> /\ DatumAt(c.sched, d) = {} /\ DatumAt(c.batch, d) = {}
                               /\ DatumAt(c.unacked, d) = {} /\ DatumAt(c.lost, d) = {}
<1> DEFINE S == DatumAt(c.sched, d)
           B == DatumAt(c.batch, d)
           U == DatumAt(c.unacked, d)
           L == DatumAt(c.lost, d)
<1>1. Places(c, d) = {<<"sched", i>> : i \in S} \cup {<<"batch", i>> : i \in B}
                     \cup {<<"unacked", i>> : i \in U} \cup {<<"lost", i>> : i \in L}
  BY DEF Places
<1> HIDE DEF S, B, U, L
<1>2. Places(c, d) = {} <=> S = {} /\ B = {} /\ U = {} /\ L = {}
  BY <1>1
<1> QED
  BY <1>2 DEF S, B, U, L

\* It is in at most one when no queue has it twice and no two have it.
LEMMA OnePlace ==
  ASSUME NEW c, NEW d
  PROVE  (\A x, y \in Places(c, d) : x = y) <=>
           /\ Alone(c.sched, d) /\ Alone(c.batch, d) /\ Alone(c.unacked, d) /\ Alone(c.lost, d)
           /\ DatumAt(c.sched, d) = {} \/ DatumAt(c.batch, d) = {}
           /\ DatumAt(c.sched, d) = {} \/ DatumAt(c.unacked, d) = {}
           /\ DatumAt(c.sched, d) = {} \/ DatumAt(c.lost, d) = {}
           /\ DatumAt(c.batch, d) = {} \/ DatumAt(c.unacked, d) = {}
           /\ DatumAt(c.batch, d) = {} \/ DatumAt(c.lost, d) = {}
           /\ DatumAt(c.unacked, d) = {} \/ DatumAt(c.lost, d) = {}
<1> DEFINE S == DatumAt(c.sched, d)
           B == DatumAt(c.batch, d)
           U == DatumAt(c.unacked, d)
           L == DatumAt(c.lost, d)
           P == Places(c, d)
           One == \A x, y \in P : x = y
<1>1. P = {<<"sched", i>> : i \in S} \cup {<<"batch", i>> : i \in B}
          \cup {<<"unacked", i>> : i \in U} \cup {<<"lost", i>> : i \in L}
  BY DEF Places
<1>2. /\ \A i \in S : <<"sched", i>> \in P
      /\ \A i \in B : <<"batch", i>> \in P
      /\ \A i \in U : <<"unacked", i>> \in P
      /\ \A i \in L : <<"lost", i>> \in P
  BY <1>1
<1>3. \A x \in P : \/ \E i \in S : x = <<"sched", i>>
                   \/ \E i \in B : x = <<"batch", i>>
                   \/ \E i \in U : x = <<"unacked", i>>
                   \/ \E i \in L : x = <<"lost", i>>
  BY <1>1
<1> HIDE DEF S, B, U, L, P
<1>4. ASSUME One
      PROVE  /\ \A i, j \in S : i = j
             /\ \A i, j \in B : i = j
             /\ \A i, j \in U : i = j
             /\ \A i, j \in L : i = j
             /\ S = {} \/ B = {}
             /\ S = {} \/ U = {}
             /\ S = {} \/ L = {}
             /\ B = {} \/ U = {}
             /\ B = {} \/ L = {}
             /\ U = {} \/ L = {}
  <2>1. /\ \A i, j \in S : <<"sched", i>> = <<"sched", j>>
        /\ \A i, j \in B : <<"batch", i>> = <<"batch", j>>
        /\ \A i, j \in U : <<"unacked", i>> = <<"unacked", j>>
        /\ \A i, j \in L : <<"lost", i>> = <<"lost", j>>
    BY <1>2, <1>4
  <2>2. /\ \A i \in S, j \in B : <<"sched", i>> = <<"batch", j>>
        /\ \A i \in S, j \in U : <<"sched", i>> = <<"unacked", j>>
        /\ \A i \in S, j \in L : <<"sched", i>> = <<"lost", j>>
        /\ \A i \in B, j \in U : <<"batch", i>> = <<"unacked", j>>
        /\ \A i \in B, j \in L : <<"batch", i>> = <<"lost", j>>
        /\ \A i \in U, j \in L : <<"unacked", i>> = <<"lost", j>>
    BY <1>2, <1>4
  <2> QED
    BY <2>1, <2>2
<1>5. ASSUME /\ \A i, j \in S : i = j
             /\ \A i, j \in B : i = j
             /\ \A i, j \in U : i = j
             /\ \A i, j \in L : i = j
             /\ S = {} \/ B = {}
             /\ S = {} \/ U = {}
             /\ S = {} \/ L = {}
             /\ B = {} \/ U = {}
             /\ B = {} \/ L = {}
             /\ U = {} \/ L = {}
      PROVE  One
  BY <1>3, <1>5
<1> QED
  BY <1>4, <1>5 DEF Alone, S, B, U, L, P

\* What s, which is left of q at the places K, has of q.
Rising(q) == \A i, j \in DOMAIN q : i < j => q[i].no < q[j].no
Keeps(q, K, s) ==
  /\ s \in Seq(Packet) /\ Len(s) = Cardinality(K)
  /\ \A i \in DOMAIN s : \E k \in K : s[i] = q[k]
  /\ \A k \in K : \E i \in DOMAIN s : s[i] = q[k]
  /\ Rising(q) => Rising(s)
  /\ \A d : Alone(q, d) => Alone(s, d)
  /\ \A d : DatumAt(s, d) = {} <=> DatumAt(q, d) \cap K = {}
  /\ \A D : ItemsAt(s, D) = {} <=> ItemsAt(q, D) \cap K = {}

\* What a loop keeps of a queue: its order, and the data of the places kept.
LEMMA SelectKeeps ==
  ASSUME NEW q \in Seq(Packet), NEW K \in SUBSET (DOMAIN q)
  PROVE  Keeps(q, K, Select(q, K))
<1> DEFINE s == Select(q, K)
<1>1. s \in Seq(Packet) /\ Len(s) = Cardinality(K)
  BY SelectIs
<1>2. PICK e : Picks(q, K, s, e)
  BY SelectIs
<1>3. \A i \in DOMAIN s : e[i] \in K /\ s[i] = q[e[i]]
  BY <1>2 DEF Picks
<1>4. \A k \in K : \E i \in DOMAIN s : e[i] = k
  BY <1>2 DEF Picks
<1>5. \A i, j \in DOMAIN s : i < j => e[i] < e[j]
  BY <1>2 DEF Picks
<1>6. (\A i \in DOMAIN s : i \in Nat) /\ (\A k \in K : k \in Nat /\ k \in DOMAIN q)
  BY <1>1
<1> HIDE DEF s
<1>7. \A i, j \in DOMAIN s : e[i] = e[j] => i = j
  BY <1>3, <1>5, <1>6
<1>8. \A d : Alone(q, d) => Alone(s, d)
  BY <1>3, <1>6, <1>7 DEF Alone, DatumAt
<1>9. \A d : DatumAt(s, d) = {} <=> DatumAt(q, d) \cap K = {}
  BY <1>3, <1>4, <1>6 DEF DatumAt
<1>10. \A D : ItemsAt(s, D) = {} <=> ItemsAt(q, D) \cap K = {}
  BY <1>3, <1>4, <1>6 DEF ItemsAt
<1>11. Rising(q) => Rising(s)
  BY <1>3, <1>5, <1>6 DEF Rising
<1> QED
  BY <1>1, <1>3, <1>4, <1>8, <1>9, <1>10, <1>11 DEF Keeps, s

-------------------------------------------------------------------------------
(* Queues and their counts.                                                *)

\* The fields that say what is in flight, and the parts of Good that are about
\* the queues and not about numbers and data.
Unsent == {"unacked", "n_in_flight_all", "n_in_flight_retx"}
Queued(c) == Typed(c) /\ Counted(c) /\ Sorted(c) /\ InOrder(c)

\* The packets in flight that are left when those at K go.
LEMMA RealKept ==
  ASSUME NEW c, Typed(c), NEW e, Typed(e), NEW K \in SUBSET (DOMAIN c.unacked),
         e.unacked = Select(c.unacked, DOMAIN c.unacked \ K)
  PROVE  /\ Cardinality(RealOf(e)) = Cardinality(RealOf(c)) - Cardinality(K \cap RealOf(c))
         /\ Cardinality(RetxOf(e)) = Cardinality(RetxOf(c)) - Cardinality(K \cap RetxOf(c))
<1> DEFINE q == c.unacked
           M == DOMAIN q \ K
           P == {p \in Packet : Real(p)}
           R == {p \in Packet : Retx(p)}
<1>1. q \in Seq(Packet) /\ M \in SUBSET (DOMAIN q) /\ e.unacked \in Seq(Packet) /\ e.unacked = Select(q, M)
  BY DEF Typed
<1>2. DOMAIN q = 1..Len(q) /\ Len(q) \in Nat
  BY <1>1
<1>3. RealOf(c) \in SUBSET (1..Len(q)) /\ RetxOf(c) \in SUBSET (1..Len(q)) /\ K \in SUBSET (1..Len(q))
  BY <1>2 DEF RealOf, RetxOf
<1> DEFINE s == e.unacked
<1>4. ASSUME NEW X
      PROVE  Cardinality(Holding(s, X)) = Cardinality(Holding(q, X) \cap M)
  BY <1>1, SelectCounts
<1>5. RealOf(e) = Holding(s, P) /\ RetxOf(e) = Holding(s, R)
  <2>1. \A j \in DOMAIN s : s[j] \in Packet
    BY <1>1
  <2> QED
    BY <2>1 DEF RealOf, RetxOf, Holding
<1>6. Holding(q, P) \cap M = RealOf(c) \ K /\ Holding(q, R) \cap M = RetxOf(c) \ K
  <2>1. \A j \in DOMAIN q : q[j] \in Packet
    BY <1>1
  <2> QED
    BY <2>1 DEF RealOf, RetxOf, Holding
<1>7. Cardinality(RealOf(e)) = Cardinality(RealOf(c) \ K) /\ Cardinality(RetxOf(e)) = Cardinality(RetxOf(c) \ K)
  BY <1>4, <1>5, <1>6
<1> QED
  BY <1>2, <1>3, <1>7, CountRest

\* Packets leave the unacked queue.
LEMMA UnackedRemoved ==
  ASSUME NEW c, Queued(c), NEW K \in SUBSET (DOMAIN c.unacked), NEW e, e = unacked_remove(c, K)
  PROVE  /\ Queued(e) /\ Same(c, e, Unsent)
         /\ e.unacked = Select(c.unacked, DOMAIN c.unacked \ K)
         /\ \A d : Alone(c.unacked, d) => Alone(e.unacked, d)
         /\ \A d : DatumAt(e.unacked, d) = {} <=> DatumAt(c.unacked, d) \subseteq K
         /\ \A D : ItemsAt(e.unacked, D) = {} <=> ItemsAt(c.unacked, D) \subseteq K
         /\ RetxOf(c) = {} => RetxOf(e) = {}
<1> DEFINE q == c.unacked
           s == e.unacked
           M == DOMAIN q \ K
<1>1. /\ s = Select(q, M)
      /\ e.n_in_flight_all = c.n_in_flight_all - Cardinality(K \cap RealOf(c))
      /\ e.n_in_flight_retx = c.n_in_flight_retx - Cardinality(K \cap RetxOf(c))
      /\ Same(c, e, Unsent)
  BY DEF unacked_remove, Same, Unsent, CtlFields, Queued, Typed
<1>2. /\ e.sched = c.sched /\ e.lost = c.lost /\ e.batch = c.batch
      /\ e.n_scheduled = c.n_scheduled
      /\ e.cur_packno = c.cur_packno /\ e.senhist = c.senhist /\ e.gap = c.gap
      /\ e.released = c.released /\ DOMAIN e = CtlFields
  BY <1>1 DEF Same, Unsent, CtlFields, Queued, Typed
<1>3. q \in Seq(Packet) /\ M \in SUBSET (DOMAIN q)
  BY DEF Queued, Typed
<1> HIDE DEF M
<1>4. Keeps(q, M, s)
  BY <1>1, <1>3, SelectKeeps
<1>5. Typed(e)
  BY <1>2, <1>4 DEF Queued, Typed, Keeps
<1>6. Counted(e)
  <2>1. Typed(c) /\ Counted(c) /\ s = Select(q, DOMAIN q \ K)
    BY <1>1 DEF Queued, M
  <2>2. /\ Cardinality(RealOf(e)) = Cardinality(RealOf(c)) - Cardinality(K \cap RealOf(c))
        /\ Cardinality(RetxOf(e)) = Cardinality(RetxOf(c)) - Cardinality(K \cap RetxOf(c))
    BY <1>5, <2>1, RealKept
  <2> QED
    BY <1>1, <1>2, <2>1, <2>2 DEF Counted
<1>7. Sorted(e)
  BY <1>2, <1>3, <1>4 DEF Queued, Sorted, Keeps
<1>8. InOrder(e)
  BY <1>2, <1>3, <1>4 DEF Queued, InOrder, Keeps, Rising
<1>9. RetxOf(c) = {} => RetxOf(e) = {}
  BY <1>3, <1>4 DEF RetxOf, Keeps
<1>10. \A d : DatumAt(s, d) = {} <=> DatumAt(q, d) \subseteq K
  BY <1>4 DEF DatumAt, M, Keeps
<1>11. \A D : ItemsAt(s, D) = {} <=> ItemsAt(q, D) \subseteq K
  BY <1>4 DEF ItemsAt, M, Keeps
<1> QED
  BY <1>1, <1>4, <1>5, <1>6, <1>7, <1>8, <1>9, <1>10, <1>11 DEF Queued, M, Keeps

\* Packets leave the scheduled queue.
Dropped(c, e, K) ==
  /\ e.sched = Select(c.sched, DOMAIN c.sched \ K)
  /\ \A i \in DOMAIN e.sched : \E k \in DOMAIN c.sched \ K : e.sched[i] = c.sched[k]
  /\ \A d : Alone(c.sched, d) => Alone(e.sched, d)
  /\ \A d : DatumAt(e.sched, d) = {} <=> DatumAt(c.sched, d) \subseteq K

\* sched_remove: the queue and its count shrink together, and nothing else changes.
LEMMA SchedRemoved ==
  ASSUME NEW c, Queued(c), NEW K \in SUBSET (DOMAIN c.sched), NEW e, e = sched_remove(c, K)
  PROVE  Queued(e) /\ Same(c, e, {"sched", "n_scheduled"}) /\ Dropped(c, e, K)
<1> DEFINE q == c.sched
           s == e.sched
           M == DOMAIN q \ K
<1>1. /\ s = Select(q, M)
      /\ e.n_scheduled = c.n_scheduled - Cardinality(K)
      /\ Same(c, e, {"sched", "n_scheduled"})
  BY DEF sched_remove, Same, CtlFields, Queued, Typed
<1>2. /\ e.unacked = c.unacked /\ e.lost = c.lost /\ e.batch = c.batch
      /\ e.n_in_flight_all = c.n_in_flight_all /\ e.n_in_flight_retx = c.n_in_flight_retx
      /\ e.cur_packno = c.cur_packno /\ e.senhist = c.senhist /\ e.gap = c.gap
      /\ e.released = c.released /\ DOMAIN e = CtlFields
  BY <1>1 DEF Same, CtlFields, Queued, Typed
<1>3. q \in Seq(Packet) /\ M \in SUBSET (DOMAIN q) /\ DOMAIN q = 1..Len(q) /\ Len(q) \in Nat
  BY DEF Queued, Typed
<1>4. Cardinality(M) = Len(q) - Cardinality(K)
  <2>1. Cardinality(DOMAIN q) = Len(q) /\ K \cap DOMAIN q = K
    BY <1>3, SelectAll
  <2>2. DOMAIN q \in SUBSET (1..Len(q)) /\ K \in SUBSET (1..Len(q))
    BY <1>3
  <2> QED
    BY <1>3, <2>1, <2>2, CountRest
<1> HIDE DEF M
<1>5. Keeps(q, M, s)
  BY <1>1, <1>3, SelectKeeps
<1>6. Typed(e)
  BY <1>2, <1>5 DEF Queued, Typed, Keeps
<1>7. Counted(e)
  BY <1>1, <1>2, <1>4, <1>5 DEF Queued, Counted, RealOf, RetxOf, Keeps
<1>8. Sorted(e)
  BY <1>2, <1>3, <1>5 DEF Queued, Sorted, ToSend, Keeps
<1>9. InOrder(e)
  BY <1>2 DEF Queued, InOrder
<1>10. \A d : DatumAt(s, d) = {} <=> DatumAt(q, d) \subseteq K
  BY <1>5 DEF DatumAt, M, Keeps
<1> QED
  BY <1>1, <1>5, <1>6, <1>7, <1>8, <1>9, <1>10 DEF Queued, M, Keeps, Dropped

\* A datum on no queue, and on at most one.
Absent(c, d) ==
  /\ DatumAt(c.sched, d) = {} /\ DatumAt(c.batch, d) = {}
  /\ DatumAt(c.unacked, d) = {} /\ DatumAt(c.lost, d) = {}
Lonely(c, d) ==
  /\ Alone(c.sched, d) /\ Alone(c.batch, d) /\ Alone(c.unacked, d) /\ Alone(c.lost, d)
  /\ DatumAt(c.sched, d) = {} \/ DatumAt(c.batch, d) = {}
  /\ DatumAt(c.sched, d) = {} \/ DatumAt(c.unacked, d) = {}
  /\ DatumAt(c.sched, d) = {} \/ DatumAt(c.lost, d) = {}
  /\ DatumAt(c.batch, d) = {} \/ DatumAt(c.unacked, d) = {}
  /\ DatumAt(c.batch, d) = {} \/ DatumAt(c.lost, d) = {}
  /\ DatumAt(c.unacked, d) = {} \/ DatumAt(c.lost, d) = {}

\* Where a datum is, said of each queue.
LEMMA OnceIs ==
  ASSUME NEW c, NEW d
  PROVE  /\ Places(c, d) = {} <=> Absent(c, d)
         /\ Once(c, d) <=> Lonely(c, d) /\ (c.released[d] = 0 \/ (c.released[d] = 1 /\ Absent(c, d)))
<1>1. Places(c, d) = {} <=> Absent(c, d)
  BY NoPlace DEF Absent
<1>2. (\A x, y \in Places(c, d) : x = y) <=> Lonely(c, d)
  BY OnePlace DEF Lonely
<1> QED
  BY <1>1, <1>2 DEF Once

\* What the invariant says of a datum.
Kept(c, d) == Once(c, d) /\ Recorded(c, d)

\* Fields of the controller of which the invariant says nothing.
Aside == {"retx_alarm", "loss_to", "n_tlp", "n_consec_rtos", "next_limit", "sent_since",
          "largest_acked", "reord_thresh", "acked_1rtt"}

\* What is the same when two states share the queues, the numbers and the counts.
LEMMA AsideSame ==
  ASSUME NEW c, DOMAIN c = CtlFields, NEW e, Same(c, e, Aside)
  PROVE  /\ e.sched = c.sched /\ e.unacked = c.unacked /\ e.lost = c.lost /\ e.batch = c.batch
         /\ e.n_scheduled = c.n_scheduled /\ e.n_in_flight_all = c.n_in_flight_all
         /\ e.n_in_flight_retx = c.n_in_flight_retx
         /\ e.cur_packno = c.cur_packno /\ e.senhist = c.senhist /\ e.gap = c.gap
         /\ e.released = c.released /\ DOMAIN e = CtlFields
         /\ RealOf(e) = RealOf(c) /\ RetxOf(e) = RetxOf(c)
<1>1. /\ e.sched = c.sched /\ e.unacked = c.unacked /\ e.lost = c.lost /\ e.batch = c.batch
      /\ e.n_scheduled = c.n_scheduled /\ e.n_in_flight_all = c.n_in_flight_all
      /\ e.n_in_flight_retx = c.n_in_flight_retx
      /\ e.cur_packno = c.cur_packno /\ e.senhist = c.senhist /\ e.gap = c.gap
      /\ e.released = c.released /\ DOMAIN e = CtlFields
  BY DEF Same, Aside, CtlFields
<1> QED
  BY <1>1 DEF RealOf, RetxOf

\* The numbers depend on the queues to be sent and on the numbers given.
LEMMA AsideNumbers ==
  ASSUME NEW c, NEW e, e.batch = c.batch, e.sched = c.sched, e.cur_packno = c.cur_packno,
         e.senhist = c.senhist, e.gap = c.gap, Numbered(c)
  PROVE  Numbered(e)
<1>1. \A i : Nth(e, i) = Nth(c, i)
  BY DEF Nth
<1> QED
  BY <1>1 DEF Numbered

\* Where a datum is depends on the queues.
LEMMA AsideKept ==
  ASSUME NEW c, NEW e, NEW d, e.batch = c.batch, e.sched = c.sched, e.unacked = c.unacked,
         e.lost = c.lost, e.released = c.released
  PROVE  /\ Places(e, d) = Places(c, d)
         /\ Once(c, d) => Once(e, d)
         /\ Recorded(c, d) => Recorded(e, d)
<1>1. Places(e, d) = Places(c, d)
  BY DEF Places
<1> QED
  BY <1>1 DEF Once, Recorded

\* Where each datum is does not change from c to e.
Stays(c, e) ==
  /\ \A d \in Data : Places(e, d) = {} <=> Places(c, d) = {}
  /\ e.released = c.released /\ e.batch = c.batch /\ e.senhist = c.senhist
  /\ RetxOf(c) = {} => RetxOf(e) = {}

\* The fields of Aside are none of the invariant's.
LEMMA AsideGood ==
  ASSUME NEW c, Good(c), NEW e, Same(c, e, Aside)
  PROVE  Good(e) /\ Stays(c, e)
<1>1. DOMAIN c = CtlFields
  BY DEF Good, Typed
<1>2. /\ e.sched = c.sched /\ e.unacked = c.unacked /\ e.lost = c.lost /\ e.batch = c.batch
      /\ e.n_scheduled = c.n_scheduled /\ e.n_in_flight_all = c.n_in_flight_all
      /\ e.n_in_flight_retx = c.n_in_flight_retx
      /\ e.cur_packno = c.cur_packno /\ e.senhist = c.senhist /\ e.gap = c.gap
      /\ e.released = c.released /\ DOMAIN e = CtlFields
      /\ RealOf(e) = RealOf(c) /\ RetxOf(e) = RetxOf(c)
  BY <1>1, AsideSame
<1>3. Typed(e)
  BY <1>2 DEF Good, Typed
<1>4. Counted(e)
  BY <1>2 DEF Good, Counted
<1>5. Sorted(e) /\ InOrder(e)
  BY <1>2 DEF Good, Sorted, InOrder
<1>6. Numbered(e)
  BY <1>2, AsideNumbers DEF Good
<1>7. \A d \in Data : Once(e, d) /\ Recorded(e, d) /\ Places(e, d) = Places(c, d)
  BY <1>2, AsideKept DEF Good
<1> QED
  BY <1>2, <1>3, <1>4, <1>5, <1>6, <1>7 DEF Good, Stays

\* What s has that is q1 followed by q2.
Joined(q1, q2, s) ==
  /\ s \in Seq(Packet) /\ Len(s) = Len(q1) + Len(q2)
  /\ \A i \in DOMAIN q1 : i \in DOMAIN s /\ s[i] = q1[i]
  /\ \A i \in DOMAIN q2 : Len(q1) + i \in DOMAIN s /\ s[Len(q1) + i] = q2[i]
  /\ \A i \in DOMAIN s : i \in DOMAIN q1 \/ (i > Len(q1) /\ i - Len(q1) \in DOMAIN q2)
  /\ \A d : DatumAt(s, d) = {} <=> DatumAt(q1, d) = {} /\ DatumAt(q2, d) = {}
  /\ \A d : Alone(s, d) <=> /\ Alone(q1, d) /\ Alone(q2, d)
                            /\ DatumAt(q1, d) = {} \/ DatumAt(q2, d) = {}

\* One queue after another has the packets and the data of both.
LEMMA JoinedIs ==
  ASSUME NEW q1 \in Seq(Packet), NEW q2 \in Seq(Packet), NEW s, s = q1 \o q2
  PROVE  Joined(q1, q2, s)
<1> DEFINE n == Len(q1)
<1>1. n \in Nat /\ Len(q2) \in Nat /\ s \in Seq(Packet) /\ Len(s) = n + Len(q2)
  OBVIOUS
<1>2. DOMAIN q1 = 1..n /\ DOMAIN q2 = 1..Len(q2) /\ DOMAIN s = 1..(n + Len(q2))
  BY <1>1
<1>3. \A i \in DOMAIN q1 : i \in DOMAIN s /\ s[i] = q1[i]
  BY <1>1, <1>2
<1>4. \A i \in DOMAIN q2 : n + i \in DOMAIN s /\ s[n + i] = q2[i]
  BY <1>1, <1>2
<1>5. \A i \in DOMAIN s : i \in DOMAIN q1 \/ (i > n /\ i - n \in DOMAIN q2 /\ n + (i - n) = i)
  BY <1>1, <1>2
<1>6. (\A i \in DOMAIN q1 : i \in Nat /\ i <= n) /\ (\A i \in DOMAIN q2 : i \in Nat /\ i > 0)
  BY <1>1, <1>2
<1> HIDE DEF n
<1>7. ASSUME NEW d
      PROVE  /\ \A i \in DatumAt(q1, d) : i \in DatumAt(s, d)
             /\ \A i \in DatumAt(q2, d) : n + i \in DatumAt(s, d)
             /\ \A i \in DatumAt(s, d) : i \in DatumAt(q1, d) \/ (i - n \in DatumAt(q2, d) /\ n + (i - n) = i)
  BY <1>3, <1>4, <1>5 DEF DatumAt
<1>8. \A d : DatumAt(s, d) = {} <=> DatumAt(q1, d) = {} /\ DatumAt(q2, d) = {}
  BY <1>7
<1>9. ASSUME NEW d
      PROVE  Alone(s, d) <=> /\ Alone(q1, d) /\ Alone(q2, d)
                             /\ DatumAt(q1, d) = {} \/ DatumAt(q2, d) = {}
  <2> DEFINE A == DatumAt(q1, d)
             B == DatumAt(q2, d)
             C == DatumAt(s, d)
  <2>1. (\A i \in A : i \in Nat /\ i <= n) /\ (\A i \in B : i \in Nat /\ i > 0)
    BY <1>6 DEF DatumAt
  <2>2. /\ \A i \in A : i \in C
        /\ \A i \in B : n + i \in C
        /\ \A i \in C : i \in A \/ (i - n \in B /\ n + (i - n) = i)
    BY <1>7
  <2> HIDE DEF A, B, C
  <2>3. n \in Nat
    BY <1>1 DEF n
  <2>4. ASSUME \A i, j \in C : i = j
        PROVE  (\A i, j \in A : i = j) /\ (\A i, j \in B : i = j) /\ (A = {} \/ B = {})
    <3>1. \A i, j \in A : i = j
      BY <2>2, <2>4
    <3>2. \A i, j \in B : i = j
      BY <2>1, <2>2, <2>3, <2>4
    <3>3. \A i \in A, j \in B : FALSE
      BY <2>1, <2>2, <2>3, <2>4
    <3> QED
      BY <3>1, <3>2, <3>3
  <2>5. ASSUME \A i, j \in A : i = j, \A i, j \in B : i = j, A = {} \/ B = {}
        PROVE  \A i, j \in C : i = j
    BY <2>2, <2>5
  <2> QED
    BY <2>4, <2>5 DEF Alone, A, B, C
<1> QED
  BY <1>1, <1>3, <1>4, <1>5, <1>8, <1>9 DEF Joined, n

\* A queue of one packet.
LEMMA OneOf ==
  ASSUME NEW p \in Packet
  PROVE  /\ <<p>> \in Seq(Packet) /\ Len(<<p>>) = 1 /\ DOMAIN <<p>> = {1} /\ <<p>>[1] = p
         /\ \A d : Alone(<<p>>, d)
         /\ \A d : DatumAt(<<p>>, d) = {} <=> ~(Retx(p) /\ p.item = d)
<1>1. <<p>> \in Seq(Packet) /\ Len(<<p>>) = 1 /\ DOMAIN <<p>> = {1} /\ <<p>>[1] = p
  OBVIOUS
<1> QED
  BY <1>1 DEF Alone, DatumAt

\* A packet at the end, a packet at the head, and the rest of a queue.
LEMMA Ends ==
  ASSUME NEW q \in Seq(Packet), NEW p \in Packet
  PROVE  /\ Joined(q, <<p>>, Append(q, p)) /\ Joined(<<p>>, q, <<p>> \o q)
         /\ q # <<>> => /\ Joined(<<Head(q)>>, Tail(q), q) /\ Head(q) \in Packet /\ Tail(q) \in Seq(Packet)
                        /\ Head(q) = q[1] /\ 1 \in DOMAIN q /\ Len(q) > 0
<1>1. <<p>> \in Seq(Packet) /\ Append(q, p) = q \o <<p>>
  OBVIOUS
<1>2. Joined(q, <<p>>, Append(q, p)) /\ Joined(<<p>>, q, <<p>> \o q)
  BY <1>1, JoinedIs
<1>3. ASSUME q # <<>>
      PROVE  /\ Joined(<<Head(q)>>, Tail(q), q) /\ Head(q) \in Packet /\ Tail(q) \in Seq(Packet)
             /\ Head(q) = q[1] /\ 1 \in DOMAIN q /\ Len(q) > 0
  <2>1. Head(q) \in Packet /\ Tail(q) \in Seq(Packet) /\ Head(q) = q[1] /\ 1 \in DOMAIN q /\ Len(q) > 0
    BY <1>3
  <2>2. q = <<Head(q)>> \o Tail(q) /\ <<Head(q)>> \in Seq(Packet)
    BY <1>3, <2>1
  <2> QED
    BY <2>1, <2>2, JoinedIs
<1> QED
  BY <1>2, <1>3

\* One more packet at the end of a queue.
LEMMA AppendCounts ==
  ASSUME NEW q \in Seq(Packet), NEW p \in Packet, NEW P
  PROVE  Cardinality(Holding(Append(q, p), P)) = Cardinality(Holding(q, P)) + (IF p \in P THEN 1 ELSE 0)
<1> DEFINE n == Len(q)
           s == Append(q, p)
           A == Holding(q, P)
<1>1. n \in Nat /\ DOMAIN q = 1..n /\ DOMAIN s = 1..(n + 1)
      /\ s[n + 1] = p /\ \A i \in 1..n : s[i] = q[i]
  OBVIOUS
<1>2. A \in SUBSET (1..n)
  BY <1>1 DEF Holding
<1>3. IsFiniteSet(A) /\ n + 1 \notin A /\ Cardinality(A) \in Nat
  BY <1>1, <1>2, PlacesFinite
<1> HIDE DEF s
<1>4. CASE p \in P
  <2>1. Holding(s, P) = A \cup {n + 1}
    BY <1>1, <1>4 DEF Holding
  <2> QED
    BY <2>1, <1>3, <1>4, FS_AddElement DEF s
<1>5. CASE p \notin P
  <2>1. Holding(s, P) = A
    BY <1>1, <1>5 DEF Holding
  <2> QED
    BY <2>1, <1>3, <1>5 DEF s
<1> QED
  BY <1>4, <1>5

\* What Kept rests on besides the queues.
LEMMA KeptIs ==
  ASSUME NEW c, NEW d
  PROVE  Kept(c, d) <=>
           /\ Lonely(c, d)
           /\ c.released[d] = 0 \/ (c.released[d] = 1 /\ Absent(c, d))
           /\ Absent(c, d) => ItemsAt(c.unacked, {d}) = {}
           /\ \A i \in DatumAt(c.sched, d) : c.sched[i].ack => ItemsAt(c.unacked, {d}) = {}
           /\ \A i \in DatumAt(c.batch, d) : c.batch[i].ack => ItemsAt(c.unacked, {d}) = {}
  BY OnceIs DEF Kept, Recorded

\* The acknowledgements, probes and the poisoned packet among the unacked carry nothing.
LEMMA Dismissed ==
  ASSUME NEW c, Good(c), NEW K \in SUBSET (DOMAIN c.unacked),
         \A i \in K : c.unacked[i].kind \notin {"data", "rec"}, NEW e, e = unacked_remove(c, K)
  PROVE  Good(e) /\ Stays(c, e) /\ Same(c, e, Unsent)
<1>1. Queued(c)
  BY DEF Good, Queued
<1>2. /\ Queued(e) /\ Same(c, e, Unsent)
      /\ \A d : Alone(c.unacked, d) => Alone(e.unacked, d)
      /\ \A d : DatumAt(e.unacked, d) = {} <=> DatumAt(c.unacked, d) \subseteq K
      /\ \A D : ItemsAt(e.unacked, D) = {} <=> ItemsAt(c.unacked, D) \subseteq K
      /\ RetxOf(c) = {} => RetxOf(e) = {}
  BY <1>1, UnackedRemoved
<1>3. /\ e.sched = c.sched /\ e.lost = c.lost /\ e.batch = c.batch
      /\ e.cur_packno = c.cur_packno /\ e.senhist = c.senhist /\ e.gap = c.gap /\ e.released = c.released
  BY <1>1, <1>2 DEF Same, Unsent, CtlFields, Queued, Typed
<1>4. Numbered(e)
  BY <1>3, AsideNumbers DEF Good
<1>5. ASSUME NEW d \in Data
      PROVE  Kept(e, d) /\ (Places(e, d) = {} <=> Places(c, d) = {})
  <2>1. \A i \in DatumAt(c.unacked, d) : i \notin K
    BY DEF DatumAt, Retx
  <2>2. \A i \in ItemsAt(c.unacked, {d}) : i \notin K
    BY <1>1 DEF ItemsAt, Queued, Sorted
  <2>3. DatumAt(e.unacked, d) = {} <=> DatumAt(c.unacked, d) = {}
    BY <1>2, <2>1
  <2>4. ItemsAt(e.unacked, {d}) = {} <=> ItemsAt(c.unacked, {d}) = {}
    BY <1>2, <2>2
  <2>5. Absent(e, d) <=> Absent(c, d)
    BY <1>3, <2>3 DEF Absent
  <2>6. Kept(c, d)
    BY DEF Good, Kept
  <2>7. Lonely(e, d)
    BY <1>2, <1>3, <2>3, <2>6, KeptIs DEF Lonely
  <2>8. Kept(e, d)
    BY <1>3, <2>4, <2>5, <2>6, <2>7, KeptIs
  <2> QED
    BY <2>5, <2>8, OnceIs
<1> QED
  BY <1>2, <1>3, <1>4, <1>5 DEF Good, Queued, Stays, Kept

-------------------------------------------------------------------------------
(* Loss.                                                                   *)

\* The packets at R of the unacked queue leave their records there and are lost.
Losing(c, e, R) ==
  /\ DOMAIN e.unacked = DOMAIN c.unacked
  /\ \A i \in R : e.unacked[i].kind = "rec"
  /\ \A i \in DOMAIN c.unacked \ R : e.unacked[i] = c.unacked[i]
  /\ \A i \in DOMAIN c.unacked : e.unacked[i].no = c.unacked[i].no /\ e.unacked[i].item = c.unacked[i].item
  /\ e.unacked \in Seq(Packet)
  /\ e.lost = c.lost \o Select(c.unacked, R)
  /\ e.n_in_flight_all = c.n_in_flight_all - Cardinality(R)
  /\ e.n_in_flight_retx = c.n_in_flight_retx - Cardinality(R)
  /\ Same(c, e, {"unacked", "lost", "n_in_flight_all", "n_in_flight_retx"})

\* A packet that is lost changes its place, and its record stays: the counts of
\* what is in flight go down by what was lost.
LEMMA LosingGood ==
  ASSUME NEW c, Good(c), NEW R \in SUBSET RetxOf(c), NEW e, Losing(c, e, R)
  PROVE  Good(e) /\ Stays(c, e) /\ e.gap = c.gap /\ RetxOf(e) = RetxOf(c) \ R
<1> DEFINE q == c.unacked
           u == e.unacked
           s == Select(q, R)
<1>1. /\ e.sched = c.sched /\ e.batch = c.batch /\ e.n_scheduled = c.n_scheduled
      /\ e.cur_packno = c.cur_packno /\ e.senhist = c.senhist /\ e.gap = c.gap /\ e.released = c.released
      /\ DOMAIN e = CtlFields
  BY DEF Same, CtlFields, Good, Typed, Losing
<1>2. q \in Seq(Packet) /\ R \in SUBSET (DOMAIN q) /\ c.lost \in Seq(Packet) /\ DOMAIN q = 1..Len(q) /\ Len(q) \in Nat
  BY DEF RetxOf, Good, Typed
<1>3. Keeps(q, R, s)
  BY <1>2, SelectKeeps
<1>4. s \in Seq(Packet)
  BY <1>3 DEF Keeps
<1>5. Joined(c.lost, s, e.lost)
  BY <1>2, <1>4, JoinedIs DEF Losing
<1>6. Typed(e)
  BY <1>1, <1>5 DEF Joined, Losing, Good, Typed
<1>7. RealOf(e) = RealOf(c) \ R /\ RetxOf(e) = RetxOf(c) \ R
  BY DEF RealOf, RetxOf, Losing, Real, Retx
<1>8. R \subseteq RealOf(c)
  BY DEF RealOf, RetxOf, Real, Retx
<1>9. Cardinality(RealOf(e)) = Cardinality(RealOf(c)) - Cardinality(R)
  <2>1. RealOf(c) \in SUBSET (1..Len(q)) /\ R \in SUBSET (1..Len(q)) /\ R \cap RealOf(c) = R
    BY <1>2, <1>8 DEF RealOf
  <2> QED
    <3>1. Cardinality(RealOf(c) \ R) = Cardinality(RealOf(c)) - Cardinality(R \cap RealOf(c))
      BY <1>2, <2>1, CountRest
    <3> QED
      BY <1>7, <2>1, <3>1
<1>10. Cardinality(RetxOf(e)) = Cardinality(RetxOf(c)) - Cardinality(R)
  <2>1. RetxOf(c) \in SUBSET (1..Len(q)) /\ R \in SUBSET (1..Len(q)) /\ R \cap RetxOf(c) = R
    BY <1>2 DEF RetxOf
  <2> QED
    <3>1. Cardinality(RetxOf(c) \ R) = Cardinality(RetxOf(c)) - Cardinality(R \cap RetxOf(c))
      BY <1>2, <2>1, CountRest
    <3> QED
      BY <1>7, <2>1, <3>1
<1>11. Counted(e)
  BY <1>1, <1>9, <1>10 DEF Good, Counted, Losing
<1>12. Sorted(e)
  <2>1. ToSend(e.sched) /\ ToSend(e.batch)
    BY <1>1 DEF Good, Sorted
  <2>2. \A i \in DOMAIN s : Retx(s[i]) /\ s[i].item \in Data
    <3>1. \A i \in R : Retx(q[i]) /\ q[i].item \in Data
      BY DEF RetxOf, Retx, Good, Sorted
    <3> QED
      BY <1>3, <3>1 DEF Keeps
  <2>3. \A i \in DOMAIN c.lost : Retx(c.lost[i]) /\ c.lost[i].item \in Data
    BY DEF Good, Sorted
  <2>4. \A i \in DOMAIN e.lost : Retx(e.lost[i]) /\ e.lost[i].item \in Data
    <3>1. Len(c.lost) \in Nat
      BY <1>2
    <3>2. ASSUME NEW i \in DOMAIN e.lost, i \notin DOMAIN c.lost
          PROVE  e.lost[i] = s[i - Len(c.lost)] /\ i - Len(c.lost) \in DOMAIN s
      <4>1. i - Len(c.lost) \in DOMAIN s /\ Len(c.lost) + (i - Len(c.lost)) = i
        BY <1>5, <3>1, <3>2 DEF Joined
      <4> QED
        BY <1>5, <4>1 DEF Joined
    <3> QED
      BY <1>5, <2>2, <2>3, <3>2 DEF Joined
  <2>5. \A i \in DOMAIN u : u[i].kind \in {"data", "rec"} <=> u[i].item \in Data
    <3>1. \A i \in R : q[i].kind = "data"
      BY DEF RetxOf, Retx
    <3> QED
      BY <3>1 DEF Good, Sorted, Losing
  <2> QED
    BY <2>1, <2>4, <2>5 DEF Sorted
<1>13. InOrder(e)
  <2>1. \A i \in DOMAIN u : u[i].kind = "poison" => q[i].kind = "poison"
    BY DEF Losing
  <2> QED
    BY <1>1, <2>1 DEF Good, InOrder, Losing
<1>14. Numbered(e)
  BY <1>1, AsideNumbers DEF Good
<1>15. ASSUME NEW d \in Data
       PROVE  Kept(e, d) /\ (Places(e, d) = {} <=> Places(c, d) = {})
  <2> DEFINE A == DatumAt(q, d)
  <2>1. DatumAt(u, d) = A \ R
    BY DEF DatumAt, Losing, Retx
  <2>2. ItemsAt(u, {d}) = ItemsAt(q, {d})
    BY DEF ItemsAt, Losing
  <2>3. DatumAt(e.lost, d) = {} <=> DatumAt(c.lost, d) = {} /\ A \cap R = {}
    BY <1>3, <1>5 DEF Joined, Keeps
  <2>4. Alone(e.lost, d) <=> Alone(c.lost, d) /\ Alone(s, d) /\ (DatumAt(c.lost, d) = {} \/ A \cap R = {})
    BY <1>3, <1>5 DEF Joined, Keeps
  <2>5. Alone(q, d) => Alone(s, d) /\ Alone(u, d)
    BY <1>3, <2>1 DEF Keeps, Alone
  <2>6. Alone(q, d) => A \ R = {} \/ A \cap R = {}
    BY DEF Alone
  <2>7. Absent(e, d) <=> Absent(c, d)
    BY <1>1, <2>1, <2>3 DEF Absent
  <2>8. Kept(c, d)
    BY DEF Good, Kept
  <2>9. Lonely(c, d)
    BY <2>8, KeptIs
  <2>10. Lonely(e, d)
    BY <1>1, <2>1, <2>3, <2>4, <2>5, <2>6, <2>9 DEF Lonely
  <2>11. Kept(e, d)
    BY <1>1, <2>2, <2>7, <2>8, <2>10, KeptIs
  <2> QED
    BY <2>7, <2>11, OnceIs
<1>16. Good(e)
  BY <1>6, <1>11, <1>12, <1>13, <1>14, <1>15 DEF Good, Kept
<1> QED
  BY <1>1, <1>7, <1>15, <1>16 DEF Stays

\* Packets in flight are declared lost.
LEMMA LostHandled ==
  ASSUME NEW c, Good(c), NEW L \in SUBSET RealOf(c), NEW F, NEW e, e = handle_lost(c, L, F)
  PROVE  Good(e) /\ Stays(c, e) /\ e.gap = c.gap /\ e.retx_alarm = c.retx_alarm
<1> DEFINE R == L \cap RetxOf(c)
           b == [c EXCEPT
                   !.unacked = [i \in DOMAIN @ |->
                                  IF i \in R
                                  THEN [@[i] EXCEPT !.kind = "rec", !.ack = FALSE, !.facked = i \in F]
                                  ELSE @[i]],
                   !.lost = @ \o Select(c.unacked, R),
                   !.n_in_flight_all = @ - Cardinality(R),
                   !.n_in_flight_retx = @ - Cardinality(R)]
<1>1. e = unacked_remove(b, L \ R)
  BY DEF handle_lost
<1>2. DOMAIN c = CtlFields /\ c.unacked \in Seq(Packet) /\ R \subseteq DOMAIN c.unacked
  BY DEF Good, Typed, RetxOf
<1>3. /\ b.unacked = [i \in DOMAIN c.unacked |->
                        IF i \in R
                        THEN [c.unacked[i] EXCEPT !.kind = "rec", !.ack = FALSE, !.facked = i \in F]
                        ELSE c.unacked[i]]
      /\ b.lost = c.lost \o Select(c.unacked, R)
      /\ b.n_in_flight_all = c.n_in_flight_all - Cardinality(R)
      /\ b.n_in_flight_retx = c.n_in_flight_retx - Cardinality(R)
      /\ Same(c, b, {"unacked", "lost", "n_in_flight_all", "n_in_flight_retx"})
  BY <1>2 DEF Same, CtlFields
<1> HIDE DEF b, R
<1>4. \A i \in DOMAIN c.unacked : c.unacked[i] \in Packet
  BY <1>2
<1>5. ASSUME NEW i \in R
      PROVE  /\ b.unacked[i] \in Packet /\ b.unacked[i].kind = "rec"
             /\ b.unacked[i].no = c.unacked[i].no /\ b.unacked[i].item = c.unacked[i].item
  <2>1. i \in DOMAIN c.unacked /\ c.unacked[i] \in Packet
    BY <1>2, <1>4
  <2>2. b.unacked[i] = [c.unacked[i] EXCEPT !.kind = "rec", !.ack = FALSE, !.facked = i \in F]
    BY <1>3, <2>1
  <2>3. (i \in F) \in BOOLEAN
    OBVIOUS
  <2> HIDE DEF b
  <2> QED
    BY <2>1, <2>2, <2>3 DEF Packet
<1>6. \A i \in DOMAIN c.unacked \ R : b.unacked[i] = c.unacked[i]
  BY <1>3
<1>7. DOMAIN b.unacked = DOMAIN c.unacked /\ DOMAIN b.unacked = 1..Len(c.unacked) /\ Len(c.unacked) \in Nat
  <2>1. DOMAIN b.unacked = DOMAIN c.unacked
    BY <1>3
  <2> QED
    BY <1>2, <2>1
<1>8. b.unacked \in Seq(Packet)
  <2>1. \A i \in 1..Len(c.unacked) : b.unacked[i] \in Packet
    BY <1>4, <1>5, <1>6, <1>7
  <2>2. b.unacked = [i \in 1..Len(c.unacked) |-> b.unacked[i]]
    BY <1>3, <1>7
  <2> QED
    BY <1>7, <2>1, <2>2, IsASeq
<1>9. Losing(c, b, R)
  BY <1>2, <1>3, <1>5, <1>6, <1>7, <1>8 DEF Losing
<1>10. R \in SUBSET RetxOf(c)
  BY DEF R
<1>11. Good(b) /\ Stays(c, b) /\ b.gap = c.gap /\ RetxOf(b) = RetxOf(c) \ R
  BY <1>9, <1>10, LosingGood
<1>12. L \ R \in SUBSET (DOMAIN b.unacked)
  BY <1>7 DEF RealOf
<1>13. \A i \in L \ R : b.unacked[i].kind \notin {"data", "rec"}
  BY <1>6, <1>7, <1>12 DEF R, RetxOf, RealOf, Retx, Real
<1>14. Good(e) /\ Stays(b, e) /\ Same(b, e, Unsent)
  BY <1>1, <1>11, <1>12, <1>13, Dismissed
<1>15. e.gap = c.gap /\ e.retx_alarm = c.retx_alarm
  BY <1>2, <1>3, <1>11, <1>14 DEF Same, Unsent, CtlFields, Good, Typed
<1> QED
  BY <1>11, <1>14, <1>15 DEF Stays

-------------------------------------------------------------------------------
(* Packet numbers.                                                         *)

\* Numbered with its k named, and the number last given.
UpTo(c, k) ==
  \A i \in DOMAIN c.sched : IF i <= k THEN ~c.sched[i].repack /\ c.sched[i].no = Nth(c, Len(c.batch) + i)
                            ELSE c.sched[i].repack
Last(c, m) == c.cur_packno = Nth(c, m) \/ (c.cur_packno = c.gap /\ Nth(c, m) = c.gap - 1)
BatchOn(c) == \A i \in DOMAIN c.batch : ~c.batch[i].repack /\ c.batch[i].no = Nth(c, i)

\* Numbered, with the place up to which packets keep their numbers.
LEMMA NumberedIs ==
  ASSUME NEW c
  PROVE  Numbered(c) <=> BatchOn(c) /\ \E k \in 0..Len(c.sched) : UpTo(c, k) /\ Last(c, Len(c.batch) + k)
  BY DEF Numbered, UpTo, Last, BatchOn

\* The numbers Nth counts.
LEMMA NthIs ==
  ASSUME NEW c, c.senhist \in Nat, c.gap \in Nat, c.senhist # c.gap, NEW m \in Nat
  PROVE  /\ Nth(c, m) \in Nat /\ Nth(c, m) >= c.senhist + m /\ Nth(c, m) # c.gap
         /\ Nth(c, 0) = c.senhist
         /\ c.gap < c.senhist => Nth(c, m) = c.senhist + m
         /\ c.cur_packno \in Int /\ Last(c, m) => next_packno(c) = Nth(c, m + 1) /\ c.cur_packno >= c.senhist + m
         /\ Nth(c, m + 1) = IF Nth(c, m) + 1 = c.gap THEN Nth(c, m) + 2 ELSE Nth(c, m) + 1
  BY DEF Nth, Last, next_packno

\* A number given back.
LEMMA LastBack ==
  ASSUME NEW c, c.senhist \in Nat, c.gap \in Nat, c.senhist # c.gap, NEW m \in Nat,
         NEW e, e.senhist = c.senhist, e.gap = c.gap, e.cur_packno = Nth(c, m + 1) - 1
  PROVE  Last(e, m)
  BY DEF Nth, Last

\* Nth counts from the last number sent, over the gap.
LEMMA NthSame ==
  ASSUME NEW c, NEW e, e.senhist = c.senhist, e.gap = c.gap
  PROVE  /\ \A m : Nth(e, m) = Nth(c, m)
         /\ e.cur_packno = c.cur_packno => \A m : Last(e, m) <=> Last(c, m)
         /\ e.batch = c.batch => (BatchOn(e) <=> BatchOn(c))
<1>1. \A m : Nth(e, m) = Nth(c, m)
  BY DEF Nth
<1> QED
  BY <1>1 DEF Last, BatchOn

\* Queued does not look at these fields of scheduled packets.
LikeSched(c, e) ==
  /\ e.sched \in Seq(Packet) /\ DOMAIN e.sched = DOMAIN c.sched /\ Len(e.sched) = Len(c.sched)
  /\ \A i \in DOMAIN c.sched : /\ e.sched[i].kind = c.sched[i].kind /\ e.sched[i].item = c.sched[i].item
                               /\ e.sched[i].no = c.sched[i].no /\ e.sched[i].ack = c.sched[i].ack
Again(c, e) == LikeSched(c, e) /\ Same(c, e, {"sched", "cur_packno"}) /\ e.cur_packno \in Int

\* Packets marked for a new number are the same packets to the queues.
LEMMA AgainQueued ==
  ASSUME NEW c, Queued(c), NEW e, Again(c, e)
  PROVE  /\ Queued(e) /\ RetxOf(e) = RetxOf(c)
         /\ \A d : DatumAt(e.sched, d) = DatumAt(c.sched, d)
         /\ \A D : ItemsAt(e.sched, D) = ItemsAt(c.sched, D)
         /\ \A d : Places(e, d) = Places(c, d)
         /\ \A d : Once(c, d) => Once(e, d)
         /\ \A d : Recorded(c, d) => Recorded(e, d)
<1>1. /\ e.unacked = c.unacked /\ e.lost = c.lost /\ e.batch = c.batch
      /\ e.n_scheduled = c.n_scheduled
      /\ e.n_in_flight_all = c.n_in_flight_all /\ e.n_in_flight_retx = c.n_in_flight_retx
      /\ e.senhist = c.senhist /\ e.gap = c.gap
      /\ e.released = c.released /\ DOMAIN e = CtlFields
  BY DEF Same, CtlFields, Queued, Typed, Again
<1>2. Typed(e)
  BY <1>1 DEF Queued, Typed, Again, LikeSched
<1>3. Counted(e) /\ RetxOf(e) = RetxOf(c)
  BY <1>1 DEF Queued, Counted, RealOf, RetxOf, Again, LikeSched
<1>4. Sorted(e)
  BY <1>1 DEF Queued, Sorted, ToSend, Retx, Again, LikeSched
<1>5. InOrder(e)
  BY <1>1 DEF Queued, InOrder
<1>6. \A d : DatumAt(e.sched, d) = DatumAt(c.sched, d)
  BY DEF DatumAt, Retx, Again, LikeSched
<1>7. \A D : ItemsAt(e.sched, D) = ItemsAt(c.sched, D)
  BY DEF ItemsAt, Again, LikeSched
<1>8. \A d : Places(e, d) = Places(c, d)
  BY <1>1, <1>6 DEF Places
<1>9. ASSUME NEW d, Recorded(c, d)
      PROVE  Recorded(e, d)
  <2>1. \A i \in DatumAt(c.sched, d) : e.sched[i].ack = c.sched[i].ack
    BY DEF DatumAt, Again, LikeSched
  <2> QED
    BY <1>1, <1>6, <1>8, <1>9, <2>1 DEF Recorded
<1> QED
  BY <1>1, <1>2, <1>3, <1>4, <1>5, <1>6, <1>7, <1>8, <1>9 DEF Queued, Once

\* The numbers to the right of the first destroyed packet move down.
LEMMA Renumbered ==
  ASSUME NEW c, Queued(c), NEW K \in SUBSET (DOMAIN c.sched), NEW e, e = renumber_to_right(c, K)
  PROVE  Again(c, e)
<1>1. DOMAIN c = CtlFields /\ c.sched \in Seq(Packet) /\ c.cur_packno \in Int
      /\ DOMAIN c.sched = 1..Len(c.sched) /\ Len(c.sched) \in Nat
  BY DEF Queued, Typed
<1> DEFINE N == {i \in K : ~c.sched[i].repack}
           m == MinOf(N)
<1>2. CASE N = {}
  <2>1. e = c
    BY <1>2 DEF renumber_to_right
  <2> QED
    BY <1>1, <2>1 DEF Again, LikeSched, Same
<1>3. CASE N # {}
  <2> DEFINE s == [i \in DOMAIN c.sched |-> IF i > m THEN [c.sched[i] EXCEPT !.repack = TRUE] ELSE c.sched[i]]
  <2>1. e = [c EXCEPT !.cur_packno = c.sched[m].no - 1, !.sched = s]
    BY <1>3 DEF renumber_to_right
  <2>2. m \in DOMAIN c.sched
    <3>1. N \in SUBSET (0..Len(c.sched)) /\ N \subseteq DOMAIN c.sched
      BY <1>1
    <3> HIDE DEF N
    <3> QED
      BY <1>1, <1>3, <3>1, Extremes
  <2> HIDE DEF m, N
  <2>3. \A i \in DOMAIN c.sched : c.sched[i] \in Packet
    BY <1>1
  <2>4. ASSUME NEW i \in DOMAIN c.sched
        PROVE  /\ s[i] \in Packet /\ s[i].kind = c.sched[i].kind /\ s[i].item = c.sched[i].item
               /\ s[i].no = c.sched[i].no /\ s[i].ack = c.sched[i].ack
    <3>1. s[i] = IF i > m THEN [c.sched[i] EXCEPT !.repack = TRUE] ELSE c.sched[i]
      OBVIOUS
    <3> QED
      BY <2>3, <3>1 DEF Packet
  <2>5. s = [i \in 1..Len(c.sched) |-> s[i]] /\ DOMAIN s = DOMAIN c.sched
    BY <1>1
  <2> HIDE DEF s
  <2>6. s \in Seq(Packet) /\ Len(s) = Len(c.sched)
    <3>1. \A i \in 1..Len(c.sched) : s[i] \in Packet
      BY <1>1, <2>4
    <3>2. s \in Seq(Packet)
      BY <1>1, <2>5, <3>1, IsASeq
    <3> QED
      BY <1>1, <2>5, <3>2
  <2>7. e.sched = s /\ e.cur_packno = c.sched[m].no - 1 /\ Same(c, e, {"sched", "cur_packno"})
    BY <1>1, <2>1 DEF Same, CtlFields
  <2>8. e.cur_packno \in Int
    BY <2>2, <2>3, <2>7 DEF Packet
  <2> QED
    BY <2>4, <2>5, <2>6, <2>7, <2>8 DEF Again, LikeSched
<1> QED
  BY <1>2, <1>3

\* One packet at most is the datum's, so that it is acknowledged at most once.
LEMMA PlacesCount ==
  ASSUME NEW c, NEW d, Once(c, d)
  PROVE  Cardinality(Places(c, d)) = IF Places(c, d) = {} THEN 0 ELSE 1
<1> DEFINE P == Places(c, d)
<1>1. \A x, y \in P : x = y
  BY DEF Once
<1>2. CASE P = {}
  BY <1>2, FS_EmptySet
<1>3. CASE P # {}
  <2>1. PICK x \in P : TRUE
    BY <1>3
  <2>2. P = {x}
    BY <1>1, <2>1
  <2>3. Cardinality({x}) = 1
    BY FS_Singleton
  <2> QED
    BY <1>3, <2>2, <2>3
<1> QED
  BY <1>2, <1>3

-------------------------------------------------------------------------------
(* The chains that are destroyed.                                          *)

\* What is left of a loss chain: nothing.
Destroyed(c, e, D) ==
  /\ \A d \in Data :
       /\ DatumAt(e.sched, d) = {} <=> DatumAt(c.sched, d) = {} \/ d \in D
       /\ DatumAt(e.unacked, d) = {} <=> DatumAt(c.unacked, d) = {} \/ d \in D
       /\ DatumAt(e.lost, d) = {} <=> DatumAt(c.lost, d) = {} \/ d \in D
       /\ ItemsAt(e.unacked, {d}) = {} <=> ItemsAt(c.unacked, {d}) = {} \/ d \in D
       /\ Alone(c.sched, d) => Alone(e.sched, d)
       /\ Alone(c.unacked, d) => Alone(e.unacked, d)
       /\ Alone(c.lost, d) => Alone(e.lost, d)
       /\ \A i \in DatumAt(e.sched, d) : e.sched[i].ack => \E j \in DatumAt(c.sched, d) : c.sched[j].ack
       /\ e.released[d] = c.released[d] + (IF d \in D THEN Cardinality(Places(c, d)) ELSE 0)
  /\ RetxOf(c) = {} => RetxOf(e) = {}
  /\ e.batch = c.batch /\ e.senhist = c.senhist /\ e.gap = c.gap /\ e.retx_alarm = c.retx_alarm

\* destroy_chains: the packets and the records of the data D leave every queue
\* but the batch, and each datum of theirs is acknowledged once.
LEMMA ChainsDestroyed ==
  ASSUME NEW c, Queued(c), NEW D \in SUBSET Data, \A d \in D : Once(c, d),
         NEW e, e = destroy_chains(c, D)
  PROVE  Queued(e) /\ Destroyed(c, e, D)
<1> DEFINE S == ItemsAt(c.sched, D)
           b == renumber_to_right(c, S)
           c1 == sched_remove(b, S)
           U == ItemsAt(c1.unacked, D)
           c2 == unacked_remove(c1, U)
           L == ItemsAt(c2.lost, D)
           R == [d \in Data |-> c2.released[d] + (IF d \in D THEN Cardinality(Places(c, d)) ELSE 0)]
<1>1. S \in SUBSET (DOMAIN c.sched)
  BY DEF ItemsAt
<1>2. Again(c, b)
  BY <1>1, Renumbered
<1>3. /\ Queued(b) /\ RetxOf(b) = RetxOf(c)
      /\ \A d : DatumAt(b.sched, d) = DatumAt(c.sched, d)
  BY <1>2, AgainQueued
<1> HIDE DEF b
<1>4. S \in SUBSET (DOMAIN b.sched)
  BY <1>1, <1>2 DEF Again, LikeSched
<1>0. c1 = sched_remove(b, S) /\ c2 = unacked_remove(c1, U)
  OBVIOUS
<1>8. e = [c2 EXCEPT !.lost = Select(@, DOMAIN @ \ ItemsAt(@, D)),
                     !.released = [d \in Data |-> @[d] + (IF d \in D THEN Cardinality(Places(c, d)) ELSE 0)]]
  <2>1. c1.unacked = c.unacked
    BY <1>2, <1>3 DEF sched_remove, Again, Same, CtlFields, Queued, Typed
  <2>2. ItemsAt(c.unacked, D) = U
    BY <2>1
  <2> QED
    BY <2>2 DEF destroy_chains, b
<1> HIDE DEF c1, c2, S, U
<1>5. /\ Queued(c1) /\ Same(b, c1, {"sched", "n_scheduled"})
      /\ c1.sched = Select(b.sched, DOMAIN b.sched \ S)
      /\ \A i \in DOMAIN c1.sched : \E k \in DOMAIN b.sched \ S : c1.sched[i] = b.sched[k]
      /\ \A d : Alone(b.sched, d) => Alone(c1.sched, d)
      /\ \A d : DatumAt(c1.sched, d) = {} <=> DatumAt(b.sched, d) \subseteq S
  <2>1. Queued(c1) /\ Same(b, c1, {"sched", "n_scheduled"}) /\ Dropped(b, c1, S)
    BY <1>0, <1>3, <1>4, SchedRemoved
  <2> QED
    BY <2>1 DEF Dropped
<1>6. /\ c1.unacked = c.unacked /\ c1.lost = c.lost /\ c1.batch = c.batch /\ c1.released = c.released
      /\ c1.senhist = c.senhist /\ c1.gap = c.gap /\ c1.retx_alarm = c.retx_alarm
  BY <1>2, <1>5 DEF Again, Same, CtlFields, Queued, Typed
<1>7. RetxOf(c1) = RetxOf(c)
  BY <1>6 DEF RetxOf
<1>9. U \in SUBSET (DOMAIN c1.unacked)
  BY DEF ItemsAt, U
<1>10. /\ Queued(c2) /\ Same(c1, c2, Unsent)
       /\ \A d : Alone(c1.unacked, d) => Alone(c2.unacked, d)
       /\ \A d : DatumAt(c2.unacked, d) = {} <=> DatumAt(c1.unacked, d) \subseteq U
       /\ \A E : ItemsAt(c2.unacked, E) = {} <=> ItemsAt(c1.unacked, E) \subseteq U
       /\ RetxOf(c1) = {} => RetxOf(c2) = {}
  BY <1>0, <1>5, <1>9, UnackedRemoved
<1>11. /\ c2.sched = c1.sched /\ c2.lost = c.lost /\ c2.batch = c.batch /\ c2.released = c.released
       /\ c2.senhist = c.senhist /\ c2.gap = c.gap /\ c2.retx_alarm = c.retx_alarm
       /\ DOMAIN c2 = CtlFields
  BY <1>6, <1>10 DEF Same, Unsent, CtlFields, Queued, Typed
<1> DEFINE M == DOMAIN c.lost \ L
<1>12. /\ e.lost = Select(c.lost, M) /\ e.released = R
       /\ Same(c2, e, {"lost", "released"})
  BY <1>8, <1>11 DEF Same, CtlFields
<1>13. /\ e.sched = c1.sched /\ e.unacked = c2.unacked /\ e.batch = c.batch
       /\ e.senhist = c.senhist /\ e.gap = c.gap /\ e.retx_alarm = c.retx_alarm
       /\ e.cur_packno = c2.cur_packno /\ e.n_scheduled = c2.n_scheduled
       /\ e.n_in_flight_all = c2.n_in_flight_all /\ e.n_in_flight_retx = c2.n_in_flight_retx
       /\ DOMAIN e = CtlFields
  BY <1>11, <1>12 DEF Same, CtlFields
<1>14. c.lost \in Seq(Packet) /\ M \in SUBSET (DOMAIN c.lost)
  BY DEF Queued, Typed
<1>15. Keeps(c.lost, M, e.lost)
  BY <1>12, <1>14, SelectKeeps
<1>16. R \in [Data -> Nat] /\ \A d \in Data : R[d] = c.released[d] + (IF d \in D THEN Cardinality(Places(c, d)) ELSE 0)
  <2>1. \A d \in D : Cardinality(Places(c, d)) \in Nat
    BY PlacesCount
  <2>2. c.released \in [Data -> Nat]
    BY DEF Queued, Typed
  <2> QED
    BY <1>11, <2>1, <2>2
<1> HIDE DEF R
<1>17. Typed(e)
  BY <1>10, <1>11, <1>12, <1>13, <1>15, <1>16 DEF Queued, Typed, Keeps
<1>18. Counted(e) /\ RetxOf(e) = RetxOf(c2)
  BY <1>10, <1>11, <1>13 DEF Queued, Counted, RealOf, RetxOf
<1>19. Sorted(e)
  BY <1>10, <1>11, <1>13, <1>14, <1>15 DEF Queued, Sorted, Keeps
<1>20. InOrder(e)
  BY <1>10, <1>11, <1>13 DEF Queued, InOrder
<1>21. ASSUME NEW d \in Data, NEW q
       PROVE  /\ d \in D => DatumAt(q, d) \subseteq ItemsAt(q, D) /\ ItemsAt(q, {d}) \subseteq ItemsAt(q, D)
              /\ d \notin D => \A i \in ItemsAt(q, D) : i \notin DatumAt(q, d) /\ i \notin ItemsAt(q, {d})
  BY DEF DatumAt, ItemsAt
<1>22. ASSUME NEW d \in Data
       PROVE  /\ DatumAt(e.sched, d) = {} <=> DatumAt(c.sched, d) = {} \/ d \in D
              /\ Alone(c.sched, d) => Alone(e.sched, d)
  <2>1. DatumAt(e.sched, d) = {} <=> DatumAt(c.sched, d) \subseteq S
    BY <1>3, <1>5, <1>13
  <2>2. Alone(c.sched, d) => Alone(e.sched, d)
    <3>1. Alone(c.sched, d) => Alone(b.sched, d)
      BY <1>3 DEF Alone
    <3> QED
      BY <1>5, <1>13, <3>1
  <2> QED
    BY <1>21, <2>1, <2>2 DEF S
<1>23. ASSUME NEW d \in Data
       PROVE  /\ DatumAt(e.unacked, d) = {} <=> DatumAt(c.unacked, d) = {} \/ d \in D
              /\ ItemsAt(e.unacked, {d}) = {} <=> ItemsAt(c.unacked, {d}) = {} \/ d \in D
              /\ Alone(c.unacked, d) => Alone(e.unacked, d)
  <2>1. DatumAt(e.unacked, d) = {} <=> DatumAt(c.unacked, d) \subseteq U
    BY <1>6, <1>10, <1>13
  <2>2. ItemsAt(e.unacked, {d}) = {} <=> ItemsAt(c.unacked, {d}) \subseteq U
    BY <1>6, <1>10, <1>13
  <2>3. Alone(c.unacked, d) => Alone(e.unacked, d)
    BY <1>6, <1>10, <1>13
  <2> QED
    BY <1>6, <1>21, <2>1, <2>2, <2>3 DEF U
<1>24. ASSUME NEW d \in Data
       PROVE  /\ DatumAt(e.lost, d) = {} <=> DatumAt(c.lost, d) = {} \/ d \in D
              /\ Alone(c.lost, d) => Alone(e.lost, d)
  <2>1. DatumAt(e.lost, d) = {} <=> DatumAt(c.lost, d) \cap M = {}
    BY <1>15 DEF Keeps
  <2>2. DatumAt(c.lost, d) \subseteq DOMAIN c.lost
    BY DEF DatumAt
  <2> QED
    BY <1>11, <1>15, <1>21, <2>1, <2>2 DEF Keeps
<1>25. ASSUME NEW d \in Data, NEW i \in DatumAt(e.sched, d), e.sched[i].ack
       PROVE  \E j \in DatumAt(c.sched, d) : c.sched[j].ack
  <2>1. PICK k \in DOMAIN b.sched : e.sched[i] = b.sched[k]
    <3>1. i \in DOMAIN c1.sched /\ e.sched[i] = c1.sched[i]
      BY <1>13, <1>25 DEF DatumAt
    <3>2. \E k \in DOMAIN b.sched \ S : c1.sched[i] = b.sched[k]
      BY <1>5, <3>1
    <3> QED
      BY <3>1, <3>2
  <2>2. k \in DatumAt(b.sched, d) /\ b.sched[k].ack
    BY <1>25, <2>1 DEF DatumAt
  <2>3. k \in DatumAt(c.sched, d)
    BY <1>3, <2>2
  <2>4. k \in DOMAIN c.sched
    BY <2>3 DEF DatumAt
  <2> QED
    BY <1>2, <2>2, <2>3, <2>4 DEF Again, LikeSched
<1>26. Queued(e)
  BY <1>17, <1>18, <1>19, <1>20 DEF Queued
<1>27. RetxOf(c) = {} => RetxOf(e) = {}
  BY <1>7, <1>10, <1>18
<1>28. \A d \in Data : e.released[d] = c.released[d] + (IF d \in D THEN Cardinality(Places(c, d)) ELSE 0)
  BY <1>12, <1>16
<1> QED
  BY <1>13, <1>22, <1>23, <1>24, <1>25, <1>26, <1>27, <1>28 DEF Destroyed

\* A datum whose chain is destroyed is nowhere; another is as it was.
LEMMA DestroyedKept ==
  ASSUME NEW c, NEW e, NEW D \in SUBSET Data, Destroyed(c, e, D), c.batch = <<>>,
         \A d \in Data : Once(c, d), \A d \in Data \ D : Recorded(c, d), Typed(c)
  PROVE  \A d \in Data :
           /\ Kept(e, d)
           /\ Places(e, d) = {} <=> Places(c, d) = {} \/ d \in D
           /\ d \notin D => e.released[d] = c.released[d]
           /\ d \in D => e.released[d] = IF Places(c, d) = {} THEN c.released[d] ELSE 1
<1> SUFFICES ASSUME NEW d \in Data
             PROVE  /\ Kept(e, d)
                    /\ Places(e, d) = {} <=> Places(c, d) = {} \/ d \in D
                    /\ d \notin D => e.released[d] = c.released[d]
                    /\ d \in D => e.released[d] = IF Places(c, d) = {} THEN c.released[d] ELSE 1
  OBVIOUS
<1>1. /\ DatumAt(e.sched, d) = {} <=> DatumAt(c.sched, d) = {} \/ d \in D
      /\ DatumAt(e.unacked, d) = {} <=> DatumAt(c.unacked, d) = {} \/ d \in D
      /\ DatumAt(e.lost, d) = {} <=> DatumAt(c.lost, d) = {} \/ d \in D
      /\ ItemsAt(e.unacked, {d}) = {} <=> ItemsAt(c.unacked, {d}) = {} \/ d \in D
      /\ Alone(c.sched, d) => Alone(e.sched, d)
      /\ Alone(c.unacked, d) => Alone(e.unacked, d)
      /\ Alone(c.lost, d) => Alone(e.lost, d)
      /\ \A i \in DatumAt(e.sched, d) : e.sched[i].ack => \E j \in DatumAt(c.sched, d) : c.sched[j].ack
      /\ e.released[d] = c.released[d] + (IF d \in D THEN Cardinality(Places(c, d)) ELSE 0)
      /\ e.batch = c.batch
  BY DEF Destroyed
<1>2. DatumAt(e.batch, d) = {} /\ DatumAt(c.batch, d) = {} /\ Alone(e.batch, d)
  BY <1>1 DEF DatumAt, Alone
<1>3. Absent(e, d) <=> Absent(c, d) \/ d \in D
  BY <1>1, <1>2 DEF Absent
<1>4. Lonely(c, d) /\ (c.released[d] = 0 \/ (c.released[d] = 1 /\ Absent(c, d)))
  BY OnceIs
<1>5. Lonely(e, d)
  BY <1>1, <1>2, <1>4 DEF Lonely
<1>6. c.released[d] \in Nat
  BY DEF Typed
<1>7. d \in D => e.released[d] = IF Places(c, d) = {} THEN c.released[d] ELSE 1
  BY <1>1, <1>4, <1>6, PlacesCount, OnceIs
<1>8. d \notin D => e.released[d] = c.released[d]
  BY <1>1, <1>6
<1>9. e.released[d] = 0 \/ (e.released[d] = 1 /\ Absent(e, d))
  BY <1>3, <1>4, <1>7, <1>8
<1>10. CASE d \in D
  <2>1. DatumAt(e.sched, d) = {} /\ ItemsAt(e.unacked, {d}) = {}
    BY <1>1, <1>10
  <2>2. Kept(e, d)
    BY <1>5, <1>9, <2>1, KeptIs
  <2> QED
    BY <1>3, <1>7, <1>10, <2>2, OnceIs
<1>11. CASE d \notin D
  <2>1. Kept(c, d)
    BY <1>11 DEF Kept
  <2>2. Absent(e, d) => ItemsAt(e.unacked, {d}) = {}
    BY <1>1, <1>3, <1>11, <2>1, KeptIs
  <2>3. \A i \in DatumAt(e.sched, d) : e.sched[i].ack => ItemsAt(e.unacked, {d}) = {}
    BY <1>1, <1>11, <2>1, KeptIs
  <2>4. Kept(e, d)
    BY <1>2, <1>5, <1>9, <2>2, <2>3, KeptIs
  <2> QED
    BY <1>3, <1>8, <1>11, <2>4, OnceIs
<1> QED
  BY <1>10, <1>11

\* The scheduled packets that destroy_chains leaves, and the number last given.
LEMMA DestroyedSched ==
  ASSUME NEW c, Queued(c), NEW D, NEW e, e = destroy_chains(c, D),
         NEW b, b = renumber_to_right(c, ItemsAt(c.sched, D))
  PROVE  /\ e.sched = Select(b.sched, DOMAIN b.sched \ ItemsAt(c.sched, D))
         /\ e.cur_packno = b.cur_packno /\ e.batch = b.batch /\ e.senhist = b.senhist /\ e.gap = b.gap
<1> DEFINE S == ItemsAt(c.sched, D)
           c1 == sched_remove(b, S)
           c2 == unacked_remove(c1, ItemsAt(c.unacked, D))
<1>1. Again(c, b)
  BY Renumbered DEF ItemsAt
<1>2. Queued(b)
  BY <1>1, AgainQueued
<1> HIDE DEF S
<1>3. /\ c1.sched = Select(b.sched, DOMAIN b.sched \ S) /\ c1.unacked = c.unacked
      /\ Same(b, c1, {"sched", "n_scheduled"})
  BY <1>1, <1>2 DEF sched_remove, Again, Same, CtlFields, Queued, Typed
<1>4. e = [c2 EXCEPT !.lost = Select(@, DOMAIN @ \ ItemsAt(@, D)),
                     !.released = [d \in Data |-> @[d] + (IF d \in D THEN Cardinality(Places(c, d)) ELSE 0)]]
  BY <1>3 DEF destroy_chains, S
<1> HIDE DEF c1
<1>5. Same(c1, c2, Unsent)
  BY <1>2, <1>3 DEF unacked_remove, Same, Unsent, CtlFields, Queued, Typed
<1> HIDE DEF c2
<1>6. Same(c2, e, {"lost", "released"})
  BY <1>2, <1>3, <1>4, <1>5 DEF Same, CtlFields, Queued, Typed
<1> QED
  BY <1>2, <1>3, <1>5, <1>6 DEF Same, Unsent, CtlFields, Queued, Typed, S

\* destroy_chains: what is left to be sent has the numbers that come next, or is
\* marked for a new one.
LEMMA NumbersDestroyed ==
  ASSUME NEW c, Queued(c), Numbered(c), NEW D, NEW e, e = destroy_chains(c, D)
  PROVE  /\ Numbered(e)
         /\ (ItemsAt(c.sched, D) = {} /\ \A i \in DOMAIN c.sched : ~c.sched[i].repack)
              => \A i \in DOMAIN e.sched : ~e.sched[i].repack
<1> DEFINE S == ItemsAt(c.sched, D)
           N == {i \in S : ~c.sched[i].repack}
           l == Len(c.batch)
           q == c.sched
<1>1. PICK b : b = renumber_to_right(c, S)
  OBVIOUS
<1>2. Again(c, b)
  BY <1>1, Renumbered DEF ItemsAt
<1> DEFINE M == DOMAIN b.sched \ S
<1>3. /\ e.sched = Select(b.sched, M)
      /\ e.cur_packno = b.cur_packno /\ e.batch = b.batch /\ e.senhist = b.senhist /\ e.gap = b.gap
  BY <1>1, DestroyedSched
<1>4. /\ b.batch = c.batch /\ b.senhist = c.senhist /\ b.gap = c.gap
  BY <1>2 DEF Again, Same, CtlFields, Queued, Typed
<1>5. /\ c.senhist \in Nat /\ c.gap \in Nat /\ c.senhist # c.gap /\ l \in Nat
      /\ q \in Seq(Packet) /\ DOMAIN q = 1..Len(q) /\ Len(q) \in Nat
  BY DEF Queued, Typed, InOrder
<1>6. BatchOn(c)
  BY NumberedIs
<1>7. PICK k \in 0..Len(q) : UpTo(c, k) /\ Last(c, l + k)
  BY NumberedIs
<1>8. BatchOn(e) /\ (\A m : Nth(e, m) = Nth(c, m)) /\ Len(e.batch) = l
  BY <1>3, <1>4, <1>6, NthSame
<1>9. S \in SUBSET (0..Len(q)) /\ S \subseteq DOMAIN q
  BY <1>5 DEF ItemsAt
<1>10. b.sched \in Seq(Packet) /\ DOMAIN b.sched = DOMAIN q
       /\ \A i \in DOMAIN q : b.sched[i].no = q[i].no
  BY <1>2 DEF Again, LikeSched
<1>11. ASSUME NEW p \in Nat, p <= k, 1..p \subseteq M,
              \A i \in 1..p : b.sched[i].repack = q[i].repack,
              \A i \in M : i > p => b.sched[i].repack,
              Last(e, l + p)
       PROVE  Numbered(e)
  <2>1. M \in SUBSET (DOMAIN b.sched)
    OBVIOUS
  <2> HIDE DEF M
  <2>2. /\ p <= Len(e.sched)
        /\ \A i \in 1..p : e.sched[i] = b.sched[i]
        /\ \A i \in DOMAIN e.sched : i > p => \E j \in M : j > p /\ e.sched[i] = b.sched[j]
    <3>1. Begins(b.sched, M, e.sched, p)
      BY <1>3, <1>10, <1>11, <2>1, SelectPrefix
    <3> QED
      BY <3>1 DEF Begins
  <2>3. e.sched \in Seq(Packet)
    BY <1>3, <1>10, <2>1, SelectIs
  <2>4. DOMAIN e.sched = 1..Len(e.sched) /\ Len(e.sched) \in Nat
    BY <2>3
  <2>5. ASSUME NEW i \in 1..p
        PROVE  ~e.sched[i].repack /\ e.sched[i].no = Nth(e, l + i)
    <3>1. i \in DOMAIN q /\ i <= k
      BY <1>5, <1>7, <1>11
    <3>2. ~q[i].repack /\ q[i].no = Nth(c, l + i)
      BY <1>7, <3>1 DEF UpTo
    <3> QED
      <4>1. e.sched[i] = b.sched[i] /\ b.sched[i].repack = q[i].repack /\ b.sched[i].no = q[i].no
        BY <1>10, <1>11, <2>2, <3>1
      <4> QED
        BY <1>8, <3>2, <4>1
  <2>6. \A i \in DOMAIN e.sched : i > p => e.sched[i].repack
    BY <1>11, <2>2
  <2>7. UpTo(e, p)
    BY <1>8, <2>4, <2>5, <2>6 DEF UpTo
  <2>8. p \in 0..Len(e.sched)
    BY <2>2, <2>4, <1>11
  <2> QED
    BY <1>8, <1>11, <2>7, <2>8, NumberedIs
<1>12. CASE N = {}
  <2>1. b = c
    BY <1>1, <1>12 DEF renumber_to_right
  <2>2. \A i \in S : q[i].repack
    BY <1>12
  <2>3. 1..k \subseteq M
    <3> SUFFICES ASSUME NEW i \in 1..k, i \in S
                 PROVE  FALSE
      BY <1>5, <1>7, <1>10
    <3>1. i \in DOMAIN q /\ i <= k
      BY <1>9, <1>7
    <3> QED
      BY <1>7, <2>2, <3>1 DEF UpTo
  <2>4. Last(e, l + k)
    BY <1>3, <1>7, <2>1, NthSame
  <2>5. ASSUME NEW i \in M, i > k
        PROVE  b.sched[i].repack
    BY <1>5, <1>7, <2>1, <2>5 DEF UpTo
  <2>6. Numbered(e)
    BY <1>7, <1>11, <2>1, <2>3, <2>4, <2>5
  <2>7. ASSUME \A i \in DOMAIN q : ~q[i].repack
        PROVE  \A i \in DOMAIN e.sched : ~e.sched[i].repack
    <3>1. Keeps(b.sched, M, e.sched)
      BY <1>3, <1>10, SelectKeeps
    <3> QED
      BY <2>1, <2>7, <3>1 DEF Keeps
  <2> QED
    BY <2>6, <2>7
<1>13. CASE N # {}
  <2> DEFINE m == MinOf(N)
  <2>1. N \in SUBSET (0..Len(q))
    BY <1>9
  <2> HIDE DEF N
  <2>2. m \in N /\ \A i \in N : m <= i
    BY <1>5, <1>13, <2>1, Extremes
  <2>3. m \in S /\ ~q[m].repack /\ m \in DOMAIN q
    BY <1>9, <2>2 DEF N
  <2>4. m <= k /\ m \in Nat /\ m > 0
    BY <1>5, <1>7, <2>3 DEF UpTo
  <2>5. q[m].no = Nth(c, l + m)
    BY <1>7, <2>3, <2>4 DEF UpTo
  <2> HIDE DEF m
  <2>6. b = [c EXCEPT !.cur_packno = q[m].no - 1,
                      !.sched = [i \in DOMAIN q |-> IF i > m THEN [q[i] EXCEPT !.repack = TRUE] ELSE q[i]]]
    BY <1>1, <1>13 DEF renumber_to_right, N, m
  <2>7. /\ b.cur_packno = q[m].no - 1
        /\ b.sched = [i \in DOMAIN q |-> IF i > m THEN [q[i] EXCEPT !.repack = TRUE] ELSE q[i]]
    BY <2>6 DEF Queued, Typed, CtlFields
  <2>8. \A i \in DOMAIN q : i > m => b.sched[i].repack
    <3>1. \A i \in DOMAIN q : q[i] \in Packet
      BY <1>5
    <3>2. ASSUME NEW i \in DOMAIN q, i > m
          PROVE  b.sched[i].repack
      <4>1. b.sched[i] = [q[i] EXCEPT !.repack = TRUE]
        BY <2>7, <3>2
      <4> QED
        BY <3>1, <4>1 DEF Packet
    <3> QED
      BY <3>2
  <2>9. \A i \in DOMAIN q : i < m => b.sched[i] = q[i]
    BY <1>5, <2>4, <2>7
  <2> DEFINE p == m - 1
  <2>10. p \in Nat /\ p <= k /\ l + p \in Nat /\ l + m = (l + p) + 1 /\ p < m
    BY <1>5, <1>7, <2>4
  <2>11. 1..p \subseteq M
    <3> SUFFICES ASSUME NEW i \in 1..p, i \in S
                 PROVE  FALSE
      BY <1>5, <1>7, <1>10, <2>10
    <3>1. i \in DOMAIN q /\ i <= k /\ i < m /\ i \in Nat
      BY <1>9, <1>7, <2>4, <2>10
    <3>2. ~q[i].repack
      BY <1>7, <3>1 DEF UpTo
    <3>3. i \in N
      BY <3>2 DEF N
    <3> QED
      BY <2>2, <2>4, <3>1, <3>3
  <2>12. ASSUME NEW i \in 1..p
         PROVE  b.sched[i].repack = q[i].repack
    BY <1>5, <1>7, <2>4, <2>9
  <2>13. \A i \in M : i > p => b.sched[i].repack
    <3> SUFFICES ASSUME NEW i \in M, i > p
                 PROVE  b.sched[i].repack
      OBVIOUS
    <3>1. i \in DOMAIN q /\ i # m /\ i \in Nat
      BY <1>5, <1>10, <2>3
    <3> QED
      BY <2>4, <2>8, <3>1
  <2>14. Last(e, l + p)
    <3>1. e.cur_packno = Nth(c, (l + p) + 1) - 1
      BY <1>3, <2>5, <2>7, <2>10
    <3> HIDE DEF p
    <3> QED
      BY <1>3, <1>4, <1>5, <2>10, <3>1, LastBack
  <2>15. Numbered(e)
    <3> HIDE DEF p, M
    <3> QED
      BY <1>11, <2>10, <2>11, <2>12, <2>13, <2>14
  <2>16. S # {}
    BY <2>3
  <2> QED
    BY <2>15, <2>16
<1> QED
  BY <1>12, <1>13

-------------------------------------------------------------------------------
(* The loops of loss detection, of the alarm and of an ACK.                *)

\* A step that loses packets leaves every datum in a place.
Loses(c, e) == Good(e) /\ Stays(c, e) /\ e.gap = c.gap

\* handle_lost after a change of the fields aside.
LEMMA AsideLoses ==
  ASSUME NEW c, Good(c), NEW b, Same(c, b, Aside), NEW L \in SUBSET RealOf(b), NEW F,
         NEW e, e = handle_lost(b, L, F)
  PROVE  Loses(c, e) /\ e.retx_alarm = b.retx_alarm
<1>1. Good(b) /\ Stays(c, b)
  BY AsideGood
<1>2. Good(e) /\ Stays(b, e) /\ e.gap = b.gap /\ e.retx_alarm = b.retx_alarm
  BY <1>1, LostHandled
<1>3. b.gap = c.gap
  BY AsideSame DEF Good, Typed
<1> QED
  BY <1>1, <1>2, <1>3 DEF Loses, Stays

\* send_ctl_detect_losses loses packets that are in flight, and no datum.
LEMMA LossesDetected ==
  ASSUME NEW c, Good(c), NEW old, NEW e, e = detect_losses(c, old)
  PROVE  Loses(c, e) /\ e.retx_alarm = c.retx_alarm
<1> DEFINE No(i) == c.unacked[i].no
           seen == Upto(c.unacked, c.largest_acked) \cap RealOf(c)
           far == {i \in seen : No(i) + c.reord_thresh < c.largest_acked}
           early == {i \in (seen \cap RetxOf(c)) \ far : \A j \in RetxOf(c) : No(j) <= c.largest_acked}
           late == {i \in seen : No(i) <= old}
           b == [c EXCEPT !.loss_to = early # {}]
           L == far \cup early \cup late
<1>1. e = handle_lost(b, L, far)
  BY DEF detect_losses
<1>2. L \in SUBSET RealOf(c)
  OBVIOUS
<1> HIDE DEF early, far, L
<1>3. Same(c, b, Aside) /\ b.retx_alarm = c.retx_alarm
  BY DEF Same, Aside, CtlFields, Good, Typed
<1> HIDE DEF b
<1>4. RealOf(b) = RealOf(c)
  BY <1>3, AsideSame DEF Good, Typed
<1> QED
  BY <1>1, <1>2, <1>3, <1>4, AsideLoses

\* The same step, after a change of the fields aside.
LEMMA LosesAfter ==
  ASSUME NEW c, Good(c), NEW b, Same(c, b, Aside), NEW e, Loses(b, e)
  PROVE  Loses(c, e)
<1>1. Good(b) /\ Stays(c, b)
  BY AsideGood
<1>2. b.gap = c.gap
  BY AsideSame DEF Good, Typed
<1> QED
  BY <1>1, <1>2 DEF Loses, Stays

\* The alarm rings: packets are lost, or none, and it is set for what is in flight.
LEMMA AlarmRings ==
  ASSUME NEW c, Good(c), NEW old, NEW long, NEW e, e = retx_alarm_rings(c, old, long)
  PROVE  Loses(c, e) /\ (RetxOf(e) # {} => e.retx_alarm)
<1> DEFINE b == [c EXCEPT !.retx_alarm = FALSE]
           c1 == Ringing(b, old, long)
           b2 == [b EXCEPT !.n_tlp = @ + 1]
           b3 == [b EXCEPT !.n_consec_rtos = 1, !.next_limit = 2, !.sent_since = FALSE]
<1>0. DOMAIN c = CtlFields
  BY DEF Good, Typed
<1>1. e = [c1 EXCEPT !.retx_alarm = RetxOf(c1) # {}]
  BY DEF retx_alarm_rings
<1>2. Same(c, b, Aside) /\ Same(c, b2, Aside) /\ Same(c, b3, Aside)
  BY <1>0 DEF Same, Aside, CtlFields
<1> HIDE DEF b2, b3
<1>3. Loses(c, c1)
  <2>1. CASE b.loss_to
    <3>1. c1 = detect_losses(b, old)
      BY <2>1 DEF Ringing
    <3> HIDE DEF b, c1
    <3>2. Good(b)
      BY <1>2, AsideGood
    <3> QED
      BY <1>2, <3>1, <3>2, LossesDetected, LosesAfter
  <2>2. CASE ~b.loss_to /\ b.n_tlp < 2
    <3> DEFINE L == {i \in RetxOf(b2) : \A j \in RetxOf(b2) : j <= i}
    <3>1. c1 = handle_lost(b2, L, {})
      BY <2>2 DEF Ringing, expire_last, b2
    <3>2. L \in SUBSET RealOf(b2)
      BY DEF RetxOf, RealOf, Retx, Real
    <3> HIDE DEF L, c1
    <3> QED
      BY <1>2, <3>1, <3>2, AsideLoses
  <2>3. CASE ~b.loss_to /\ ~(b.n_tlp < 2) /\ (b.acked_1rtt \/ long)
    <3>1. c1 = handle_lost(b3, RealOf(b3), {})
      BY <2>3 DEF Ringing, expire_all, b3
    <3> HIDE DEF c1
    <3> QED
      BY <1>2, <3>1, AsideLoses
  <2>4. CASE ~b.loss_to /\ ~(b.n_tlp < 2) /\ ~(b.acked_1rtt \/ long)
    <3>1. c1 = handle_lost(b, RealOf(b), {})
      BY <2>4 DEF Ringing, expire_all
    <3> HIDE DEF c1, b
    <3> QED
      BY <1>2, <3>1, AsideLoses
  <2> QED
    BY <2>1, <2>2, <2>3, <2>4
<1> HIDE DEF c1
<1>4. Same(c1, e, Aside) /\ e.retx_alarm = (RetxOf(c1) # {})
  BY <1>1, <1>3 DEF Same, Aside, CtlFields, Loses, Good, Typed
<1>5. Good(e) /\ Stays(c1, e) /\ RetxOf(e) = RetxOf(c1) /\ e.gap = c1.gap
  BY <1>3, <1>4, AsideGood, AsideSame DEF Loses, Good, Typed
<1> QED
  BY <1>3, <1>4, <1>5 DEF Loses, Stays

\* The data D leave the controller, acknowledged, and the rest stays.
Leaves(c, e, D) ==
  /\ \A d \in Data :
       /\ Places(e, d) = {} <=> Places(c, d) = {} \/ d \in D
       /\ d \notin D => e.released[d] = c.released[d]
       /\ d \in D => e.released[d] = IF Places(c, d) = {} THEN c.released[d] ELSE 1
  /\ RetxOf(c) = {} => RetxOf(e) = {}
  /\ e.batch = c.batch /\ e.senhist = c.senhist

\* destroy_chains, between two ticks, keeps the invariant.
LEMMA ChainsGood ==
  ASSUME NEW c, Good(c), c.batch = <<>>, NEW D \in SUBSET Data, NEW e, e = destroy_chains(c, D)
  PROVE  Good(e) /\ Leaves(c, e, D) /\ e.gap = c.gap /\ e.retx_alarm = c.retx_alarm
<1>1. Queued(c) /\ Numbered(c) /\ Typed(c) /\ \A d \in Data : Once(c, d) /\ Recorded(c, d)
  BY DEF Good, Queued
<1>2. Queued(e) /\ Destroyed(c, e, D)
  BY <1>1, ChainsDestroyed
<1>3. Numbered(e)
  BY <1>1, NumbersDestroyed
<1>4. \A d \in Data :
        /\ Kept(e, d)
        /\ Places(e, d) = {} <=> Places(c, d) = {} \/ d \in D
        /\ d \notin D => e.released[d] = c.released[d]
        /\ d \in D => e.released[d] = IF Places(c, d) = {} THEN c.released[d] ELSE 1
  BY <1>1, <1>2, DestroyedKept
<1>5. Good(e)
  BY <1>2, <1>3, <1>4 DEF Good, Queued, Kept
<1> QED
  BY <1>2, <1>4, <1>5 DEF Leaves, Destroyed

\* The data of the packets and records that an ACK names.
Acked(c, S) == {c.unacked[i].item : i \in Named(c, S)} \ {Nothing}

\* The loop of got_ack: the data of the packets and records it meets are
\* acknowledged, each once.
LEMMA PacketsAcked ==
  ASSUME NEW c, Good(c), c.batch = <<>>, NEW S, NEW e, e = ack_packets(c, S)
  PROVE  /\ Good(e) /\ Leaves(c, e, Acked(c, S)) /\ e.gap = c.gap /\ e.retx_alarm = c.retx_alarm
         /\ Acked(c, S) \subseteq Data
<1> DEFINE u == c.unacked
           met == Met(c, S)
           D == {u[i].item : i \in Named(c, S)} \ {Nothing}
           spurious == {i \in met : u[i].kind = "rec" /\ u[i].facked
                               /\ u[i].no + c.reord_thresh < c.largest_acked}
           do_rtt == \/ \E i \in met : u[i].no = MaxOf(S)
                     \/ \E q \in {u, c.sched, c.lost} : \E i \in ItemsAt(q, D) : q[i].no = MaxOf(S)
           c1 == [c EXCEPT !.largest_acked = IF met = {} THEN @ ELSE u[MaxOf(met)].no,
                      !.reord_thresh = IF spurious = {} THEN @
                                       ELSE c.largest_acked - u[MinOf(spurious)].no,
                      !.n_consec_rtos = IF do_rtt THEN 0 ELSE @,
                      !.n_tlp = IF do_rtt THEN 0 ELSE @]
           K == {i \in Named(c, S) : u[i].item = Nothing}
           c2 == unacked_remove(c1, K)
<1>1. e = destroy_chains(c2, D)
  BY DEF ack_packets
<1>2. D = Acked(c, S)
  BY DEF Acked
<1>3. Named(c, S) \subseteq DOMAIN u
  BY DEF Named, Upto
<1>4. D \in SUBSET Data
  <2>1. \A i \in DOMAIN u : u[i].item \in Data \cup {Nothing}
    <3>1. u \in Seq(Packet)
      BY DEF Good, Typed
    <3>2. \A i \in DOMAIN u : u[i] \in Packet
      BY <3>1
    <3> QED
      BY <3>2 DEF Packet
  <2> QED
    BY <1>3, <2>1
<1> HIDE DEF met, D, spurious, do_rtt
<1>5. Same(c, c1, Aside) /\ c1.retx_alarm = c.retx_alarm
  BY DEF Same, Aside, CtlFields, Good, Typed
<1>6. c2 = unacked_remove(c1, K)
  OBVIOUS
<1> HIDE DEF c1, c2
<1>7. Good(c1) /\ Stays(c, c1)
  BY <1>5, AsideGood
<1>8. c1.unacked = u /\ c1.gap = c.gap
  BY <1>5, AsideSame DEF Good, Typed
<1>9. \A i \in K : u[i].kind \notin {"data", "rec"}
  <2>1. Nothing \notin Data
    BY SendAssumption
  <2> QED
    BY <1>3, <2>1 DEF Good, Sorted
<1>10. K \in SUBSET (DOMAIN u)
  BY <1>3
<1>11. Good(c2) /\ Stays(c1, c2) /\ Same(c1, c2, Unsent)
  BY <1>6, <1>7, <1>8, <1>9, <1>10, Dismissed
<1>12. c2.batch = <<>> /\ c2.gap = c.gap /\ c2.retx_alarm = c.retx_alarm
  BY <1>5, <1>7, <1>8, <1>11 DEF Stays, Same, Unsent, CtlFields, Good, Typed
<1>13. Good(e) /\ Leaves(c2, e, D) /\ e.gap = c2.gap /\ e.retx_alarm = c2.retx_alarm
  BY <1>1, <1>4, <1>11, <1>12, ChainsGood
<1>14. Leaves(c, e, D)
  <2>1. /\ c2.batch = c.batch /\ c2.released = c.released /\ c2.senhist = c.senhist
        /\ \A d \in Data : Places(c2, d) = {} <=> Places(c, d) = {}
        /\ RetxOf(c) = {} => RetxOf(c2) = {}
    BY <1>7, <1>11 DEF Stays
  <2> QED
    BY <1>13, <2>1 DEF Leaves
<1> QED
  BY <1>2, <1>4, <1>12, <1>13, <1>14

\* An honest peer's ACK beyond the gap moves the gap past every number that is in use.
LEMMA PoisonRescheduled ==
  ASSUME NEW c, Good(c), c.batch = <<>>, c.gap < c.senhist, NEW rand \in Nat,
         NEW e, e = reschedule_poison(c, rand)
  PROVE  Good(e) /\ Stays(c, e) /\ (e.gap = c.gap \/ e.gap > e.senhist) /\ e.retx_alarm = c.retx_alarm
<1> DEFINE K == {i \in DOMAIN c.unacked : c.unacked[i].kind = "poison"}
           b == unacked_remove(c, K)
<1>1. CASE K = {}
  <2>1. e = c
    BY <1>1 DEF reschedule_poison
  <2> QED
    BY <2>1 DEF Stays
<1>2. CASE K # {}
  <2>1. e = [b EXCEPT !.gap = NewGap(c.cur_packno, rand)]
    BY <1>2 DEF reschedule_poison
  <2>2. b = unacked_remove(c, K)
    OBVIOUS
  <2>3. b.unacked = Select(c.unacked, DOMAIN c.unacked \ K)
    BY DEF unacked_remove, Good, Typed, CtlFields
  <2> HIDE DEF b
  <2>4. Good(b) /\ Stays(c, b) /\ Same(c, b, Unsent)
    BY <2>2, Dismissed
  <2>5. /\ b.sched = c.sched /\ b.cur_packno = c.cur_packno /\ b.senhist = c.senhist /\ b.gap = c.gap
        /\ b.retx_alarm = c.retx_alarm /\ b.batch = <<>> /\ DOMAIN b = CtlFields
    BY <2>4 DEF Same, Unsent, CtlFields, Good, Typed
  <2>6. Same(b, e, {"gap"}) /\ e.gap = c.cur_packno + 1 + rand
    BY <2>1, <2>5 DEF Same, CtlFields, NewGap
  <2>7. /\ e.sched = b.sched /\ e.unacked = b.unacked /\ e.lost = b.lost /\ e.batch = b.batch
        /\ e.n_scheduled = b.n_scheduled /\ e.n_in_flight_all = b.n_in_flight_all
        /\ e.n_in_flight_retx = b.n_in_flight_retx
        /\ e.cur_packno = b.cur_packno /\ e.senhist = b.senhist
        /\ e.released = b.released /\ DOMAIN e = CtlFields /\ e.retx_alarm = b.retx_alarm
    BY <2>5, <2>6 DEF Same, CtlFields
  <2>8. /\ c.senhist \in Nat /\ c.gap \in Nat /\ c.cur_packno \in Int /\ c.sched \in Seq(Packet)
    BY DEF Good, Typed
  <2>9. Len(c.sched) \in Nat /\ Len(<<>>) = 0 /\ DOMAIN c.sched = 1..Len(c.sched)
    BY <2>8
  <2>10. PICK k \in 0..Len(c.sched) : UpTo(c, k) /\ Last(c, k)
    <3>1. PICK k \in 0..Len(c.sched) : UpTo(c, k) /\ Last(c, Len(c.batch) + k)
      BY NumberedIs DEF Good
    <3>2. Len(c.batch) + k = k
      BY <2>9, <3>1
    <3> QED
      BY <3>1, <3>2
  <2>11. \A m \in Nat : Nth(c, m) = c.senhist + m
    BY <2>8 DEF Nth
  <2>12. k \in Nat /\ c.cur_packno = c.senhist + k
    <3>1. k \in Nat
      BY <2>9
    <3>2. Nth(c, k) = c.senhist + k
      BY <2>11, <3>1
    <3> QED
      BY <2>8, <2>10, <3>1, <3>2 DEF Last
  <2>13. e.gap > c.senhist + k /\ e.gap \in Nat
    BY <2>6, <2>8, <2>12
  <2>14. \A m \in 0..k : Nth(e, m) = c.senhist + m
    BY <2>5, <2>7, <2>8, <2>12, <2>13 DEF Nth
  <2>15. UpTo(e, k) /\ Last(e, k)
    <3>1. Last(e, k)
      BY <2>5, <2>7, <2>12, <2>14 DEF Last
    <3>2. ASSUME NEW i \in DOMAIN c.sched, i <= k
          PROVE  Nth(e, 0 + i) = Nth(c, 0 + i)
      <4>1. i \in 0..k /\ 0 + i = i /\ i \in Nat
        BY <2>9, <2>12, <3>2
      <4> QED
        BY <2>11, <2>14, <4>1
    <3>3. Len(e.batch) = 0 /\ Len(c.batch) = 0
      BY <2>5, <2>7, <2>9
    <3>4. UpTo(e, k)
      BY <2>5, <2>7, <2>10, <3>2, <3>3 DEF UpTo
    <3> QED
      BY <3>1, <3>4
  <2>16. Numbered(e)
    <3>1. BatchOn(e)
      BY <2>5, <2>7 DEF BatchOn
    <3>2. Len(e.batch) + k = k /\ Len(e.sched) = Len(c.sched)
      BY <2>5, <2>7, <2>9, <2>12
    <3> QED
      BY <2>10, <2>15, <3>1, <3>2, NumberedIs
  <2>17. \A i \in DOMAIN e.unacked : e.unacked[i].kind # "poison"
    <3>1. Keeps(c.unacked, DOMAIN c.unacked \ K, b.unacked)
      BY <2>3, SelectKeeps DEF Good, Typed
    <3> QED
      BY <2>7, <3>1 DEF Keeps
  <2>18. InOrder(e)
    BY <2>4, <2>5, <2>7, <2>8, <2>12, <2>13, <2>17 DEF Good, InOrder
  <2>19. Typed(e)
    BY <2>4, <2>7, <2>13 DEF Good, Typed
  <2>20. Counted(e) /\ RetxOf(e) = RetxOf(b)
    BY <2>4, <2>7 DEF Good, Counted, RealOf, RetxOf
  <2>21. Sorted(e)
    BY <2>4, <2>7 DEF Good, Sorted
  <2>22. \A d \in Data : Once(e, d) /\ Recorded(e, d) /\ Places(e, d) = Places(b, d)
    BY <2>4, <2>7, AsideKept DEF Good
  <2>23. Good(e)
    BY <2>16, <2>18, <2>19, <2>20, <2>21, <2>22 DEF Good
  <2>24. Stays(c, e)
    BY <2>4, <2>7, <2>20, <2>22 DEF Stays
  <2> QED
    BY <2>5, <2>7, <2>8, <2>12, <2>13, <2>23, <2>24
<1> QED
  BY <1>1, <1>2

\* An ACK.
LEMMA AckGot ==
  ASSUME NEW c, Good(c), c.batch = <<>>, RetxOf(c) # {} => c.retx_alarm,
         NEW S, MinOf(S) \in Nat, MinOf(S) <= c.senhist, NEW old, NEW rand \in Nat,
         NEW e, e = got_ack(c, S, old, rand)
  PROVE  /\ Good(e) /\ Leaves(c, e, Acked(c, S)) /\ Acked(c, S) \subseteq Data
         /\ e.gap = c.gap \/ e.gap > e.senhist
         /\ RetxOf(e) # {} => e.retx_alarm
<1> DEFINE a == ack_packets(c, S)
           c1 == detect_losses(a, old)
           c2 == [c1 EXCEPT !.retx_alarm = RetxOf(c1) # {} /\ (@ \/ c.acked_1rtt),
                       !.acked_1rtt = @ \/ \E i \in Met(c, S) : c.unacked[i].kind # "rec"]
           c3 == IF c.unacked = <<>> THEN c ELSE c2
           D == Acked(c, S)
<1>1. e = IF c.gap < MinOf(S) THEN reschedule_poison(c3, rand) ELSE c3
  BY DEF got_ack
<1>2. Good(a) /\ Leaves(c, a, D) /\ a.gap = c.gap /\ a.retx_alarm = c.retx_alarm /\ D \subseteq Data
  BY PacketsAcked
<1> HIDE DEF a
<1>3. Loses(a, c1) /\ c1.retx_alarm = a.retx_alarm
  BY <1>2, LossesDetected
<1> HIDE DEF c1
<1>4. DOMAIN c1 = CtlFields
  BY <1>3 DEF Loses, Good, Typed
<1>5. Same(c1, c2, Aside) /\ c2.retx_alarm = (RetxOf(c1) # {} /\ (c1.retx_alarm \/ c.acked_1rtt))
  BY <1>4 DEF Same, Aside, CtlFields
<1> HIDE DEF c2, D
<1>6. Good(c2) /\ Stays(c1, c2) /\ c2.gap = c1.gap /\ RetxOf(c2) = RetxOf(c1)
  BY <1>3, <1>4, <1>5, AsideGood, AsideSame DEF Loses
<1>7. Leaves(c, c2, D)
  BY <1>2, <1>3, <1>6 DEF Loses, Stays, Leaves
<1>8. RetxOf(c2) # {} => c2.retx_alarm
  <2>1. RetxOf(c) = {} => RetxOf(c1) = {}
    BY <1>2, <1>3 DEF Loses, Stays, Leaves
  <2> QED
    BY <1>2, <1>3, <1>5, <1>6, <2>1
<1>9. c.unacked = <<>> => D = {}
  BY DEF D, Acked, Named, Upto
<1>10. Leaves(c, c, {})
  BY DEF Leaves
<1>11. /\ Good(c3) /\ Leaves(c, c3, D) /\ c3.gap = c.gap /\ (RetxOf(c3) # {} => c3.retx_alarm)
  BY <1>2, <1>3, <1>6, <1>7, <1>8, <1>9, <1>10 DEF Loses
<1> HIDE DEF c3
<1>12. CASE ~(c.gap < MinOf(S))
  BY <1>1, <1>2, <1>11, <1>12 DEF D
<1>13. CASE c.gap < MinOf(S)
  <2>1. e = reschedule_poison(c3, rand)
    BY <1>1, <1>13
  <2>2. c3.gap < c3.senhist /\ c3.batch = <<>>
    BY <1>11, <1>13 DEF Leaves, Good, Typed
  <2>3. Good(e) /\ Stays(c3, e) /\ (e.gap = c3.gap \/ e.gap > e.senhist) /\ e.retx_alarm = c3.retx_alarm
    BY <1>11, <2>1, <2>2, PoisonRescheduled
  <2> QED
    BY <1>2, <1>11, <2>3 DEF Stays, Leaves, D
<1> QED
  BY <1>12, <1>13

-------------------------------------------------------------------------------
(* Scheduling.                                                             *)

\* The fields that scheduling and taking packets change.
Waiting == {"sched", "n_scheduled", "cur_packno", "lost", "batch", "next_limit"}

\* A step that moves packets between the queues to be sent does not touch what
\* is in flight.
LEMMA WaitingQueued ==
  ASSUME NEW c, Queued(c), NEW e, Same(c, e, Waiting),
         e.sched \in Seq(Packet), e.batch \in Seq(Packet), e.lost \in Seq(Packet),
         e.n_scheduled = Len(e.sched), e.cur_packno \in Int,
         ToSend(e.sched), ToSend(e.batch), \A i \in DOMAIN e.lost : Retx(e.lost[i]) /\ e.lost[i].item \in Data
  PROVE  /\ Queued(e) /\ RetxOf(e) = RetxOf(c)
         /\ e.unacked = c.unacked /\ e.senhist = c.senhist /\ e.gap = c.gap /\ e.released = c.released
         /\ e.retx_alarm = c.retx_alarm
<1>1. /\ e.unacked = c.unacked /\ e.released = c.released /\ DOMAIN e = CtlFields
      /\ e.n_in_flight_all = c.n_in_flight_all /\ e.n_in_flight_retx = c.n_in_flight_retx
      /\ e.senhist = c.senhist /\ e.gap = c.gap /\ e.retx_alarm = c.retx_alarm
  BY DEF Same, Waiting, CtlFields, Queued, Typed
<1>2. RealOf(e) = RealOf(c) /\ RetxOf(e) = RetxOf(c)
  BY <1>1 DEF RealOf, RetxOf
<1>3. Typed(e)
  BY <1>1 DEF Queued, Typed
<1>4. Counted(e)
  BY <1>1, <1>2 DEF Queued, Counted
<1>5. Sorted(e)
  BY <1>1 DEF Queued, Sorted
<1>6. InOrder(e)
  BY <1>1 DEF Queued, InOrder
<1> QED
  BY <1>1, <1>2, <1>3, <1>4, <1>5, <1>6 DEF Queued

\* lsquic_send_ctl_reset_packnos: every scheduled packet gives its number back.
LEMMA PacknosReset ==
  ASSUME NEW c, Queued(c), c.batch = <<>>, NEW e, e = reset_packnos(c)
  PROVE  /\ Again(c, e) /\ Numbered(e) /\ \A i \in DOMAIN e.sched : e.sched[i].repack
         /\ e.cur_packno = Nth(e, 0)
         /\ e.retx_alarm = c.retx_alarm /\ e.senhist = c.senhist /\ e.gap = c.gap /\ e.batch = <<>>
         /\ e.released = c.released /\ e.unacked = c.unacked /\ e.lost = c.lost
<1> DEFINE q == c.sched
           s == [i \in DOMAIN q |-> [q[i] EXCEPT !.repack = TRUE]]
<1>1. /\ DOMAIN c = CtlFields /\ q \in Seq(Packet) /\ DOMAIN q = 1..Len(q) /\ Len(q) \in Nat
      /\ c.senhist \in Nat /\ c.gap \in Nat /\ c.senhist # c.gap
  BY DEF Queued, Typed, InOrder
<1>2. e.sched = s /\ e.cur_packno = c.senhist /\ Same(c, e, {"sched", "cur_packno"})
  BY <1>1 DEF reset_packnos, Same, CtlFields
<1>3. \A i \in DOMAIN q : q[i] \in Packet
  BY <1>1
<1>4. ASSUME NEW i \in DOMAIN q
      PROVE  /\ s[i] \in Packet /\ s[i].kind = q[i].kind /\ s[i].item = q[i].item
             /\ s[i].no = q[i].no /\ s[i].ack = q[i].ack /\ s[i].repack
  <2>1. s[i] = [q[i] EXCEPT !.repack = TRUE]
    OBVIOUS
  <2> HIDE DEF s
  <2> QED
    BY <1>3, <2>1 DEF Packet
<1>5. s = [i \in 1..Len(q) |-> s[i]] /\ DOMAIN s = DOMAIN q
  BY <1>1
<1> HIDE DEF s
<1>6. s \in Seq(Packet) /\ Len(s) = Len(q)
  <2>1. \A i \in 1..Len(q) : s[i] \in Packet
    BY <1>1, <1>4
  <2>2. s \in Seq(Packet)
    BY <1>1, <1>5, <2>1, IsASeq
  <2> QED
    BY <1>1, <1>5, <2>2
<1>7. Again(c, e)
  <2>1. e.cur_packno \in Int
    BY <1>1, <1>2
  <2>2. LikeSched(c, e)
    BY <1>2, <1>4, <1>5, <1>6 DEF LikeSched
  <2> QED
    BY <1>2, <2>1, <2>2 DEF Again
<1>8. \A i \in DOMAIN e.sched : e.sched[i].repack
  BY <1>2, <1>4, <1>5
<1>9. /\ e.retx_alarm = c.retx_alarm /\ e.senhist = c.senhist /\ e.gap = c.gap /\ e.batch = <<>>
      /\ e.released = c.released /\ e.unacked = c.unacked /\ e.lost = c.lost
  BY <1>1, <1>2 DEF Same, CtlFields
<1>10. Nth(e, 0) = e.senhist
  BY <1>1, <1>9, NthIs
<1>11. e.cur_packno = Nth(e, 0)
  BY <1>2, <1>9, <1>10
<1>12. UpTo(e, 0)
  <2>1. \A i \in DOMAIN e.sched : ~(i <= 0)
    BY <1>1, <1>2, <1>5
  <2> QED
    BY <1>8, <2>1 DEF UpTo
<1>13. BatchOn(e)
  BY <1>9 DEF BatchOn
<1>14. Last(e, 0) /\ Len(e.batch) = 0
  BY <1>9, <1>11 DEF Last
<1>15. Numbered(e)
  <2>1. Len(e.batch) + 0 = 0 /\ 0 \in 0..Len(e.sched)
    BY <1>1, <1>2, <1>6, <1>14
  <2> QED
    BY <1>12, <1>13, <1>14, <2>1, NumberedIs
<1> QED
  BY <1>7, <1>8, <1>9, <1>11, <1>15

\* reset_packnos, between two ticks: every scheduled packet gets a new number, so
\* that what was known of the old ones is not needed.
LEMMA ResetGood ==
  ASSUME NEW c, Queued(c), c.batch = <<>>, \A d \in Data : Kept(c, d), NEW e, e = reset_packnos(c)
  PROVE  /\ Good(e) /\ Stays(c, e) /\ e.gap = c.gap /\ e.retx_alarm = c.retx_alarm
         /\ \A i \in DOMAIN e.sched : e.sched[i].repack
<1>1. /\ Again(c, e) /\ Numbered(e) /\ \A i \in DOMAIN e.sched : e.sched[i].repack
      /\ e.retx_alarm = c.retx_alarm /\ e.senhist = c.senhist /\ e.gap = c.gap /\ e.batch = <<>>
      /\ e.released = c.released
  BY PacknosReset
<1>2. /\ Queued(e) /\ RetxOf(e) = RetxOf(c)
      /\ \A d : Places(e, d) = Places(c, d)
      /\ \A d : Once(c, d) => Once(e, d)
      /\ \A d : Recorded(c, d) => Recorded(e, d)
  BY <1>1, AgainQueued
<1>3. Good(e)
  BY <1>1, <1>2 DEF Good, Queued, Kept
<1> QED
  BY <1>1, <1>2, <1>3 DEF Stays

\* lsquic_send_ctl_squeeze_sched: the packets that only carry an ACK go.
LEMMA SchedSqueezed ==
  ASSUME NEW c, Good(c), c.batch = <<>>, NEW e, e = squeeze_sched(c)
  PROVE  Good(e) /\ Stays(c, e) /\ e.gap = c.gap /\ e.retx_alarm = c.retx_alarm
<1> DEFINE K == AckOnly(c)
           b == sched_remove(c, K)
<1>1. CASE K = {}
  <2>1. e = c
    BY <1>1 DEF squeeze_sched
  <2> QED
    BY <2>1 DEF Stays
<1>2. CASE K # {}
  <2>1. e = reset_packnos(b)
    BY <1>2 DEF squeeze_sched
  <2>2. K \in SUBSET (DOMAIN c.sched) /\ b = sched_remove(c, K)
    BY DEF AckOnly
  <2>3. \A d : \A i \in K : i \notin DatumAt(c.sched, d)
    BY DEF AckOnly, DatumAt, Retx
  <2> HIDE DEF b, K
  <2>4. Queued(c)
    BY DEF Good, Queued
  <2>5. Queued(b) /\ Same(c, b, {"sched", "n_scheduled"}) /\ Dropped(c, b, K)
    BY <2>2, <2>4, SchedRemoved
  <2>6. /\ b.unacked = c.unacked /\ b.lost = c.lost /\ b.batch = c.batch /\ b.released = c.released
        /\ b.senhist = c.senhist /\ b.gap = c.gap /\ b.retx_alarm = c.retx_alarm
    BY <2>4, <2>5 DEF Same, CtlFields, Queued, Typed
  <2>7. ASSUME NEW d \in Data
        PROVE  Kept(b, d) /\ (Places(b, d) = {} <=> Places(c, d) = {})
    <3>1. DatumAt(b.sched, d) = {} <=> DatumAt(c.sched, d) = {}
      BY <2>3, <2>5 DEF Dropped
    <3>2. Absent(b, d) <=> Absent(c, d)
      BY <2>6, <3>1 DEF Absent
    <3>3. Kept(c, d)
      BY DEF Good, Kept
    <3>4. Lonely(b, d)
      BY <2>5, <2>6, <3>1, <3>3, KeptIs DEF Lonely, Dropped
    <3>5. ASSUME NEW i \in DatumAt(b.sched, d), b.sched[i].ack
          PROVE  ItemsAt(b.unacked, {d}) = {}
      <4>1. i \in DOMAIN b.sched
        BY <3>5 DEF DatumAt
      <4>2. PICK k \in DOMAIN c.sched : b.sched[i] = c.sched[k]
        BY <2>5, <4>1 DEF Dropped
      <4>3. k \in DatumAt(c.sched, d) /\ c.sched[k].ack
        BY <3>5, <4>2 DEF DatumAt
      <4> QED
        BY <2>6, <3>3, <4>3, KeptIs
    <3>6. Kept(b, d)
      BY <2>6, <3>2, <3>3, <3>4, <3>5, KeptIs
    <3> QED
      BY <3>2, <3>6, OnceIs
  <2>8. Stays(c, b)
    BY <2>6, <2>7 DEF Stays, RetxOf
  <2>9. Good(e) /\ Stays(b, e) /\ e.gap = b.gap /\ e.retx_alarm = b.retx_alarm
    BY <2>1, <2>5, <2>6, <2>7, ResetGood
  <2> QED
    BY <2>6, <2>8, <2>9 DEF Stays
<1> QED
  BY <1>1, <1>2

\* The number that a new packet gets.
LEMMA NextNumber ==
  ASSUME NEW c, Good(c), NEW m \in Nat, Last(c, m)
  PROVE  next_packno(c) = Nth(c, m + 1) /\ next_packno(c) \in Nat
<1>1. c.senhist \in Nat /\ c.gap \in Nat /\ c.senhist # c.gap /\ c.cur_packno \in Int
  BY DEF Good, Typed, InOrder
<1>2. next_packno(c) = Nth(c, m + 1)
  BY <1>1, NthIs
<1>3. m + 1 \in Nat
  OBVIOUS
<1>4. Nth(c, m + 1) \in Nat
  BY <1>1, <1>3, NthIs
<1> QED
  BY <1>2, <1>4

\* A new packet.
LEMMA NewPacketIs ==
  ASSUME NEW no \in Nat, NEW kind \in {"data", "ack", "probe"}, NEW item \in Data \cup {Nothing},
         NEW p, p = NewPacket(no, kind, item)
  PROVE  /\ p \in Packet /\ p.no = no /\ p.kind = kind /\ p.item = item /\ p.repack = FALSE
         /\ p.ack = (kind = "ack")
  BY DEF NewPacket, Packet

\* generate_ack_frame: the ACK's packet goes first and the rest gets new numbers.
LEMMA AckScheduled ==
  ASSUME NEW c, Good(c), c.batch = <<>>, NEW e, e = schedule_ack(c)
  PROVE  /\ Good(e) /\ Stays(c, e) /\ e.gap = c.gap /\ e.retx_alarm = c.retx_alarm
         /\ c.sched = <<>> => \A i \in DOMAIN e.sched : ~e.sched[i].repack
<1> DEFINE b == IF c.sched = <<>> THEN c ELSE reset_packnos(c)
           no == next_packno(b)
           p == NewPacket(no, "ack", Nothing)
<1>1. e = sched_prepend([b EXCEPT !.cur_packno = no], p)
  BY DEF schedule_ack
<1>2. /\ Good(b) /\ Stays(c, b) /\ b.gap = c.gap /\ b.retx_alarm = c.retx_alarm
      /\ \A i \in DOMAIN b.sched : b.sched[i].repack
  <2>1. CASE c.sched = <<>>
    BY <2>1 DEF Stays
  <2>2. CASE c.sched # <<>>
    <3>1. b = reset_packnos(c)
      BY <2>2
    <3>2. Queued(c) /\ \A d \in Data : Kept(c, d)
      BY DEF Good, Queued, Kept
    <3> HIDE DEF b
    <3> QED
      BY <3>1, <3>2, ResetGood
  <2> QED
    BY <2>1, <2>2
<1>3. c.sched = <<>> => b.sched = <<>>
  OBVIOUS
<1> HIDE DEF b
<1>4. b.batch = <<>> /\ Queued(b) /\ b.sched \in Seq(Packet) /\ DOMAIN b = CtlFields
  BY <1>2 DEF Stays, Good, Queued, Typed
<1>5. Len(b.sched) \in Nat /\ DOMAIN b.sched = 1..Len(b.sched) /\ Len(b.batch) = 0
  BY <1>4
<1>6. Last(b, 0)
  <2>1. PICK k \in 0..Len(b.sched) : UpTo(b, k) /\ Last(b, Len(b.batch) + k)
    BY <1>2, NumberedIs DEF Good
  <2>2. k = 0
    <3> SUFFICES ASSUME k # 0
                 PROVE  FALSE
      OBVIOUS
    <3>1. 1 \in DOMAIN b.sched /\ 1 <= k
      BY <1>5, <2>1
    <3> QED
      BY <1>2, <2>1, <3>1 DEF UpTo
  <2> QED
    BY <1>5, <2>1, <2>2
<1>7. no = Nth(b, 1) /\ no \in Nat
  <2>1. next_packno(b) = Nth(b, 0 + 1) /\ next_packno(b) \in Nat
    BY <1>2, <1>6, NextNumber
  <2> QED
    BY <2>1
<1> HIDE DEF no
<1>8. p \in Packet /\ p.no = no /\ p.kind = "ack" /\ p.item = Nothing /\ p.repack = FALSE
  BY <1>7 DEF NewPacket, Packet
<1> HIDE DEF p
<1>9. /\ e.sched = <<p>> \o b.sched /\ e.n_scheduled = b.n_scheduled + 1 /\ e.cur_packno = no
      /\ Same(b, e, {"sched", "n_scheduled", "cur_packno"})
  BY <1>1, <1>4 DEF sched_prepend, Same, CtlFields
<1>10. e.batch = <<>> /\ e.lost = b.lost /\ Same(b, e, Waiting)
  BY <1>4, <1>9 DEF Same, CtlFields, Waiting
<1>11. Joined(<<p>>, b.sched, e.sched)
  BY <1>4, <1>8, <1>9, Ends
<1>12. /\ <<p>> \in Seq(Packet) /\ Len(<<p>>) = 1 /\ DOMAIN <<p>> = {1} /\ <<p>>[1] = p
       /\ \A d : Alone(<<p>>, d)
       /\ \A d : DatumAt(<<p>>, d) = {}
  BY <1>8, OneOf DEF Retx
<1>13. /\ e.sched \in Seq(Packet) /\ Len(e.sched) = Len(b.sched) + 1 /\ e.sched[1] = p
       /\ \A i \in DOMAIN b.sched : 1 + i \in DOMAIN e.sched /\ e.sched[1 + i] = b.sched[i]
       /\ \A i \in DOMAIN e.sched : i = 1 \/ (i > 1 /\ i - 1 \in DOMAIN b.sched /\ 1 + (i - 1) = i)
  <2>1. \A i \in DOMAIN e.sched : i \in Nat
    BY <1>11 DEF Joined
  <2> QED
    BY <1>5, <1>11, <1>12, <2>1 DEF Joined
<1>14. Nothing \notin Data
  BY SendAssumption
<1>15. ToSend(e.sched)
  <2>1. ToSend(b.sched)
    BY <1>4 DEF Queued, Sorted
  <2> QED
    BY <1>8, <1>13, <1>14, <2>1 DEF ToSend, Retx
<1>16. /\ Queued(e) /\ RetxOf(e) = RetxOf(b)
       /\ e.unacked = b.unacked /\ e.senhist = b.senhist /\ e.gap = b.gap /\ e.released = b.released
       /\ e.retx_alarm = b.retx_alarm
  <2>1. /\ e.batch \in Seq(Packet) /\ e.lost \in Seq(Packet) /\ ToSend(e.batch)
        /\ \A i \in DOMAIN e.lost : Retx(e.lost[i]) /\ e.lost[i].item \in Data
        /\ e.n_scheduled = Len(e.sched) /\ e.cur_packno \in Int
    BY <1>4, <1>5, <1>7, <1>9, <1>10, <1>13 DEF Queued, Typed, Sorted, ToSend, Counted
  <2> QED
    <3>1. Queued(b) /\ e.sched \in Seq(Packet)
      BY <1>4, <1>13
    <3> QED
      BY <1>10, <1>15, <2>1, <3>1, WaitingQueued
<1>17. \A m : Nth(e, m) = Nth(b, m)
  BY <1>16, NthSame
<1>18. Numbered(e)
  <2>1. Last(e, 1)
    BY <1>7, <1>9, <1>17 DEF Last
  <2>2. ASSUME NEW i \in DOMAIN e.sched
        PROVE  IF i <= 1 THEN ~e.sched[i].repack /\ e.sched[i].no = Nth(e, Len(e.batch) + i) ELSE e.sched[i].repack
    <3>1. CASE i = 1
      <4>1. Len(e.batch) + 1 = 1
        BY <1>4, <1>5, <1>10
      <4> QED
        BY <1>7, <1>8, <1>13, <1>17, <3>1, <4>1
    <3>2. CASE i # 1
      <4>1. i > 1 /\ i - 1 \in DOMAIN b.sched /\ e.sched[i] = b.sched[i - 1] /\ 1 + (i - 1) = i
        BY <1>13, <3>2
      <4>2. ~(i <= 1)
        <5>1. i - 1 \in Nat
          BY <1>5, <4>1
        <5> QED
          BY <1>5, <1>13, <4>1, <5>1
      <4> QED
        BY <1>2, <4>1, <4>2
    <3> QED
      BY <3>1, <3>2
  <2>3. UpTo(e, 1)
    BY <2>2 DEF UpTo
  <2>4. BatchOn(e)
    BY <1>10 DEF BatchOn
  <2>5. 1 \in 0..Len(e.sched) /\ Len(e.batch) + 1 = 1
    BY <1>4, <1>5, <1>10, <1>13
  <2> QED
    BY <2>1, <2>3, <2>4, <2>5, NumberedIs
<1>19. ASSUME NEW d \in Data
       PROVE  Kept(e, d) /\ (Places(e, d) = {} <=> Places(b, d) = {})
  <2>1. DatumAt(e.sched, d) = {} <=> DatumAt(b.sched, d) = {}
    BY <1>11, <1>12 DEF Joined
  <2>2. Alone(b.sched, d) => Alone(e.sched, d)
    BY <1>11, <1>12 DEF Joined
  <2>3. Absent(e, d) <=> Absent(b, d)
    BY <1>4, <1>10, <1>16, <2>1 DEF Absent
  <2>4. Kept(b, d)
    BY <1>2 DEF Good, Kept
  <2>5. Lonely(e, d)
    BY <1>4, <1>10, <1>16, <2>1, <2>2, <2>4, KeptIs DEF Lonely
  <2>6. ASSUME NEW i \in DatumAt(e.sched, d), e.sched[i].ack
        PROVE  ItemsAt(e.unacked, {d}) = {}
    <3>1. i \in DOMAIN e.sched /\ Retx(e.sched[i]) /\ e.sched[i].item = d
      BY DEF DatumAt
    <3>2. i # 1
      BY <1>8, <1>13, <3>1 DEF Retx
    <3>3. i - 1 \in DatumAt(b.sched, d) /\ b.sched[i - 1].ack
      BY <1>13, <2>6, <3>1, <3>2 DEF DatumAt
    <3> QED
      BY <1>16, <2>4, <3>3, KeptIs
  <2>7. DatumAt(e.batch, d) = {}
    BY <1>10 DEF DatumAt
  <2>8. Kept(e, d)
    BY <1>16, <2>3, <2>4, <2>5, <2>6, <2>7, KeptIs
  <2> QED
    BY <2>3, <2>8, OnceIs
<1>20. Good(e)
  BY <1>16, <1>18, <1>19 DEF Good, Queued, Kept
<1>21. Stays(b, e)
  BY <1>4, <1>10, <1>16, <1>19 DEF Stays
<1>22. ASSUME c.sched = <<>>
       PROVE  \A i \in DOMAIN e.sched : ~e.sched[i].repack
  <2>1. DOMAIN b.sched = {}
    BY <1>3, <1>22
  <2> QED
    BY <1>8, <1>13, <2>1
<1> QED
  BY <1>2, <1>16, <1>20, <1>21, <1>22 DEF Stays

\* No scheduled packet waits for another number.
Plain(c) == \A i \in DOMAIN c.sched : ~c.sched[i].repack

\* The packet p with the next number is put at the end of the scheduled queue,
\* and what that leaves of the invariant.
Appends(c, e, p) ==
  /\ p \in Packet /\ ToSend(<<p>>) /\ ~p.repack /\ p.no = next_packno(c)
  /\ Same(c, e, {"sched", "n_scheduled", "cur_packno", "lost"})
  /\ e.sched = Append(c.sched, p) /\ e.n_scheduled = c.n_scheduled + 1 /\ e.cur_packno = p.no
  /\ e.lost \in Seq(Packet) /\ \A i \in DOMAIN e.lost : Retx(e.lost[i]) /\ e.lost[i].item \in Data
Appended(c, e, p) ==
  /\ Queued(e) /\ Numbered(e) /\ Plain(e) /\ RetxOf(e) = RetxOf(c)
  /\ e.unacked = c.unacked /\ e.senhist = c.senhist /\ e.gap = c.gap /\ e.released = c.released
  /\ e.retx_alarm = c.retx_alarm /\ e.batch = <<>>
  /\ Joined(c.sched, <<p>>, e.sched)

\* A packet with the next number, at the end of packets that have theirs.
LEMMA SchedAppended ==
  ASSUME NEW c, Good(c), c.batch = <<>>, Plain(c), NEW p, NEW e, Appends(c, e, p)
  PROVE  Appended(c, e, p)
<1>0. /\ p \in Packet /\ ToSend(<<p>>) /\ ~p.repack /\ p.no = next_packno(c)
      /\ Same(c, e, {"sched", "n_scheduled", "cur_packno", "lost"})
      /\ e.sched = Append(c.sched, p) /\ e.n_scheduled = c.n_scheduled + 1 /\ e.cur_packno = p.no
      /\ e.lost \in Seq(Packet) /\ \A i \in DOMAIN e.lost : Retx(e.lost[i]) /\ e.lost[i].item \in Data
  BY DEF Appends
<1> DEFINE n == Len(c.sched)
<1>1. Queued(c) /\ Numbered(c) /\ c.sched \in Seq(Packet) /\ DOMAIN c = CtlFields
  BY DEF Good, Queued, Typed
<1>2. n \in Nat /\ DOMAIN c.sched = 1..n /\ Len(c.batch) = 0
  BY <1>1
<1>3. Joined(c.sched, <<p>>, e.sched)
  BY <1>0, <1>1, Ends
<1>4. e.batch = <<>> /\ Same(c, e, Waiting)
  BY <1>0, <1>1 DEF Same, CtlFields, Waiting
<1>5. /\ e.sched \in Seq(Packet) /\ Len(e.sched) = n + 1 /\ e.sched[n + 1] = p /\ DOMAIN e.sched = 1..(n + 1)
      /\ \A i \in 1..n : e.sched[i] = c.sched[i]
  BY <1>0, <1>1, <1>2
<1>6. ToSend(e.sched)
  <2>1. ToSend(c.sched)
    BY <1>1 DEF Queued, Sorted
  <2>2. p.kind \in {"data", "ack", "probe"} /\ (Retx(p) <=> p.item \in Data)
    BY <1>0, OneOf DEF ToSend
  <2> QED
    BY <1>2, <1>5, <2>1, <2>2 DEF ToSend
<1>7. Last(c, n)
  <2>1. PICK k \in 0..n : UpTo(c, k) /\ Last(c, Len(c.batch) + k)
    BY <1>1, NumberedIs
  <2>2. k = n
    <3> SUFFICES ASSUME k < n
                 PROVE  FALSE
      BY <1>2
    <3>1. k + 1 \in DOMAIN c.sched /\ ~(k + 1 <= k)
      BY <1>2, <2>1
    <3> QED
      BY <2>1, <3>1 DEF UpTo, Plain
  <2> QED
    BY <1>2, <2>1, <2>2
<1>8. p.no = Nth(c, n + 1) /\ p.no \in Nat
  BY <1>0, <1>2, <1>7, NextNumber
<1>9. /\ Queued(e) /\ RetxOf(e) = RetxOf(c)
      /\ e.unacked = c.unacked /\ e.senhist = c.senhist /\ e.gap = c.gap /\ e.released = c.released
      /\ e.retx_alarm = c.retx_alarm
  <2>1. /\ e.batch \in Seq(Packet) /\ ToSend(e.batch)
        /\ e.n_scheduled = Len(e.sched) /\ e.cur_packno \in Int
    BY <1>0, <1>1, <1>2, <1>4, <1>5, <1>8 DEF Queued, Typed, Sorted, ToSend, Counted
  <2> QED
    BY <1>0, <1>1, <1>4, <1>5, <1>6, <2>1, WaitingQueued
<1>10. \A m : Nth(e, m) = Nth(c, m)
  BY <1>9, NthSame
<1>11. Plain(e)
  <2>1. \A i \in 1..n : ~c.sched[i].repack
    BY <1>2 DEF Plain
  <2> QED
    BY <1>0, <1>2, <1>5, <2>1 DEF Plain
<1>12. UpTo(e, n + 1)
  <2>1. PICK k \in 0..n : UpTo(c, k)
    BY <1>1, NumberedIs
  <2>2. ASSUME NEW i \in 1..n
        PROVE  c.sched[i].no = Nth(c, Len(c.batch) + i)
    BY <1>2, <2>1 DEF UpTo, Plain
  <2>3. \A i \in 1..(n + 1) : Len(e.batch) + i = i /\ Len(c.batch) + i = i
    BY <1>2, <1>4
  <2>4. \A i \in 1..(n + 1) : e.sched[i].no = Nth(e, i)
    BY <1>0, <1>2, <1>5, <1>8, <1>10, <2>2, <2>3
  <2>5. ASSUME NEW i \in DOMAIN e.sched
        PROVE  i <= n + 1 /\ ~e.sched[i].repack /\ e.sched[i].no = Nth(e, Len(e.batch) + i)
    <3>1. i \in 1..(n + 1)
      BY <1>5
    <3>2. ~e.sched[i].repack
      BY <1>11 DEF Plain
    <3>3. Len(e.batch) + i = i /\ e.sched[i].no = Nth(e, i)
      BY <2>3, <2>4, <3>1
    <3> QED
      BY <1>2, <3>1, <3>2, <3>3
  <2> QED
    BY <2>5 DEF UpTo
<1>13. Numbered(e)
  <2>1. Last(e, n + 1)
    BY <1>0, <1>8, <1>10 DEF Last
  <2>2. BatchOn(e)
    BY <1>4 DEF BatchOn
  <2>3. Len(e.batch) + (n + 1) = n + 1 /\ n + 1 \in 0..Len(e.sched)
    BY <1>2, <1>4, <1>5
  <2> QED
    BY <1>12, <2>1, <2>2, <2>3, NumberedIs
<1> QED
  BY <1>3, <1>4, <1>9, <1>11, <1>13 DEF Appended

\* The datum d enters the scheduled queue, or none does, when d is Nothing.
Enters(c, e, d) ==
  /\ \A x \in Data : Places(e, x) = {} <=> Places(c, x) = {} /\ x # d
  /\ e.released = c.released /\ e.batch = c.batch /\ e.senhist = c.senhist /\ e.gap = c.gap
  /\ RetxOf(e) = RetxOf(c) /\ e.retx_alarm = c.retx_alarm

\* A new packet with a datum that is in no place yet, or a probe.
LEMMA NewScheduled ==
  ASSUME NEW c, Good(c), c.batch = <<>>, Plain(c),
         NEW kind, NEW item, NEW e, e = schedule_new(c, kind, item),
         \/ kind = "probe" /\ item = Nothing
         \/ kind = "data" /\ item \in Data /\ Places(c, item) = {} /\ c.released[item] = 0
  PROVE  Good(e) /\ Enters(c, e, item) /\ Plain(e)
<1> DEFINE no == next_packno(c)
           p == NewPacket(no, kind, item)
<1>1. e = sched_append([c EXCEPT !.cur_packno = no], p)
  BY DEF schedule_new
<1>2. no \in Nat
  <2>1. PICK k \in 0..Len(c.sched) : UpTo(c, k) /\ Last(c, Len(c.batch) + k)
    BY NumberedIs DEF Good
  <2>2. Len(c.batch) + k \in Nat
    <3>1. c.sched \in Seq(Packet) /\ c.batch \in Seq(Packet)
      BY DEF Good, Typed
    <3> QED
      BY <2>1, <3>1
  <2> QED
    BY <2>1, <2>2, NextNumber
<1>3. no = next_packno(c)
  OBVIOUS
<1> HIDE DEF no
<1>4. /\ p \in Packet /\ p.no = no /\ p.kind = kind /\ p.item = item /\ p.repack = FALSE
      /\ ~p.ack
  BY <1>2 DEF NewPacket, Packet
<1>5. DOMAIN c = CtlFields /\ c.sched \in Seq(Packet)
  BY DEF Good, Typed
<1>6. /\ e.sched = Append(c.sched, p) /\ e.n_scheduled = c.n_scheduled + 1 /\ e.cur_packno = no
      /\ Same(c, e, {"sched", "n_scheduled", "cur_packno"})
  BY <1>1, <1>5 DEF sched_append, Same, CtlFields
<1> HIDE DEF p
<1>7. e.lost = c.lost /\ Same(c, e, {"sched", "n_scheduled", "cur_packno", "lost"})
  BY <1>5, <1>6 DEF Same, CtlFields
<1>8. Nothing \notin Data
  BY SendAssumption
<1>9. ToSend(<<p>>)
  BY <1>4, <1>8, OneOf DEF ToSend, Retx
<1>10. /\ Queued(e) /\ Numbered(e) /\ Plain(e) /\ RetxOf(e) = RetxOf(c)
       /\ e.unacked = c.unacked /\ e.senhist = c.senhist /\ e.gap = c.gap /\ e.released = c.released
       /\ e.retx_alarm = c.retx_alarm /\ e.batch = <<>>
       /\ Joined(c.sched, <<p>>, e.sched)
  <2>1. e.lost \in Seq(Packet) /\ \A i \in DOMAIN e.lost : Retx(e.lost[i]) /\ e.lost[i].item \in Data
    BY <1>7 DEF Good, Typed, Sorted
  <2> QED
    <3>1. Appends(c, e, p)
      BY <1>3, <1>4, <1>6, <1>7, <1>9, <2>1 DEF Appends
    <3>2. Appended(c, e, p)
      BY <3>1, SchedAppended
    <3> QED
      BY <3>2 DEF Appended
<1>11. /\ \A d : Alone(<<p>>, d)
       /\ \A d \in Data : DatumAt(<<p>>, d) = {} <=> d # item
  BY <1>4, <1>8, OneOf DEF Retx
<1>12. ASSUME NEW d \in Data
       PROVE  Kept(e, d) /\ (Places(e, d) = {} <=> Places(c, d) = {} /\ d # item)
  <2>1. DatumAt(e.sched, d) = {} <=> DatumAt(c.sched, d) = {} /\ d # item
    BY <1>10, <1>11 DEF Joined
  <2>2. Absent(e, d) <=> Absent(c, d) /\ d # item
    BY <1>7, <1>10, <2>1 DEF Absent
  <2>3. Kept(c, d)
    BY DEF Good, Kept
  <2>4. d = item => Absent(c, d) /\ c.released[d] = 0 /\ ItemsAt(c.unacked, {d}) = {}
    BY <1>8, <2>3, OnceIs, KeptIs
  <2>5. Alone(e.sched, d)
    BY <1>10, <1>11, <2>3, <2>4, KeptIs DEF Joined, Lonely, Absent
  <2>6. Lonely(e, d)
    BY <1>7, <1>10, <2>1, <2>3, <2>4, <2>5, KeptIs DEF Lonely, Absent
  <2>7. ASSUME NEW i \in DatumAt(e.sched, d), e.sched[i].ack
        PROVE  ItemsAt(e.unacked, {d}) = {}
    <3>1. i \in DOMAIN e.sched
      BY DEF DatumAt
    <3>2. CASE i \in DOMAIN c.sched
      <4>1. i \in DatumAt(c.sched, d) /\ c.sched[i].ack
        BY <1>10, <2>7, <3>2 DEF DatumAt, Joined
      <4> QED
        BY <1>10, <2>3, <4>1, KeptIs
    <3>3. CASE i \notin DOMAIN c.sched
      <4>1. Len(c.sched) \in Nat /\ i \in Nat
        BY <1>5, <1>10, <3>1 DEF Joined
      <4>2. i - Len(c.sched) \in DOMAIN <<p>> /\ Len(c.sched) + (i - Len(c.sched)) = i
        BY <1>10, <3>1, <3>3, <4>1 DEF Joined
      <4>3. e.sched[i] = <<p>>[i - Len(c.sched)]
        BY <1>10, <4>2 DEF Joined
      <4>4. e.sched[i] = p
        BY <4>2, <4>3
      <4> QED
        BY <1>4, <2>7, <4>4
    <3> QED
      BY <3>2, <3>3
  <2>8. DatumAt(e.batch, d) = {}
    BY <1>10 DEF DatumAt
  <2>9. Kept(e, d)
    BY <1>10, <2>2, <2>3, <2>4, <2>6, <2>7, <2>8, KeptIs
  <2> QED
    BY <2>2, <2>9, OnceIs
<1>13. Good(e)
  BY <1>10, <1>12 DEF Good, Queued, Kept
<1> QED
  BY <1>10, <1>12, <1>13 DEF Enters

\* A lost packet is scheduled again, with the next number.
LEMMA LostRescheduled ==
  ASSUME NEW c, Good(c), c.batch = <<>>, Plain(c), c.lost # <<>>, NEW e, e = reschedule(c)
  PROVE  Good(e) /\ Enters(c, e, Nothing) /\ Plain(e)
<1> DEFINE h == Head(c.lost)
           t == Tail(c.lost)
           p == update_for_resending(c, h)
           no == next_packno(c)
<1>1. e = sched_append([c EXCEPT !.lost = t, !.cur_packno = p.no], p)
  BY DEF reschedule
<1>2. no \in Nat
  <2>1. PICK k \in 0..Len(c.sched) : UpTo(c, k) /\ Last(c, Len(c.batch) + k)
    BY NumberedIs DEF Good
  <2>2. Len(c.batch) + k \in Nat
    <3>1. c.sched \in Seq(Packet) /\ c.batch \in Seq(Packet)
      BY DEF Good, Typed
    <3> QED
      BY <2>1, <3>1
  <2> QED
    BY <2>1, <2>2, NextNumber
<1>3. DOMAIN c = CtlFields /\ c.sched \in Seq(Packet) /\ c.lost \in Seq(Packet)
  BY DEF Good, Typed
<1>4. Joined(<<h>>, t, c.lost) /\ h \in Packet /\ t \in Seq(Packet) /\ h = c.lost[1] /\ 1 \in DOMAIN c.lost
  <2>1. h \in Packet
    BY <1>3
  <2> QED
    BY <1>3, <2>1, Ends
<1>5. Retx(h) /\ h.item \in Data
  BY <1>4 DEF Good, Sorted
<1>6. no = next_packno(c) /\ p = [h EXCEPT !.no = no, !.repack = FALSE, !.ack = FALSE]
  BY DEF update_for_resending
<1> HIDE DEF no, h, t, p
<1>7. /\ p \in Packet /\ p.no = no /\ p.kind = h.kind /\ p.item = h.item /\ p.repack = FALSE /\ ~p.ack
  BY <1>2, <1>4, <1>6 DEF Packet
<1>8. /\ e.sched = Append(c.sched, p) /\ e.n_scheduled = c.n_scheduled + 1 /\ e.cur_packno = p.no
      /\ e.lost = t /\ Same(c, e, {"sched", "n_scheduled", "cur_packno", "lost"})
  BY <1>1, <1>3 DEF sched_append, Same, CtlFields
<1>9. ToSend(<<p>>)
  BY <1>5, <1>7, OneOf DEF ToSend, Retx
<1>10. /\ Queued(e) /\ Numbered(e) /\ Plain(e) /\ RetxOf(e) = RetxOf(c)
       /\ e.unacked = c.unacked /\ e.senhist = c.senhist /\ e.gap = c.gap /\ e.released = c.released
       /\ e.retx_alarm = c.retx_alarm /\ e.batch = <<>>
       /\ Joined(c.sched, <<p>>, e.sched)
  <2>1. \A i \in DOMAIN c.lost : Retx(c.lost[i]) /\ c.lost[i].item \in Data
    BY DEF Good, Sorted
  <2>2. \A i \in DOMAIN t : Retx(t[i]) /\ t[i].item \in Data
    BY <1>4, <2>1 DEF Joined
  <2> QED
    <3>1. Appends(c, e, p)
      BY <1>4, <1>6, <1>7, <1>8, <1>9, <2>2 DEF Appends
    <3>2. Appended(c, e, p)
      BY <3>1, SchedAppended
    <3> QED
      BY <3>2 DEF Appended
<1>11. /\ \A d : Alone(<<p>>, d) /\ Alone(<<h>>, d)
       /\ \A d : DatumAt(<<p>>, d) = {} <=> d # h.item
       /\ \A d : DatumAt(<<h>>, d) = {} <=> d # h.item
  <2>1. Retx(p)
    BY <1>5, <1>7 DEF Retx
  <2> QED
    <3>1. p \in Packet /\ h \in Packet /\ p.item = h.item
      BY <1>4, <1>7
    <3> QED
      BY <1>5, <2>1, <3>1, OneOf
<1>12. ASSUME NEW d \in Data
       PROVE  Kept(e, d) /\ (Places(e, d) = {} <=> Places(c, d) = {})
  <2>1. DatumAt(e.sched, d) = {} <=> DatumAt(c.sched, d) = {} /\ d # h.item
    BY <1>10, <1>11 DEF Joined
  <2>2. DatumAt(c.lost, d) = {} <=> d # h.item /\ DatumAt(t, d) = {}
    BY <1>4, <1>11 DEF Joined
  <2>3. Kept(c, d) /\ Lonely(c, d)
    BY KeptIs DEF Good, Kept
  <2>4. Alone(t, d) /\ (d # h.item \/ DatumAt(t, d) = {})
    BY <1>4, <1>11, <2>3 DEF Joined, Lonely
  <2>5. Absent(e, d) <=> Absent(c, d)
    BY <1>8, <1>10, <2>1, <2>2 DEF Absent
  <2>6. Alone(e.sched, d)
    BY <1>10, <1>11, <2>2, <2>3 DEF Joined, Lonely
  <2>7. Lonely(e, d)
    BY <1>8, <1>10, <2>1, <2>2, <2>3, <2>4, <2>6 DEF Lonely
  <2>8. ASSUME NEW i \in DatumAt(e.sched, d), e.sched[i].ack
        PROVE  ItemsAt(e.unacked, {d}) = {}
    <3>1. i \in DOMAIN e.sched
      BY DEF DatumAt
    <3>2. CASE i \in DOMAIN c.sched
      <4>1. i \in DatumAt(c.sched, d) /\ c.sched[i].ack
        BY <1>10, <2>8, <3>2 DEF DatumAt, Joined
      <4> QED
        BY <1>10, <2>3, <4>1, KeptIs
    <3>3. CASE i \notin DOMAIN c.sched
      <4>1. Len(c.sched) \in Nat /\ i \in Nat
        BY <1>3, <1>10, <3>1 DEF Joined
      <4>2. i - Len(c.sched) \in DOMAIN <<p>> /\ Len(c.sched) + (i - Len(c.sched)) = i
        BY <1>10, <3>1, <3>3, <4>1 DEF Joined
      <4>3. e.sched[i] = <<p>>[i - Len(c.sched)]
        BY <1>10, <4>2 DEF Joined
      <4>4. e.sched[i] = p
        BY <4>2, <4>3
      <4> QED
        BY <1>7, <2>8, <4>4
    <3> QED
      BY <3>2, <3>3
  <2>9. DatumAt(e.batch, d) = {}
    BY <1>10 DEF DatumAt
  <2>10. Kept(e, d)
    BY <1>10, <2>3, <2>5, <2>7, <2>8, <2>9, KeptIs
  <2> QED
    BY <2>5, <2>10, OnceIs
<1>13. Good(e)
  BY <1>10, <1>12 DEF Good, Queued, Kept
<1>14. Nothing \notin Data
  BY SendAssumption
<1> QED
  BY <1>10, <1>12, <1>13, <1>14 DEF Enters

\* A lost packet whose stream was reset is dropped with its records.
LEMMA LostDropped ==
  ASSUME NEW c, Good(c), c.batch = <<>>, Plain(c), c.lost # <<>>, NEW e, e = drop_lost(c)
  PROVE  /\ Good(e) /\ Plain(e) /\ Head(c.lost).item \in Data
         /\ \A d \in Data : Places(e, d) = {} <=> Places(c, d) = {} \/ d = Head(c.lost).item
         /\ \A d \in Data : e.released[d] = c.released[d]
         /\ RetxOf(c) = {} => RetxOf(e) = {}
         /\ e.batch = <<>> /\ e.senhist = c.senhist /\ e.gap = c.gap /\ e.retx_alarm = c.retx_alarm
<1> DEFINE h == Head(c.lost)
           t == Tail(c.lost)
           x == h.item
           b == [c EXCEPT !.lost = t]
<1>1. e = destroy_chains(b, {x})
  BY DEF drop_lost
<1>2. DOMAIN c = CtlFields /\ c.lost \in Seq(Packet) /\ Queued(c)
  BY DEF Good, Typed, Queued
<1>3. Joined(<<h>>, t, c.lost) /\ h \in Packet /\ t \in Seq(Packet) /\ h = c.lost[1] /\ 1 \in DOMAIN c.lost
  <2>1. h \in Packet
    BY <1>2
  <2> QED
    BY <1>2, <2>1, Ends
<1>4. Retx(h) /\ x \in Data
  BY <1>3 DEF Good, Sorted
<1>5. b.lost = t /\ Same(c, b, {"lost"})
  BY <1>2 DEF Same, CtlFields
<1> HIDE DEF b, t, h, x
<1>6. /\ b.sched = c.sched /\ b.batch = <<>> /\ b.unacked = c.unacked /\ b.released = c.released
      /\ b.cur_packno = c.cur_packno /\ b.senhist = c.senhist /\ b.gap = c.gap /\ b.n_scheduled = c.n_scheduled
      /\ b.retx_alarm = c.retx_alarm /\ Same(c, b, Waiting)
  BY <1>2, <1>5 DEF Same, CtlFields, Waiting
<1>7. Queued(b) /\ RetxOf(b) = RetxOf(c)
  <2>1. \A i \in DOMAIN c.lost : Retx(c.lost[i]) /\ c.lost[i].item \in Data
    BY DEF Good, Sorted
  <2>2. \A i \in DOMAIN t : Retx(t[i]) /\ t[i].item \in Data
    BY <1>3, <2>1 DEF Joined
  <2>3. /\ b.sched \in Seq(Packet) /\ b.batch \in Seq(Packet) /\ b.n_scheduled = Len(b.sched) /\ b.cur_packno \in Int
        /\ ToSend(b.sched) /\ ToSend(b.batch)
    BY <1>2, <1>6 DEF Queued, Typed, Sorted, Counted
  <2> QED
    BY <1>2, <1>3, <1>5, <1>6, <2>2, <2>3, WaitingQueued
<1>8. Numbered(b)
  BY <1>6, AsideNumbers DEF Good
<1>9. /\ \A d : Alone(<<h>>, d)
      /\ \A d : DatumAt(<<h>>, d) = {} <=> d # x
  BY <1>3, <1>4, OneOf DEF x
<1>10. ASSUME NEW d \in Data
       PROVE  /\ Once(b, d)
              /\ d # x => Recorded(b, d) /\ (Places(b, d) = {} <=> Places(c, d) = {})
              /\ d = x => Places(b, d) = {}
  <2>1. DatumAt(c.lost, d) = {} <=> d # x /\ DatumAt(t, d) = {}
    BY <1>3, <1>9 DEF Joined
  <2>2. Kept(c, d) /\ Lonely(c, d)
    BY KeptIs DEF Good, Kept
  <2>3. Alone(t, d) /\ (d # x \/ DatumAt(t, d) = {})
    BY <1>3, <1>9, <2>2 DEF Joined, Lonely
  <2>4. Lonely(b, d)
    BY <1>5, <1>6, <2>1, <2>2, <2>3 DEF Lonely
  <2>5. d # x => (Absent(b, d) <=> Absent(c, d))
    BY <1>5, <1>6, <2>1 DEF Absent
  <2>6. d = x => Absent(b, d) /\ ~Absent(c, d)
    BY <1>5, <1>6, <2>1, <2>2, <2>3 DEF Absent, Lonely
  <2>7. b.released[d] = 0 \/ (b.released[d] = 1 /\ Absent(b, d))
    BY <1>6, <2>2, <2>5, <2>6, KeptIs
  <2>8. Once(b, d)
    BY <2>4, <2>7, OnceIs
  <2>9. d # x => Kept(b, d)
    BY <1>6, <2>2, <2>4, <2>5, <2>7, KeptIs
  <2> QED
    BY <2>5, <2>6, <2>8, <2>9, OnceIs DEF Kept
<1>11. {x} \in SUBSET Data
  BY <1>4
<1>12. Queued(e) /\ Destroyed(b, e, {x})
  BY <1>1, <1>7, <1>10, <1>11, ChainsDestroyed
<1>13. \A d \in Data :
         /\ Kept(e, d)
         /\ Places(e, d) = {} <=> Places(b, d) = {} \/ d \in {x}
         /\ d \notin {x} => e.released[d] = b.released[d]
         /\ d \in {x} => e.released[d] = IF Places(b, d) = {} THEN b.released[d] ELSE 1
  <2>1. Typed(b)
    BY <1>7 DEF Queued
  <2>2. \A d \in Data \ {x} : Recorded(b, d)
    BY <1>10
  <2>3. \A d \in Data : Once(b, d)
    BY <1>10
  <2> QED
    BY <1>6, <1>11, <1>12, <2>1, <2>2, <2>3, DestroyedKept
<1>14. ItemsAt(b.sched, {x}) = {}
  <2>1. DatumAt(c.sched, x) = {}
    <3>1. Lonely(c, x)
      BY <1>4, KeptIs DEF Good, Kept
    <3>2. DatumAt(c.lost, x) # {}
      BY <1>3, <1>9 DEF Joined
    <3> QED
      BY <3>1, <3>2 DEF Lonely
  <2>2. ToSend(c.sched)
    BY <1>2 DEF Queued, Sorted
  <2> QED
    BY <1>4, <1>6, <2>1, <2>2 DEF ToSend, ItemsAt, DatumAt
<1>15. Numbered(e) /\ Plain(e)
  <2>1. e = destroy_chains(b, {x}) /\ Queued(b)
    BY <1>1, <1>7
  <2>2. /\ Numbered(e)
        /\ (ItemsAt(b.sched, {x}) = {} /\ \A i \in DOMAIN b.sched : ~b.sched[i].repack)
             => \A i \in DOMAIN e.sched : ~e.sched[i].repack
    BY <1>8, <2>1, NumbersDestroyed, ZenonT(40)
  <2>3. b.sched = c.sched /\ Plain(c)
    BY <1>6
  <2> QED
    BY <1>14, <2>2, <2>3 DEF Plain
<1>16. Good(e)
  BY <1>12, <1>13, <1>15 DEF Good, Queued, Kept
<1>17. \A d \in Data : e.released[d] = c.released[d]
  BY <1>6, <1>10, <1>13
<1>18. \A d \in Data : Places(e, d) = {} <=> Places(c, d) = {} \/ d = x
  BY <1>10, <1>13
<1> QED
  BY <1>4, <1>6, <1>7, <1>12, <1>15, <1>16, <1>17, <1>18 DEF Destroyed, x, h

\* What packets carry changes, and not their numbers.
Recast(c, e) ==
  /\ e.sched \in Seq(Packet) /\ DOMAIN e.sched = DOMAIN c.sched /\ Len(e.sched) = Len(c.sched)
  /\ \A i \in DOMAIN c.sched : /\ e.sched[i].no = c.sched[i].no /\ e.sched[i].repack = c.sched[i].repack
                               /\ e.sched[i].ack = c.sched[i].ack
  /\ ToSend(e.sched) /\ Same(c, e, {"sched"})

\* The numbers do not depend on what the packets carry.
LEMMA RecastQueued ==
  ASSUME NEW c, Queued(c), NEW e, Recast(c, e)
  PROVE  /\ Queued(e) /\ RetxOf(e) = RetxOf(c)
         /\ e.unacked = c.unacked /\ e.lost = c.lost /\ e.batch = c.batch
         /\ e.senhist = c.senhist /\ e.gap = c.gap /\ e.released = c.released /\ e.retx_alarm = c.retx_alarm
         /\ Numbered(c) => Numbered(e)
         /\ Plain(c) => Plain(e)
<1>1. /\ e.lost = c.lost /\ e.batch = c.batch /\ e.cur_packno = c.cur_packno /\ e.n_scheduled = c.n_scheduled
      /\ Same(c, e, Waiting)
  BY DEF Recast, Same, Waiting, CtlFields, Queued, Typed
<1>2. /\ Queued(e) /\ RetxOf(e) = RetxOf(c)
      /\ e.unacked = c.unacked /\ e.senhist = c.senhist /\ e.gap = c.gap /\ e.released = c.released
      /\ e.retx_alarm = c.retx_alarm
  <2>1. /\ e.sched \in Seq(Packet) /\ e.batch \in Seq(Packet) /\ e.lost \in Seq(Packet)
        /\ e.n_scheduled = Len(e.sched) /\ e.cur_packno \in Int
        /\ ToSend(e.sched) /\ ToSend(e.batch)
        /\ \A i \in DOMAIN e.lost : Retx(e.lost[i]) /\ e.lost[i].item \in Data
    BY <1>1 DEF Recast, Queued, Typed, Counted, Sorted
  <2> QED
    BY <1>1, <2>1, WaitingQueued
<1>3. ASSUME Numbered(c)
      PROVE  Numbered(e)
  <2>1. BatchOn(c) /\ \E k \in 0..Len(c.sched) : UpTo(c, k) /\ Last(c, Len(c.batch) + k)
    BY <1>3, NumberedIs
  <2>2. \A m : Nth(e, m) = Nth(c, m) /\ (Last(e, m) <=> Last(c, m))
    BY <1>1, <1>2, NthSame
  <2>3. BatchOn(e)
    BY <1>1, <1>2, <2>1, NthSame
  <2>4. \A k : UpTo(c, k) => UpTo(e, k)
    BY <1>1, <2>2 DEF UpTo, Recast
  <2> QED
    BY <1>1, <2>1, <2>2, <2>3, <2>4, NumberedIs DEF Recast
<1>4. Plain(c) => Plain(e)
  BY DEF Plain, Recast
<1> QED
  BY <1>1, <1>2, <1>3, <1>4

\* A stream writes into the last packet, which carries an ACK.
LEMMA WrittenInto ==
  ASSUME NEW c, Good(c), c.batch = <<>>, Plain(c), c.sched # <<>>, c.sched[Len(c.sched)].kind = "ack",
         NEW d \in Data, Places(c, d) = {}, c.released[d] = 0,
         NEW e, e = [c EXCEPT !.sched[Len(c.sched)] = [@ EXCEPT !.kind = "data", !.item = d]]
  PROVE  Good(e) /\ Enters(c, e, d) /\ Plain(e)
<1> DEFINE n == Len(c.sched)
           q == c.sched
           s == [q EXCEPT ![n] = [@ EXCEPT !.kind = "data", !.item = d]]
<1>1. DOMAIN c = CtlFields /\ q \in Seq(Packet) /\ DOMAIN q = 1..n /\ n \in Nat /\ Queued(c) /\ n \in DOMAIN q
  BY DEF Good, Typed, Queued
<1>2. e.sched = s /\ Same(c, e, {"sched"})
  BY <1>1 DEF Same, CtlFields
<1>3. \A i \in DOMAIN q : q[i] \in Packet
  BY <1>1
<1>4. s[n] = [q[n] EXCEPT !.kind = "data", !.item = d]
  BY <1>1
<1>5. DOMAIN s = DOMAIN q /\ \A i \in DOMAIN q : i # n => s[i] = q[i]
  BY <1>1
<1>6. /\ s[n] \in Packet /\ s[n].kind = "data" /\ s[n].item = d
      /\ s[n].no = q[n].no /\ s[n].repack = q[n].repack /\ s[n].ack = q[n].ack
  <2> HIDE DEF s
  <2> QED
    BY <1>1, <1>3, <1>4 DEF Packet
<1>7. s \in Seq(Packet)
  <2>1. [q[n] EXCEPT !.kind = "data", !.item = d] \in Packet
    BY <1>4, <1>6
  <2> QED
    BY <1>1, <1>4, <1>5, <1>6
<1>8. Len(s) = n
  BY <1>1
<1> HIDE DEF s
<1>9. Nothing \notin Data
  BY SendAssumption
<1>10. ToSend(s)
  <2>1. ToSend(q)
    BY <1>1 DEF Queued, Sorted
  <2> QED
    BY <1>5, <1>6, <2>1 DEF ToSend, Retx
<1>11. Recast(c, e)
  BY <1>1, <1>2, <1>5, <1>6, <1>7, <1>8, <1>10 DEF Recast
<1>12. /\ Queued(e) /\ RetxOf(e) = RetxOf(c)
       /\ e.unacked = c.unacked /\ e.lost = c.lost /\ e.batch = c.batch
       /\ e.senhist = c.senhist /\ e.gap = c.gap /\ e.released = c.released /\ e.retx_alarm = c.retx_alarm
       /\ Numbered(e) /\ Plain(e)
  BY <1>1, <1>11, RecastQueued DEF Good
<1>13. ASSUME NEW x \in Data
       PROVE  Kept(e, x) /\ (Places(e, x) = {} <=> Places(c, x) = {} /\ x # d)
  <2>1. Kept(c, x)
    BY DEF Good, Kept
  <2>2. n \notin DatumAt(q, x)
    BY DEF DatumAt, Retx
  <2>3. DatumAt(s, x) = DatumAt(q, x) \cup (IF x = d THEN {n} ELSE {})
    BY <1>1, <1>5, <1>6, <2>2 DEF DatumAt, Retx
  <2>4. x = d => Absent(c, x) /\ c.released[x] = 0 /\ ItemsAt(c.unacked, {x}) = {}
    BY <2>1, OnceIs, KeptIs
  <2>5. Absent(e, x) <=> Absent(c, x) /\ x # d
    BY <1>2, <1>12, <2>3 DEF Absent
  <2>6. Alone(s, x)
    BY <2>1, <2>3, <2>4, KeptIs DEF Alone, Lonely, Absent
  <2>7. Lonely(e, x)
    BY <1>2, <1>12, <2>1, <2>3, <2>4, <2>6, KeptIs DEF Lonely, Absent
  <2>8. ASSUME NEW i \in DatumAt(e.sched, x), e.sched[i].ack
        PROVE  ItemsAt(e.unacked, {x}) = {}
    <3>1. CASE x = d
      BY <1>12, <2>4, <3>1
    <3>2. CASE x # d
      <4>1. i \in DatumAt(q, x) /\ i # n
        BY <1>2, <2>2, <2>3, <3>2
      <4>2. q[i].ack
        BY <1>2, <1>5, <2>8, <4>1 DEF DatumAt
      <4> QED
        BY <1>12, <2>1, <4>1, <4>2, KeptIs
    <3> QED
      BY <3>1, <3>2
  <2>9. DatumAt(e.batch, x) = {}
    BY <1>12 DEF DatumAt
  <2>10. Kept(e, x)
    BY <1>12, <2>1, <2>4, <2>5, <2>7, <2>8, <2>9, KeptIs
  <2> QED
    BY <2>5, <2>10, OnceIs
<1>14. Good(e)
  BY <1>12, <1>13 DEF Good, Queued, Kept
<1> QED
  BY <1>12, <1>13, <1>14 DEF Enters

\* The frames of a stream that was reset are cut out of the scheduled packets.
LEMMA Elided ==
  ASSUME NEW c, Good(c), c.batch = <<>>, NEW d \in Data, NEW e, e = elide(c, d)
  PROVE  /\ Good(e)
         /\ \A x \in Data : x # d => (Places(e, x) = {} <=> Places(c, x) = {})
         /\ Places(c, d) = {} => Places(e, d) = {}
         /\ e.released = c.released /\ e.batch = <<>> /\ e.senhist = c.senhist /\ e.gap = c.gap
         /\ RetxOf(c) = {} => RetxOf(e) = {}
         /\ e.retx_alarm = c.retx_alarm
<1> DEFINE q == c.sched
           mine == DatumAt(q, d)
           gone == {i \in mine : ~q[i].ack}
           s == [i \in DOMAIN q |-> IF i \in mine \ gone THEN [q[i] EXCEPT !.kind = "ack", !.item = Nothing] ELSE q[i]]
           c1 == [c EXCEPT !.sched = s]
           c2 == sched_remove(c1, gone)
           c3 == destroy_chains(c2, {d})
<1>1. e = IF gone = {} THEN c1 ELSE reset_packnos(c3)
  BY DEF elide
<1>2. DOMAIN c = CtlFields /\ q \in Seq(Packet) /\ DOMAIN q = 1..Len(q) /\ Len(q) \in Nat /\ Queued(c)
  BY DEF Good, Typed, Queued
<1>3. \A i \in DOMAIN q : q[i] \in Packet
  BY <1>2
<1>4. Nothing \notin Data
  BY SendAssumption
<1>5. c1.sched = s /\ Same(c, c1, {"sched"})
  BY <1>2 DEF Same, CtlFields
<1>6. ASSUME NEW i \in DOMAIN q
      PROVE  /\ s[i] \in Packet /\ s[i].no = q[i].no /\ s[i].repack = q[i].repack /\ s[i].ack = q[i].ack
             /\ i \in mine \ gone => s[i].kind = "ack" /\ s[i].item = Nothing
             /\ i \notin mine \ gone => s[i] = q[i]
  <2>1. s[i] = IF i \in mine \ gone THEN [q[i] EXCEPT !.kind = "ack", !.item = Nothing] ELSE q[i]
    OBVIOUS
  <2> HIDE DEF s, mine, gone
  <2> QED
    BY <1>3, <2>1 DEF Packet
<1>7. s = [i \in 1..Len(q) |-> s[i]] /\ DOMAIN s = DOMAIN q
  BY <1>2
<1>8. mine = DatumAt(q, d) /\ gone = {i \in mine : ~q[i].ack} /\ mine \subseteq DOMAIN q
  BY DEF DatumAt
<1>9. c2 = sched_remove(c1, gone) /\ c3 = destroy_chains(c2, {d})
  OBVIOUS
<1> HIDE DEF s, mine, gone, c1, c2, c3
<1>10. s \in Seq(Packet) /\ Len(s) = Len(q)
  <2>1. \A i \in 1..Len(q) : s[i] \in Packet
    BY <1>2, <1>6
  <2> QED
    <3>1. s = [i \in 1..Len(q) |-> s[i]] /\ Len(q) \in Nat
      BY <1>2, <1>7
    <3> QED
      BY <2>1, <3>1, SeqIs
<1>11. ToSend(s)
  <2>1. ToSend(q)
    BY <1>2 DEF Queued, Sorted
  <2> QED
    BY <1>4, <1>6, <1>7, <2>1 DEF ToSend, Retx
<1>12. Recast(c, c1)
  BY <1>5, <1>6, <1>7, <1>10, <1>11 DEF Recast
<1>13. /\ Queued(c1) /\ RetxOf(c1) = RetxOf(c)
       /\ c1.unacked = c.unacked /\ c1.lost = c.lost /\ c1.batch = <<>>
       /\ c1.senhist = c.senhist /\ c1.gap = c.gap /\ c1.released = c.released /\ c1.retx_alarm = c.retx_alarm
       /\ Numbered(c1)
  BY <1>2, <1>12, RecastQueued DEF Good
<1>14. ASSUME NEW x \in Data
       PROVE  DatumAt(s, x) = IF x = d THEN gone ELSE DatumAt(q, x)
  <2>1. \A i \in mine : q[i].item = d /\ Retx(q[i])
    BY <1>8 DEF DatumAt
  <2>2. \A i \in mine \ gone : ~Retx(s[i])
    BY <1>6, <1>8 DEF Retx
  <2> QED
    <3>1. \A i \in DOMAIN q \ (mine \ gone) : s[i] = q[i]
      BY <1>6
    <3>2. \A i \in DOMAIN q : i \in mine <=> Retx(q[i]) /\ q[i].item = d
      BY <1>8 DEF DatumAt
    <3>3. gone \subseteq mine
      BY <1>8
    <3>4. ASSUME NEW i \in DOMAIN q
          PROVE  i \in DatumAt(s, x) <=> i \in IF x = d THEN gone ELSE DatumAt(q, x)
      <4>1. CASE i \in mine \ gone
        BY <1>7, <2>1, <2>2, <4>1 DEF DatumAt
      <4>2. CASE i \notin mine \ gone
        BY <1>7, <3>1, <3>2, <3>3, <4>2 DEF DatumAt
      <4> QED
        BY <4>1, <4>2
    <3>5. DatumAt(s, x) \subseteq DOMAIN q /\ DatumAt(q, x) \subseteq DOMAIN q /\ gone \subseteq DOMAIN q
      BY <1>7, <1>8 DEF DatumAt
    <3> QED
      BY <3>4, <3>5
<1>15. \A i \in DOMAIN q : i \in DOMAIN s /\ s[i].ack = q[i].ack
  BY <1>6, <1>7
<1>16. ASSUME NEW x \in Data
       PROVE  Kept(c, x) /\ (x # d \/ gone # {} \/ mine = {} => DatumAt(c1.sched, x) = {} <=> DatumAt(q, x) = {})
  <2>1. Kept(c, x)
    BY DEF Good, Kept
  <2> QED
    BY <1>5, <1>8, <1>14, <2>1
<1>17. ASSUME NEW x \in Data, x # d
       PROVE  Kept(c1, x) /\ (Places(c1, x) = {} <=> Places(c, x) = {})
  <2>1. DatumAt(c1.sched, x) = DatumAt(q, x)
    BY <1>5, <1>14, <1>17
  <2>2. Absent(c1, x) <=> Absent(c, x)
    BY <1>13, <2>1 DEF Absent
  <2>3. Alone(c1.sched, x) <=> Alone(q, x)
    BY <2>1 DEF Alone
  <2>4. Lonely(c1, x)
    BY <1>13, <1>16, <2>1, <2>3, KeptIs DEF Lonely
  <2>5. \A i \in DatumAt(c1.sched, x) : c1.sched[i].ack => ItemsAt(c1.unacked, {x}) = {}
    <3>1. \A i \in DatumAt(q, x) : c1.sched[i].ack = q[i].ack
      BY <1>5, <1>15 DEF DatumAt
    <3> QED
      BY <1>13, <1>16, <2>1, <3>1, KeptIs
  <2>6. DatumAt(c1.batch, x) = {}
    BY <1>13 DEF DatumAt
  <2>7. Kept(c1, x)
    BY <1>13, <1>16, <2>2, <2>4, <2>5, <2>6, KeptIs
  <2> QED
    BY <2>2, <2>7, OnceIs
<1>18. /\ Once(c1, d) /\ (Places(c, d) = {} => Places(c1, d) = {})
  <2>1. DatumAt(c1.sched, d) = gone
    BY <1>5, <1>14
  <2>2. gone \subseteq DatumAt(q, d)
    BY <1>8
  <2>3. Absent(c, d) => Absent(c1, d)
    BY <1>13, <2>1, <2>2 DEF Absent
  <2>4. Alone(c1.sched, d)
    BY <1>16, <2>1, <2>2, KeptIs DEF Alone, Lonely
  <2>5. Lonely(c1, d)
    BY <1>13, <1>16, <2>1, <2>2, <2>4, KeptIs DEF Lonely
  <2> QED
    BY <1>13, <1>16, <2>3, <2>5, KeptIs, OnceIs
<1>19. CASE gone = {}
  <2>1. e = c1
    BY <1>1, <1>19
  <2>2. Recorded(c1, d)
    <3>1. DatumAt(c1.sched, d) = {} /\ DatumAt(c1.batch, d) = {}
      BY <1>5, <1>13, <1>14, <1>19 DEF DatumAt
    <3>2. Absent(c1, d) => ItemsAt(c1.unacked, {d}) = {}
      <4>1. CASE mine = {}
        <5>1. Absent(c1, d) => Absent(c, d)
          BY <1>8, <1>13, <4>1 DEF Absent, DatumAt
        <5> QED
          BY <1>13, <1>16, <5>1, KeptIs
      <4>2. CASE mine # {}
        <5>1. PICK i \in mine : q[i].ack
          BY <1>8, <1>19, <4>2
        <5> QED
          BY <1>8, <1>13, <1>16, <5>1, KeptIs
      <4> QED
        BY <4>1, <4>2
    <3> QED
      BY <3>1, <3>2, OnceIs DEF Recorded
  <2>3. Good(c1)
    BY <1>13, <1>17, <1>18, <2>2 DEF Good, Queued, Kept
  <2> QED
    BY <1>13, <1>17, <1>18, <2>1, <2>3
<1>20. CASE gone # {}
  <2>1. e = reset_packnos(c3)
    BY <1>1, <1>20
  <2>2. gone \in SUBSET (DOMAIN c1.sched)
    BY <1>5, <1>7, <1>8
  <2>3. Queued(c2) /\ Same(c1, c2, {"sched", "n_scheduled"}) /\ Dropped(c1, c2, gone)
    BY <1>9, <1>13, <2>2, SchedRemoved
  <2>4. /\ c2.unacked = c.unacked /\ c2.lost = c.lost /\ c2.batch = <<>> /\ c2.released = c.released
        /\ c2.senhist = c.senhist /\ c2.gap = c.gap /\ c2.retx_alarm = c.retx_alarm
    BY <1>13, <2>3 DEF Same, CtlFields, Queued, Typed
  <2>5. ASSUME NEW x \in Data, x # d
        PROVE  Kept(c2, x) /\ (Places(c2, x) = {} <=> Places(c, x) = {})
    <3>1. DatumAt(c1.sched, x) \cap gone = {}
      BY <1>5, <1>8, <1>14, <2>5 DEF DatumAt
    <3>2. DatumAt(c2.sched, x) = {} <=> DatumAt(c1.sched, x) = {}
      BY <2>3, <3>1 DEF Dropped
    <3>3. Absent(c2, x) <=> Absent(c1, x)
      BY <1>13, <2>4, <3>2 DEF Absent
    <3>4. Kept(c1, x)
      BY <1>17, <2>5
    <3>5. Lonely(c2, x)
      BY <1>13, <2>3, <2>4, <3>2, <3>4, KeptIs DEF Lonely, Dropped
    <3>6. ASSUME NEW i \in DatumAt(c2.sched, x), c2.sched[i].ack
          PROVE  ItemsAt(c2.unacked, {x}) = {}
      <4>1. i \in DOMAIN c2.sched
        BY DEF DatumAt
      <4>2. PICK k \in DOMAIN c1.sched : c2.sched[i] = c1.sched[k]
        BY <2>3, <4>1 DEF Dropped
      <4>3. k \in DatumAt(c1.sched, x) /\ c1.sched[k].ack
        BY <3>6, <4>2 DEF DatumAt
      <4> QED
        BY <1>13, <2>4, <3>4, <4>3, KeptIs
    <3>7. DatumAt(c2.batch, x) = {}
      BY <2>4 DEF DatumAt
    <3>8. Kept(c2, x)
      BY <1>13, <2>4, <3>3, <3>4, <3>5, <3>6, <3>7, KeptIs
    <3> QED
      BY <1>17, <2>5, <3>3, <3>8, OnceIs
  <2>6. Once(c2, d) /\ Places(c2, d) = {}
    <3>1. DatumAt(q, d) # {}
      BY <1>8, <1>20
    <3>2. Lonely(c, d) /\ c.released[d] = 0
      BY <1>16, <3>1, KeptIs DEF Absent
    <3>3. DatumAt(c2.sched, d) = {}
      BY <1>5, <1>14, <2>3 DEF Dropped
    <3>4. Absent(c2, d)
      BY <2>4, <3>1, <3>2, <3>3 DEF Absent, Lonely, DatumAt
    <3>5. Lonely(c2, d)
      BY <2>4, <3>2, <3>4 DEF Absent, Lonely, Alone
    <3> QED
      BY <2>4, <3>2, <3>4, <3>5, OnceIs
  <2>7. {d} \in SUBSET Data
    OBVIOUS
  <2>8. \A x \in Data : Once(c2, x)
    BY <2>5, <2>6 DEF Kept
  <2>9. Queued(c3) /\ Destroyed(c2, c3, {d})
    BY <1>9, <2>3, <2>7, <2>8, ChainsDestroyed
  <2>10. \A x \in Data :
           /\ Kept(c3, x)
           /\ Places(c3, x) = {} <=> Places(c2, x) = {} \/ x \in {d}
           /\ x \notin {d} => c3.released[x] = c2.released[x]
           /\ x \in {d} => c3.released[x] = IF Places(c2, x) = {} THEN c2.released[x] ELSE 1
    <3>1. Typed(c2)
      BY <2>3 DEF Queued
    <3>2. \A x \in Data \ {d} : Recorded(c2, x)
      BY <2>5 DEF Kept
    <3> QED
      BY <2>4, <2>7, <2>8, <2>9, <3>1, <3>2, DestroyedKept
  <2>11. c3.batch = <<>> /\ c3.senhist = c.senhist /\ c3.gap = c.gap /\ c3.retx_alarm = c.retx_alarm
         /\ (RetxOf(c2) = {} => RetxOf(c3) = {})
    BY <2>4, <2>9 DEF Destroyed
  <2>12. c3.released = c.released
    <3>1. \A x \in Data : c3.released[x] = c.released[x]
      BY <2>4, <2>6, <2>10
    <3>2. c3.released \in [Data -> Nat] /\ c.released \in [Data -> Nat]
      BY <1>2, <2>9 DEF Queued, Typed
    <3> QED
      BY <3>1, <3>2
  <2>13. Good(e) /\ Stays(c3, e) /\ e.gap = c3.gap /\ e.retx_alarm = c3.retx_alarm
    BY <2>1, <2>9, <2>10, <2>11, ResetGood
  <2>14. RetxOf(c2) = RetxOf(c)
    BY <2>4 DEF RetxOf
  <2>15. ASSUME NEW x \in Data
         PROVE  /\ x # d => (Places(e, x) = {} <=> Places(c, x) = {})
                /\ x = d => Places(e, x) = {}
    BY <2>5, <2>10, <2>13 DEF Stays
  <2> QED
    BY <2>11, <2>12, <2>13, <2>14, <2>15 DEF Stays
<1> QED
  BY <1>19, <1>20

-------------------------------------------------------------------------------
(* The batch.                                                              *)

\* The data stay where they are, or go from one queue to the next.
Moves(c, e) ==
  /\ \A d \in Data : Places(e, d) = {} <=> Places(c, d) = {}
  /\ e.released = c.released /\ e.gap = c.gap

\* Scheduled packets that gave their numbers back are removed.
LEMMA RemovedNumbers ==
  ASSUME NEW c, Queued(c), Numbered(c), NEW K \in SUBSET (DOMAIN c.sched), \A i \in K : c.sched[i].repack,
         NEW e, e.sched = Select(c.sched, DOMAIN c.sched \ K), e.batch = c.batch,
         e.cur_packno = c.cur_packno, e.senhist = c.senhist, e.gap = c.gap
  PROVE  Numbered(e)
<1> DEFINE q == c.sched
           M == DOMAIN q \ K
           l == Len(c.batch)
<1>1. q \in Seq(Packet) /\ DOMAIN q = 1..Len(q) /\ Len(q) \in Nat
  BY DEF Queued, Typed
<1>2. PICK k \in 0..Len(q) : UpTo(c, k) /\ Last(c, l + k)
  BY NumberedIs
<1>3. 1..k \subseteq M
  <2> SUFFICES ASSUME NEW i \in 1..k, i \in K
               PROVE  FALSE
    BY <1>1, <1>2
  <2>1. i \in DOMAIN q /\ i <= k
    BY <1>2
  <2> QED
    BY <1>2, <2>1 DEF UpTo
<1>4. M \in SUBSET (DOMAIN q)
  OBVIOUS
<1> HIDE DEF M
<1>5. Begins(q, M, e.sched, k)
  <2>1. k \in Nat
    BY <1>1, <1>2
  <2> QED
    BY <1>1, <1>3, <1>4, <2>1, SelectPrefix DEF M
<1>6. e.sched \in Seq(Packet)
  BY <1>1, <1>4, SelectIs DEF M
<1>7. DOMAIN e.sched = 1..Len(e.sched) /\ Len(e.sched) \in Nat
  BY <1>6
<1>8. (\A m : Nth(e, m) = Nth(c, m) /\ (Last(e, m) <=> Last(c, m))) /\ (BatchOn(e) <=> BatchOn(c))
  BY NthSame
<1>9. ASSUME NEW i \in DOMAIN e.sched
      PROVE  IF i <= k THEN ~e.sched[i].repack /\ e.sched[i].no = Nth(e, Len(e.batch) + i) ELSE e.sched[i].repack
  <2>1. CASE i <= k
    <3>1. i \in 1..k /\ i \in DOMAIN q
      BY <1>1, <1>2, <1>7, <2>1
    <3> QED
      BY <1>2, <1>5, <1>8, <2>1, <3>1 DEF Begins, UpTo
  <2>2. CASE ~(i <= k)
    <3>1. i > k
      BY <1>1, <1>2, <1>7, <2>2
    <3>2. PICK j \in M : j > k /\ e.sched[i] = q[j]
      BY <1>5, <3>1 DEF Begins
    <3>3. ~(j <= k)
      BY <1>1, <1>2, <1>4, <3>2
    <3> QED
      BY <1>2, <1>4, <2>2, <3>2, <3>3 DEF UpTo
  <2> QED
    BY <2>1, <2>2
<1>10. UpTo(e, k)
  BY <1>9 DEF UpTo
<1>11. k \in 0..Len(e.sched)
  BY <1>1, <1>2, <1>5, <1>7 DEF Begins
<1> QED
  BY <1>2, <1>8, <1>10, <1>11, NumberedIs

\* Stale packets at the head of the queue are dropped.
LEMMA StaleDropped ==
  ASSUME NEW c, Good(c), NEW e, e = DropStale(c)
  PROVE  Good(e) /\ Stays(c, e) /\ Moves(c, e) /\ e.retx_alarm = c.retx_alarm
<1> DEFINE K == {i \in DOMAIN c.sched : \A j \in 1..i : c.sched[j].repack /\ c.sched[j].kind = "ack"}
<1>0. e = sched_remove(c, K)
  BY DEF DropStale
<1>1. Queued(c) /\ Numbered(c)
  BY DEF Good, Queued
<1>2. K \in SUBSET (DOMAIN c.sched) /\ \A i \in K : c.sched[i].repack /\ c.sched[i].kind = "ack"
  <2>1. c.sched \in Seq(Packet)
    BY <1>1 DEF Queued, Typed
  <2>2. \A i \in DOMAIN c.sched : i \in 1..i
    BY <2>1
  <2> QED
    BY <2>2
<1> HIDE DEF K
<1>3. Queued(e) /\ Same(c, e, {"sched", "n_scheduled"}) /\ Dropped(c, e, K)
  BY <1>0, <1>1, <1>2, SchedRemoved
<1>4. /\ e.unacked = c.unacked /\ e.lost = c.lost /\ e.batch = c.batch /\ e.released = c.released
      /\ e.senhist = c.senhist /\ e.gap = c.gap /\ e.retx_alarm = c.retx_alarm
      /\ e.cur_packno = c.cur_packno
  BY <1>1, <1>3 DEF Same, CtlFields, Queued, Typed
<1>5. Numbered(e)
  BY <1>1, <1>2, <1>3, <1>4, RemovedNumbers DEF Dropped
<1>6. ASSUME NEW d \in Data
      PROVE  Kept(e, d) /\ (Places(e, d) = {} <=> Places(c, d) = {})
  <2>1. \A i \in K : i \notin DatumAt(c.sched, d)
    BY <1>2 DEF DatumAt, Retx
  <2>2. DatumAt(e.sched, d) = {} <=> DatumAt(c.sched, d) = {}
    BY <1>3, <2>1 DEF Dropped
  <2>3. Absent(e, d) <=> Absent(c, d)
    BY <1>4, <2>2 DEF Absent
  <2>4. Kept(c, d)
    BY DEF Good, Kept
  <2>5. Lonely(e, d)
    BY <1>3, <1>4, <2>2, <2>4, KeptIs DEF Lonely, Dropped
  <2>6. ASSUME NEW i \in DatumAt(e.sched, d), e.sched[i].ack
        PROVE  ItemsAt(e.unacked, {d}) = {}
    <3>1. i \in DOMAIN e.sched
      BY DEF DatumAt
    <3>2. PICK k \in DOMAIN c.sched : e.sched[i] = c.sched[k]
      BY <1>3, <3>1 DEF Dropped
    <3>3. k \in DatumAt(c.sched, d) /\ c.sched[k].ack
      BY <2>6, <3>2 DEF DatumAt
    <3> QED
      BY <1>4, <2>4, <3>3, KeptIs
  <2>7. Kept(e, d)
    BY <1>4, <2>3, <2>4, <2>5, <2>6, KeptIs
  <2> QED
    BY <2>3, <2>7, OnceIs
<1>7. RetxOf(e) = RetxOf(c)
  BY <1>4 DEF RetxOf
<1>8. Good(e)
  BY <1>3, <1>5, <1>6 DEF Good, Queued, Kept
<1> QED
  BY <1>4, <1>6, <1>7, <1>8 DEF Stays, Moves

\* The first scheduled packet goes into the batch, with the next number.
LEMMA PacketTaken ==
  ASSUME NEW c, Good(c), c.sched # <<>>, NEW e, e = take_packet(c)
  PROVE  /\ Good(e) /\ Moves(c, e) /\ e.unacked = c.unacked /\ e.senhist = c.senhist
         /\ e.retx_alarm = c.retx_alarm /\ RetxOf(e) = RetxOf(c)
<1> DEFINE p == Head(c.sched)
           t == Tail(c.sched)
           l == Len(c.batch)
           limited == ~p.ack /\ c.n_consec_rtos > 0
           r == IF p.repack THEN update_for_resending(c, p) ELSE p
           q == [r EXCEPT !.limited = limited]
<1>1. e = [c EXCEPT !.sched = t, !.n_scheduled = @ - 1,
                !.cur_packno = IF p.repack THEN q.no ELSE @,
                !.next_limit = IF limited THEN @ - 1 ELSE @,
                !.batch = Append(@, q)]
  BY DEF take_packet
<1>2. Queued(c) /\ Numbered(c) /\ DOMAIN c = CtlFields /\ c.sched \in Seq(Packet) /\ c.batch \in Seq(Packet)
  BY DEF Good, Queued, Typed
<1>3. Joined(<<p>>, t, c.sched) /\ p \in Packet /\ t \in Seq(Packet) /\ p = c.sched[1] /\ 1 \in DOMAIN c.sched
  <2>1. p \in Packet
    BY <1>2
  <2> QED
    BY <1>2, <2>1, Ends
<1>4. l \in Nat /\ DOMAIN c.batch = 1..l /\ Len(t) \in Nat /\ DOMAIN t = 1..Len(t) /\ Len(c.sched) = Len(t) + 1
  BY <1>2, <1>3
<1>5. BatchOn(c) /\ \E k \in 0..Len(c.sched) : UpTo(c, k) /\ Last(c, l + k)
  BY <1>2, NumberedIs
<1>6. PICK k \in 0..Len(c.sched) : UpTo(c, k) /\ Last(c, l + k)
  BY <1>5
<1>7. p.repack <=> k = 0
  <2>1. k = 0 \/ 1 <= k
    BY <1>6
  <2>2. ~(1 <= 0)
    OBVIOUS
  <2> QED
    BY <1>3, <1>6, <2>1, <2>2 DEF UpTo
<1>8. /\ q \in Packet /\ q.kind = p.kind /\ q.item = p.item /\ ~q.repack /\ q.no = Nth(c, l + 1)
      /\ q.ack => p.ack
  <2>1. limited \in BOOLEAN
    OBVIOUS
  <2>2. CASE p.repack
    <3>1. next_packno(c) = Nth(c, l + 1) /\ next_packno(c) \in Nat
      BY <1>4, <1>6, <1>7, <2>2, NextNumber
    <3>2. q = [p EXCEPT !.no = next_packno(c), !.repack = FALSE, !.ack = FALSE, !.limited = limited]
      BY <1>3, <2>2 DEF update_for_resending, Packet
    <3> HIDE DEF q, limited, p, t
    <3> QED
      BY <1>3, <2>1, <3>1, <3>2 DEF Packet
  <2>3. CASE ~p.repack
    <3>1. q = [p EXCEPT !.limited = limited]
      BY <2>3
    <3>2. p.no = Nth(c, l + 1)
      <4>1. 1 <= k
        BY <1>6, <1>7, <2>3
      <4> QED
        BY <1>3, <1>6, <4>1 DEF UpTo
    <3> HIDE DEF q, limited, p, t
    <3> QED
      BY <1>3, <2>1, <2>3, <3>1, <3>2 DEF Packet
  <2> QED
    BY <2>2, <2>3
<1> HIDE DEF q, limited, p, t, r
<1>9. /\ e.sched = t /\ e.n_scheduled = c.n_scheduled - 1 /\ e.batch = Append(c.batch, q)
      /\ e.cur_packno = IF p.repack THEN q.no ELSE c.cur_packno
      /\ Same(c, e, {"sched", "n_scheduled", "cur_packno", "next_limit", "batch"})
  BY <1>1, <1>2 DEF Same, CtlFields
<1>10. e.lost = c.lost /\ Same(c, e, Waiting)
  BY <1>2, <1>9 DEF Same, Waiting, CtlFields
<1>11. Joined(c.batch, <<q>>, e.batch)
  BY <1>2, <1>8, <1>9, Ends
<1>12. /\ e.batch \in Seq(Packet) /\ Len(e.batch) = l + 1 /\ e.batch[l + 1] = q /\ DOMAIN e.batch = 1..(l + 1)
       /\ \A i \in 1..l : e.batch[i] = c.batch[i]
  BY <1>2, <1>4, <1>8, <1>9
<1>13. \A i \in DOMAIN t : i + 1 \in DOMAIN c.sched /\ c.sched[i + 1] = t[i]
  <2>1. \A i \in DOMAIN t : 1 + i = i + 1
    BY <1>4
  <2>2. Len(<<p>>) = 1
    OBVIOUS
  <2> QED
    BY <1>3, <2>1, <2>2 DEF Joined
<1>14. ToSend(c.sched) /\ ToSend(c.batch)
  BY <1>2 DEF Queued, Sorted
<1>15. ToSend(e.batch)
  <2>1. q.kind \in {"data", "ack", "probe"} /\ (Retx(q) <=> q.item \in Data)
    BY <1>3, <1>8, <1>14 DEF ToSend, Retx
  <2> QED
    <3>1. \A i \in DOMAIN c.batch : c.batch[i].kind \in {"data", "ack", "probe"}
                                   /\ (Retx(c.batch[i]) <=> c.batch[i].item \in Data)
      BY <1>14 DEF ToSend
    <3>2. \A i \in DOMAIN e.batch : (i \in DOMAIN c.batch /\ e.batch[i] = c.batch[i]) \/ e.batch[i] = q
      <4>1. ASSUME NEW i \in DOMAIN e.batch, i \notin 1..l
            PROVE  i = l + 1
        BY <1>4, <1>12, <4>1
      <4> QED
        BY <1>4, <1>12, <4>1
    <3> QED
      BY <2>1, <3>1, <3>2 DEF ToSend
<1>16. ToSend(t)
  BY <1>13, <1>14 DEF ToSend
<1>17. /\ Queued(e) /\ RetxOf(e) = RetxOf(c)
       /\ e.unacked = c.unacked /\ e.senhist = c.senhist /\ e.gap = c.gap /\ e.released = c.released
       /\ e.retx_alarm = c.retx_alarm
  <2>1. q.no \in Int /\ c.cur_packno \in Int /\ c.n_scheduled = Len(c.sched) /\ c.lost \in Seq(Packet)
    BY <1>2, <1>8 DEF Queued, Typed, Counted, Packet
  <2>2. e.cur_packno \in Int /\ e.n_scheduled = Len(e.sched)
    BY <1>4, <1>9, <2>1
  <2>3. \A i \in DOMAIN e.lost : Retx(e.lost[i]) /\ e.lost[i].item \in Data
    BY <1>2, <1>10 DEF Queued, Sorted
  <2> QED
    BY <1>2, <1>3, <1>9, <1>10, <1>12, <1>15, <1>16, <2>1, <2>2, <2>3, WaitingQueued
<1>18. \A m : Nth(e, m) = Nth(c, m)
  BY <1>17, NthSame
<1>19. BatchOn(e)
  <2>1. \A i \in 1..l : ~c.batch[i].repack /\ c.batch[i].no = Nth(c, i)
    BY <1>4, <1>5 DEF BatchOn
  <2> QED
    BY <1>4, <1>8, <1>12, <1>18, <2>1 DEF BatchOn
<1>20. Numbered(e)
  <2>1. CASE k = 0
    <3>1. UpTo(e, 0)
      <4>1. \A i \in DOMAIN t : t[i].repack
        <5>1. \A i \in DOMAIN c.sched : ~(i <= 0)
          BY <1>2
        <5> QED
          BY <1>6, <1>13, <2>1, <5>1 DEF UpTo
      <4>2. \A i \in DOMAIN t : ~(i <= 0)
        BY <1>4
      <4> QED
        BY <1>9, <4>1, <4>2 DEF UpTo
    <3>2. Last(e, l + 1)
      BY <1>7, <1>8, <1>9, <1>18, <2>1 DEF Last
    <3>3. Len(e.batch) + 0 = l + 1 /\ 0 \in 0..Len(e.sched)
      BY <1>4, <1>9, <1>12
    <3> QED
      BY <1>19, <3>1, <3>2, <3>3, NumberedIs
  <2>2. CASE k # 0
    <3> DEFINE j == k - 1
    <3>1. j \in 0..Len(t) /\ j + 1 = k /\ (l + 1) + j = l + k
      BY <1>4, <1>6, <2>2
    <3>2. Last(e, (l + 1) + j)
      <4>1. e.cur_packno = c.cur_packno
        BY <1>7, <1>9, <2>2
      <4> QED
        BY <1>6, <1>17, <3>1, <4>1, NthSame
    <3> HIDE DEF j
    <3>3. ASSUME NEW i \in DOMAIN t
          PROVE  IF i <= j THEN ~t[i].repack /\ t[i].no = Nth(e, (l + 1) + i) ELSE t[i].repack
      <4>1. i \in Nat /\ l + (i + 1) = (l + 1) + i /\ (i <= j <=> i + 1 <= k)
        BY <1>4, <1>6, <3>1
      <4> QED
        BY <1>6, <1>13, <1>18, <4>1 DEF UpTo
    <3>4. UpTo(e, j)
      BY <1>9, <1>12, <3>3 DEF UpTo
    <3> QED
      BY <1>9, <1>12, <1>19, <3>1, <3>2, <3>4, NumberedIs
  <2> QED
    BY <2>1, <2>2
<1>21. /\ \A d : Alone(<<p>>, d) /\ Alone(<<q>>, d)
       /\ \A d : DatumAt(<<q>>, d) = {} <=> DatumAt(<<p>>, d) = {}
  <2>1. Retx(q) <=> Retx(p)
    BY <1>8 DEF Retx
  <2> QED
    BY <1>3, <1>8, <2>1, OneOf
<1>22. ASSUME NEW d \in Data
       PROVE  Kept(e, d) /\ (Places(e, d) = {} <=> Places(c, d) = {})
  <2>1. DatumAt(c.sched, d) = {} <=> DatumAt(<<p>>, d) = {} /\ DatumAt(t, d) = {}
    BY <1>3 DEF Joined
  <2>2. DatumAt(e.batch, d) = {} <=> DatumAt(c.batch, d) = {} /\ DatumAt(<<p>>, d) = {}
    BY <1>11, <1>21 DEF Joined
  <2>3. Absent(e, d) <=> Absent(c, d)
    BY <1>9, <1>10, <1>17, <2>1, <2>2 DEF Absent
  <2>4. Kept(c, d) /\ Lonely(c, d)
    BY KeptIs DEF Good, Kept
  <2>5. Alone(t, d) /\ (DatumAt(<<p>>, d) = {} \/ DatumAt(t, d) = {})
    BY <1>3, <2>4 DEF Joined, Lonely
  <2>6. Alone(e.batch, d)
    BY <1>11, <1>21, <2>1, <2>4 DEF Joined, Lonely
  <2>7. Lonely(e, d)
    BY <1>9, <1>10, <1>17, <2>1, <2>2, <2>4, <2>5, <2>6 DEF Lonely
  <2>8. ASSUME NEW i \in DatumAt(t, d), t[i].ack
        PROVE  ItemsAt(c.unacked, {d}) = {}
    <3>1. i + 1 \in DatumAt(c.sched, d) /\ c.sched[i + 1].ack
      BY <1>13, <2>8 DEF DatumAt
    <3> QED
      BY <2>4, <3>1, KeptIs
  <2>9. ASSUME NEW i \in DatumAt(e.batch, d), e.batch[i].ack
        PROVE  ItemsAt(c.unacked, {d}) = {}
    <3>1. i \in 1..(l + 1) /\ Retx(e.batch[i]) /\ e.batch[i].item = d
      BY <1>12 DEF DatumAt
    <3>2. CASE i = l + 1
      <4>1. 1 \in DatumAt(c.sched, d) /\ c.sched[1].ack
        BY <1>3, <1>8, <1>12, <2>9, <3>1, <3>2 DEF DatumAt, Retx
      <4> QED
        BY <2>4, <4>1, KeptIs
    <3>3. CASE i # l + 1
      <4>1. i \in 1..l
        BY <1>4, <3>1, <3>3
      <4>2. i \in DatumAt(c.batch, d) /\ c.batch[i].ack
        BY <1>4, <1>12, <2>9, <3>1, <4>1 DEF DatumAt
      <4> QED
        BY <2>4, <4>2, KeptIs
    <3> QED
      BY <3>2, <3>3
  <2>10. Kept(e, d)
    BY <1>9, <1>17, <2>3, <2>4, <2>7, <2>8, <2>9, KeptIs
  <2> QED
    BY <2>3, <2>10, OnceIs
<1>23. Good(e)
  BY <1>17, <1>20, <1>22 DEF Good, Queued, Kept
<1> QED
  BY <1>17, <1>22, <1>23 DEF Moves

\* Where the members of a joined queue come from.
Follows(q1, q2, s) ==
  \A i \in DOMAIN s : \/ i \in DOMAIN q1 /\ s[i] = q1[i]
                      \/ /\ i \notin DOMAIN q1 /\ i > Len(q1) /\ i - Len(q1) \in DOMAIN q2
                         /\ Len(q1) + (i - Len(q1)) = i /\ s[i] = q2[i - Len(q1)]

\* Each place of the joined queue is a place of the first or of the second.
LEMMA JoinedPlaces ==
  ASSUME NEW q1 \in Seq(Packet), NEW q2 \in Seq(Packet), NEW s, Joined(q1, q2, s)
  PROVE  /\ Len(q1) \in Nat /\ Len(q2) \in Nat /\ Len(s) = Len(q1) + Len(q2)
         /\ DOMAIN q1 = 1..Len(q1) /\ DOMAIN q2 = 1..Len(q2) /\ DOMAIN s = 1..Len(s)
         /\ Follows(q1, q2, s)
<1>1. /\ Len(q1) \in Nat /\ Len(q2) \in Nat /\ Len(s) = Len(q1) + Len(q2)
      /\ DOMAIN q1 = 1..Len(q1) /\ DOMAIN q2 = 1..Len(q2) /\ DOMAIN s = 1..Len(s)
  BY DEF Joined
<1>2. ASSUME NEW i \in DOMAIN s
      PROVE  \/ i \in DOMAIN q1 /\ s[i] = q1[i]
             \/ /\ i \notin DOMAIN q1 /\ i > Len(q1) /\ i - Len(q1) \in DOMAIN q2
                /\ Len(q1) + (i - Len(q1)) = i /\ s[i] = q2[i - Len(q1)]
  <2>1. CASE i \in DOMAIN q1
    BY <2>1 DEF Joined
  <2>2. CASE i \notin DOMAIN q1
    <3>1. i > Len(q1) /\ i - Len(q1) \in DOMAIN q2
      BY <2>2 DEF Joined
    <3>2. i \in Nat /\ Len(q1) + (i - Len(q1)) = i
      BY <1>1
    <3>3. s[Len(q1) + (i - Len(q1))] = q2[i - Len(q1)]
      BY <3>1 DEF Joined
    <3> QED
      BY <2>2, <3>1, <3>2, <3>3
  <2> QED
    BY <2>1, <2>2
<1> QED
  BY <1>1, <1>2 DEF Follows

\* What is left of the batch is given back to the scheduled queue: the numbers
\* stay where they are.
LEMMA NumbersDelayed ==
  ASSUME NEW c, Queued(c), Numbered(c), NEW e, e.senhist = c.senhist, e.gap = c.gap, e.cur_packno = c.cur_packno,
         Joined(c.batch, c.sched, e.sched), Len(e.batch) = 0, BatchOn(e)
  PROVE  Numbered(e)
<1>1. c.sched \in Seq(Packet) /\ c.batch \in Seq(Packet)
  BY DEF Queued, Typed
<1>2. /\ Len(c.batch) \in Nat /\ Len(c.sched) \in Nat /\ Len(e.sched) = Len(c.batch) + Len(c.sched)
      /\ DOMAIN c.batch = 1..Len(c.batch) /\ DOMAIN c.sched = 1..Len(c.sched) /\ DOMAIN e.sched = 1..Len(e.sched)
  <2>1. Len(e.sched) = Len(c.batch) + Len(c.sched) /\ e.sched \in Seq(Packet)
    BY DEF Joined
  <2>2. \A q \in Seq(Packet) : Len(q) \in Nat /\ DOMAIN q = 1..Len(q)
    OBVIOUS
  <2> QED
    BY <1>1, <2>1, <2>2, Zenon
<1>12. Follows(c.batch, c.sched, e.sched)
  BY <1>1, JoinedPlaces
<1>3. PICK k \in 0..Len(c.sched) : UpTo(c, k) /\ Last(c, Len(c.batch) + k)
  BY NumberedIs
<1>4. BatchOn(c)
  BY NumberedIs
<1>5. (\A m : Nth(e, m) = Nth(c, m)) /\ (\A m : Last(e, m) <=> Last(c, m))
  BY NthSame
<1>6. ASSUME NEW i \in DOMAIN e.sched
      PROVE  IF i <= Len(c.batch) + k THEN ~e.sched[i].repack /\ e.sched[i].no = Nth(e, i) ELSE e.sched[i].repack
  <2>1. CASE i \in DOMAIN c.batch
    <3>0. e.sched[i] = c.batch[i]
      BY <1>12, <2>1 DEF Follows
    <3>1. i <= Len(c.batch) + k
      BY <1>2, <2>1
    <3>2. ~c.batch[i].repack /\ c.batch[i].no = Nth(c, i)
      BY <1>4, <2>1 DEF BatchOn
    <3> QED
      BY <1>5, <3>0, <3>1, <3>2
  <2>2. CASE i \notin DOMAIN c.batch
    <3> DEFINE j == i - Len(c.batch)
    <3>1. j \in DOMAIN c.sched /\ e.sched[i] = c.sched[j] /\ Len(c.batch) + j = i
      BY <1>12, <2>2 DEF Follows
    <3>2. i <= Len(c.batch) + k <=> j <= k
      BY <1>2
    <3> HIDE DEF j
    <3>3. IF j <= k THEN ~c.sched[j].repack /\ c.sched[j].no = Nth(c, Len(c.batch) + j) ELSE c.sched[j].repack
      BY <1>3, <3>1 DEF UpTo
    <3> QED
      BY <1>5, <3>1, <3>2, <3>3
  <2> QED
    BY <2>1, <2>2
<1>7. Len(e.batch) = 0 /\ \A i \in DOMAIN e.sched : Len(e.batch) + i = i
  <2>1. ASSUME NEW i \in DOMAIN e.sched
        PROVE  Len(e.batch) + i = i
    <3>1. i \in Int
      BY <1>2
    <3>2. 0 + i = i
      BY <3>1
    <3> QED
      BY <3>2
  <2> QED
    BY <2>1
<1>8. UpTo(e, Len(c.batch) + k)
  BY <1>6, <1>7 DEF UpTo
<1>10. Len(e.batch) + (Len(c.batch) + k) = Len(c.batch) + k /\ Len(c.batch) + k \in 0..Len(e.sched)
  <2>1. \A x \in Nat, y \in Nat : \A z \in 0..y : 0 + (x + z) = x + z /\ x + z \in 0..(x + y)
    OBVIOUS
  <2>2. Len(c.batch) \in Nat /\ Len(c.sched) \in Nat /\ Len(e.sched) = Len(c.batch) + Len(c.sched)
    BY <1>2
  <2>3. Len(e.batch) = 0
    OBVIOUS
  <2>4. 0 + (Len(c.batch) + k) = Len(c.batch) + k /\ Len(c.batch) + k \in 0..(Len(c.batch) + Len(c.sched))
    BY <2>1, <2>2, Zenon
  <2> QED
    BY <2>2, <2>3, <2>4, Zenon
<1>11. Last(e, Len(c.batch) + k)
  BY <1>3, <1>5
<1> QED
  BY <1>8, <1>10, <1>11, NumberedIs

\* delayed_one for the rest of the batch: its packets are the first to be sent
\* again, with the numbers they have.
LEMMA BatchDelayed ==
  ASSUME NEW c, Good(c), NEW e, e = delayed(c)
  PROVE  /\ Good(e) /\ Moves(c, e) /\ e.unacked = c.unacked /\ e.senhist = c.senhist /\ e.batch = <<>>
         /\ e.retx_alarm = c.retx_alarm /\ RetxOf(e) = RetxOf(c)
<1>1. Queued(c) /\ Numbered(c) /\ DOMAIN c = CtlFields /\ c.sched \in Seq(Packet) /\ c.batch \in Seq(Packet)
  BY DEF Good, Queued, Typed
<1>3. /\ e.sched = c.batch \o c.sched /\ e.n_scheduled = c.n_scheduled + Len(c.batch) /\ e.batch = <<>>
      /\ Same(c, e, {"sched", "n_scheduled", "batch", "next_limit"})
  BY <1>1 DEF delayed, Same, CtlFields
<1>4. e.lost = c.lost /\ e.cur_packno = c.cur_packno /\ Same(c, e, Waiting)
  BY <1>1, <1>3 DEF Same, Waiting, CtlFields
<1>5. Joined(c.batch, c.sched, e.sched)
  BY <1>1, <1>3, JoinedIs
<1>6. /\ Len(c.batch) \in Nat /\ Len(c.sched) \in Nat /\ Len(e.sched) = Len(c.batch) + Len(c.sched)
      /\ DOMAIN c.batch = 1..Len(c.batch) /\ DOMAIN c.sched = 1..Len(c.sched) /\ DOMAIN e.sched = 1..Len(e.sched)
  BY <1>1, <1>5, JoinedPlaces
<1>12. Follows(c.batch, c.sched, e.sched)
  BY <1>1, <1>5, JoinedPlaces
<1>7. ToSend(e.sched) /\ e.sched \in Seq(Packet)
  <2>1. ToSend(c.sched) /\ ToSend(c.batch)
    BY <1>1 DEF Queued, Sorted
  <2>2. e.sched \in Seq(Packet)
    BY <1>5 DEF Joined
  <2> QED
    BY <1>12, <2>1, <2>2 DEF ToSend, Follows
<1>8. /\ Queued(e) /\ RetxOf(e) = RetxOf(c)
      /\ e.unacked = c.unacked /\ e.senhist = c.senhist /\ e.gap = c.gap /\ e.released = c.released
      /\ e.retx_alarm = c.retx_alarm
  <2>1. c.cur_packno \in Int /\ c.n_scheduled = Len(c.sched) /\ c.lost \in Seq(Packet)
        /\ \A i \in DOMAIN c.lost : Retx(c.lost[i]) /\ c.lost[i].item \in Data
    BY <1>1 DEF Queued, Typed, Counted, Sorted
  <2>2. e.batch \in Seq(Packet) /\ ToSend(e.batch)
    BY <1>3 DEF ToSend
  <2>3. e.n_scheduled = Len(e.sched)
    <3>1. e.n_scheduled = c.n_scheduled + Len(c.batch)
      BY <1>3
    <3>2. \A x, y \in Nat : x + y = y + x
      OBVIOUS
    <3>3. Len(c.sched) + Len(c.batch) = Len(c.batch) + Len(c.sched)
      BY <1>6, <3>2, Zenon
    <3> QED
      BY <1>6, <2>1, <3>1, <3>3, Zenon
  <2> QED
    BY <1>1, <1>4, <1>7, <2>1, <2>2, <2>3, WaitingQueued
<1>9. Numbered(e)
  <2>1. Len(e.batch) = 0 /\ BatchOn(e)
    BY <1>3 DEF BatchOn
  <2> QED
    BY <1>1, <1>4, <1>5, <1>8, <2>1, NumbersDelayed
<1>10. ASSUME NEW d \in Data
       PROVE  Kept(e, d) /\ (Places(e, d) = {} <=> Places(c, d) = {})
  <2>1. DatumAt(e.sched, d) = {} <=> DatumAt(c.sched, d) = {} /\ DatumAt(c.batch, d) = {}
    BY <1>5 DEF Joined
  <2>2. DatumAt(e.batch, d) = {} /\ Alone(e.batch, d)
    BY <1>3 DEF DatumAt, Alone
  <2>3. Absent(e, d) <=> Absent(c, d)
    BY <1>4, <1>8, <2>1, <2>2 DEF Absent
  <2>4. Kept(c, d) /\ Lonely(c, d)
    BY KeptIs DEF Good, Kept
  <2>5. Alone(e.sched, d)
    BY <1>5, <2>4 DEF Joined, Lonely
  <2>6. Lonely(e, d)
    BY <1>4, <1>8, <2>1, <2>2, <2>4, <2>5 DEF Lonely
  <2>7. ASSUME NEW i \in DatumAt(e.sched, d), e.sched[i].ack
        PROVE  ItemsAt(c.unacked, {d}) = {}
    <3>1. i \in DOMAIN e.sched /\ Retx(e.sched[i]) /\ e.sched[i].item = d
      BY DEF DatumAt
    <3>2. CASE i \in DOMAIN c.batch
      <4>1. i \in DatumAt(c.batch, d) /\ c.batch[i].ack
        BY <1>12, <2>7, <3>1, <3>2 DEF DatumAt, Follows
      <4> QED
        BY <2>4, <4>1, KeptIs
    <3>3. CASE i \notin DOMAIN c.batch
      <4>1. i - Len(c.batch) \in DOMAIN c.sched /\ e.sched[i] = c.sched[i - Len(c.batch)]
        BY <1>12, <3>1, <3>3 DEF Follows
      <4>2. i - Len(c.batch) \in DatumAt(c.sched, d) /\ c.sched[i - Len(c.batch)].ack
        BY <2>7, <3>1, <4>1 DEF DatumAt
      <4> QED
        BY <2>4, <4>2, KeptIs
    <3> QED
      BY <3>2, <3>3
  <2>8. Kept(e, d)
    BY <1>8, <2>2, <2>3, <2>4, <2>6, <2>7, KeptIs
  <2> QED
    BY <2>3, <2>8, OnceIs
<1>11. Good(e)
  BY <1>8, <1>9, <1>10 DEF Good, Queued, Kept
<1> QED
  BY <1>3, <1>8, <1>10, <1>11 DEF Moves

\* One more packet among the unacked.
Grows(c, e, p) ==
  /\ Cardinality(RealOf(e)) = Cardinality(RealOf(c)) + (IF Real(p) THEN 1 ELSE 0)
  /\ Cardinality(RetxOf(e)) = Cardinality(RetxOf(c)) + (IF Retx(p) THEN 1 ELSE 0)
  /\ ~Retx(p) /\ RetxOf(c) = {} => RetxOf(e) = {}
  /\ e.unacked \in Seq(Packet)

\* What is in flight when a packet is appended.
LEMMA UnackedGrows ==
  ASSUME NEW c, c.unacked \in Seq(Packet), NEW p \in Packet, NEW e, e.unacked = Append(c.unacked, p)
  PROVE  Grows(c, e, p)
<1> DEFINE P == {x \in Packet : Real(x)}
           R == {x \in Packet : Retx(x)}
<1>1. e.unacked \in Seq(Packet)
  OBVIOUS
<1>2. (\A i \in DOMAIN e.unacked : e.unacked[i] \in Packet) /\ (\A i \in DOMAIN c.unacked : c.unacked[i] \in Packet)
  BY <1>1
<1>3. /\ RealOf(e) = Holding(e.unacked, P) /\ RealOf(c) = Holding(c.unacked, P)
      /\ RetxOf(e) = Holding(e.unacked, R) /\ RetxOf(c) = Holding(c.unacked, R)
  BY <1>2 DEF RealOf, RetxOf, Holding
<1>4. (p \in P <=> Real(p)) /\ (p \in R <=> Retx(p))
  OBVIOUS
<1> HIDE DEF P, R
<1>5. /\ Cardinality(Holding(e.unacked, P)) = Cardinality(Holding(c.unacked, P)) + (IF p \in P THEN 1 ELSE 0)
      /\ Cardinality(Holding(e.unacked, R)) = Cardinality(Holding(c.unacked, R)) + (IF p \in R THEN 1 ELSE 0)
  BY AppendCounts
<1>6. ASSUME ~Retx(p), RetxOf(c) = {}
      PROVE  RetxOf(e) = {}
  <2>1. DOMAIN e.unacked = 1..(Len(c.unacked) + 1) /\ e.unacked[Len(c.unacked) + 1] = p
        /\ DOMAIN c.unacked = 1..Len(c.unacked) /\ Len(c.unacked) \in Nat
        /\ \A i \in 1..Len(c.unacked) : e.unacked[i] = c.unacked[i]
    OBVIOUS
  <2> QED
    BY <1>6, <2>1 DEF RetxOf
<1> QED
  BY <1>1, <1>3, <1>4, <1>5, <1>6 DEF Grows

-------------------------------------------------------------------------------
(* Sending.                                                                *)

\* What the history of sent numbers becomes when the next number is sent.
LEMMA NthNext ==
  ASSUME NEW c, c.senhist \in Nat, c.gap \in Nat, c.senhist # c.gap,
         NEW b, b.senhist = Nth(c, 1), b.gap = c.gap
  PROVE  /\ b.senhist \in Nat /\ b.senhist > c.senhist /\ b.senhist # c.gap
         /\ (b.senhist = c.gap + 1 <=> c.senhist + 1 = c.gap)
         /\ c.senhist + 1 = c.gap => c.senhist < c.gap /\ c.gap < b.senhist
         /\ \A m \in Nat : Nth(b, m) = Nth(c, m + 1)
<1>1. b.senhist = IF c.senhist + 1 = c.gap THEN c.senhist + 2 ELSE c.senhist + 1
  BY DEF Nth
<1>2. ASSUME NEW m \in Nat
      PROVE  Nth(b, m) = Nth(c, m + 1)
  BY <1>1 DEF Nth
<1> QED
  BY <1>1, <1>2

\* The numbers go on when the first packet of the batch is gone.
LEMMA TailNumbers ==
  ASSUME NEW c, Queued(c), Numbered(c), NEW p, NEW t \in Seq(Packet), Joined(<<p>>, t, c.batch), p \in Packet,
         NEW b, b.senhist = Nth(c, 1), b.gap = c.gap, b.cur_packno = c.cur_packno, b.sched = c.sched, b.batch = t
  PROVE  Numbered(b) /\ p.no = b.senhist
<1>1. c.senhist \in Nat /\ c.gap \in Nat /\ c.senhist # c.gap /\ c.sched \in Seq(Packet)
  BY DEF Queued, Typed, InOrder
<1>2. \A m \in Nat : Nth(b, m) = Nth(c, m + 1)
  BY <1>1, NthNext
<1>3. <<p>> \in Seq(Packet) /\ Len(<<p>>) = 1 /\ DOMAIN <<p>> = {1} /\ <<p>>[1] = p
  BY OneOf
<1>4. /\ Len(t) \in Nat /\ Len(c.batch) = Len(t) + 1 /\ DOMAIN t = 1..Len(t)
      /\ 1 \in DOMAIN c.batch /\ c.batch[1] = p
      /\ \A i \in DOMAIN t : 1 + i \in DOMAIN c.batch /\ t[i] = c.batch[1 + i]
  <2>1. Len(t) \in Nat /\ DOMAIN t = 1..Len(t)
    OBVIOUS
  <2>2. Len(c.batch) = 1 + Len(t)
    BY <1>3 DEF Joined
  <2>3. 1 \in DOMAIN c.batch /\ c.batch[1] = p
    BY <1>3 DEF Joined
  <2>4. ASSUME NEW i \in DOMAIN t
        PROVE  1 + i \in DOMAIN c.batch /\ t[i] = c.batch[1 + i]
    BY <1>3 DEF Joined
  <2> QED
    BY <2>1, <2>2, <2>3, <2>4
<1>5. BatchOn(c)
  BY NumberedIs
<1>6. p.no = b.senhist
  BY <1>4, <1>5 DEF BatchOn
<1>7. PICK k \in 0..Len(c.sched) : UpTo(c, k) /\ Last(c, Len(c.batch) + k)
  BY NumberedIs
<1>8. BatchOn(b)
  <2>1. ASSUME NEW i \in DOMAIN t
        PROVE  ~t[i].repack /\ t[i].no = Nth(b, i)
    <3>1. 1 + i \in DOMAIN c.batch /\ t[i] = c.batch[1 + i]
      BY <1>4
    <3>2. i \in Nat /\ 1 + i = i + 1
      BY <1>4
    <3>3. ~c.batch[1 + i].repack /\ c.batch[1 + i].no = Nth(c, 1 + i)
      BY <1>5, <3>1 DEF BatchOn
    <3>4. Nth(b, i) = Nth(c, i + 1)
      BY <1>2, <3>2
    <3> QED
      BY <3>1, <3>2, <3>3, <3>4
  <2> QED
    BY <2>1 DEF BatchOn
<1>9. ASSUME NEW i \in Nat
      PROVE  Nth(b, Len(b.batch) + i) = Nth(c, Len(c.batch) + i)
  <2>1. \A x, y \in Nat : (x + y) + 1 = (x + 1) + y /\ x + y \in Nat
    OBVIOUS
  <2>2. (Len(t) + i) + 1 = Len(c.batch) + i /\ Len(t) + i \in Nat
    <3>1. Len(t) \in Nat /\ Len(c.batch) = Len(t) + 1
      BY <1>4
    <3> QED
      BY <2>1, <3>1, Zenon
  <2> QED
    BY <1>2, <2>2
<1>10. Last(b, Len(b.batch) + k)
  <2>1. k \in Nat
    BY <1>1, <1>7
  <2>2. Nth(b, Len(b.batch) + k) = Nth(c, Len(c.batch) + k)
    BY <1>9, <2>1
  <2> QED
    BY <1>7, <2>2 DEF Last
<1>11. UpTo(b, k)
  <2>1. \A i \in DOMAIN c.sched : i \in Nat
    BY <1>1
  <2>2. \A i \in DOMAIN c.sched : Nth(b, Len(b.batch) + i) = Nth(c, Len(c.batch) + i)
    BY <1>9, <2>1
  <2>3. \A i \in DOMAIN c.sched : IF i <= k THEN ~c.sched[i].repack /\ c.sched[i].no = Nth(c, Len(c.batch) + i)
                                  ELSE c.sched[i].repack
    BY <1>7 DEF UpTo
  <2>4. ASSUME NEW i \in DOMAIN b.sched
        PROVE  IF i <= k THEN ~b.sched[i].repack /\ b.sched[i].no = Nth(b, Len(b.batch) + i) ELSE b.sched[i].repack
    <3>1. Nth(b, Len(b.batch) + i) = Nth(c, Len(c.batch) + i)
      BY <2>2
    <3>2. IF i <= k THEN ~c.sched[i].repack /\ c.sched[i].no = Nth(c, Len(c.batch) + i) ELSE c.sched[i].repack
      BY <2>3
    <3> QED
      BY <3>1, <3>2
  <2> QED
    BY <2>4 DEF UpTo
<1>12. Numbered(b)
  <2>1. k \in 0..Len(b.sched)
    OBVIOUS
  <2> QED
    BY <1>8, <1>10, <1>11, <2>1, NumberedIs
<1> QED
  BY <1>6, <1>12

\* A packet joins the unacked ones, with a number above all of theirs.
Joins(c, e, p) ==
  /\ \A i \in DOMAIN e.unacked : (i \in DOMAIN c.unacked /\ e.unacked[i] = c.unacked[i]) \/ e.unacked[i] = p
  /\ \A i \in DOMAIN c.unacked : i \in DOMAIN e.unacked /\ e.unacked[i] = c.unacked[i]
  /\ Len(e.unacked) \in DOMAIN e.unacked /\ e.unacked[Len(e.unacked)] = p
  /\ \A d : DatumAt(e.unacked, d) = {} <=> DatumAt(c.unacked, d) = {} /\ ~(Retx(p) /\ p.item = d)
  /\ \A D : ItemsAt(e.unacked, D) = {} <=> ItemsAt(c.unacked, D) = {} /\ p.item \notin D
  /\ \A d : Alone(c.unacked, d) /\ (DatumAt(c.unacked, d) = {} \/ ~(Retx(p) /\ p.item = d)) => Alone(e.unacked, d)
  /\ (\A i \in DOMAIN c.unacked : c.unacked[i].no < p.no) /\ Rising(c.unacked) => Rising(e.unacked)

\* The order and the data of the unacked queue when a packet is appended.
LEMMA UnackedJoined ==
  ASSUME NEW c, c.unacked \in Seq(Packet), NEW p \in Packet, NEW e, e.unacked = Append(c.unacked, p)
  PROVE  Joins(c, e, p)
<1> DEFINE n == Len(c.unacked)
<1>1. /\ n \in Nat /\ DOMAIN c.unacked = 1..n /\ DOMAIN e.unacked = 1..(n + 1) /\ Len(e.unacked) = n + 1
      /\ e.unacked[n + 1] = p /\ \A i \in 1..n : e.unacked[i] = c.unacked[i]
  OBVIOUS
<1>2. Joined(c.unacked, <<p>>, e.unacked)
  BY Ends
<1> HIDE DEF n
<1>3. ASSUME NEW i \in DOMAIN e.unacked
      PROVE  (i \in 1..n /\ e.unacked[i] = c.unacked[i]) \/ (i = n + 1 /\ e.unacked[i] = p)
  BY <1>1
<1>4. \A i \in 1..n : i \in DOMAIN e.unacked /\ e.unacked[i] = c.unacked[i]
  BY <1>1
<1>5. n + 1 \in DOMAIN e.unacked
  BY <1>1
<1>6. ASSUME NEW d
      PROVE  /\ DatumAt(e.unacked, d) = {} <=> DatumAt(c.unacked, d) = {} /\ ~(Retx(p) /\ p.item = d)
             /\ Alone(c.unacked, d) /\ (DatumAt(c.unacked, d) = {} \/ ~(Retx(p) /\ p.item = d)) => Alone(e.unacked, d)
  <2>1. Alone(<<p>>, d) /\ (DatumAt(<<p>>, d) = {} <=> ~(Retx(p) /\ p.item = d))
    BY OneOf
  <2>2. /\ DatumAt(e.unacked, d) = {} <=> DatumAt(c.unacked, d) = {} /\ DatumAt(<<p>>, d) = {}
        /\ Alone(e.unacked, d) <=> /\ Alone(c.unacked, d) /\ Alone(<<p>>, d)
                                   /\ DatumAt(c.unacked, d) = {} \/ DatumAt(<<p>>, d) = {}
    BY <1>2 DEF Joined
  <2>3. DatumAt(e.unacked, d) = {} <=> DatumAt(c.unacked, d) = {} /\ ~(Retx(p) /\ p.item = d)
    BY <2>1, <2>2
  <2>4. Alone(c.unacked, d) /\ (DatumAt(c.unacked, d) = {} \/ ~(Retx(p) /\ p.item = d)) => Alone(e.unacked, d)
    BY <2>1, <2>2
  <2> QED
    BY <2>3, <2>4
<1>7. ASSUME NEW D
      PROVE  ItemsAt(e.unacked, D) = {} <=> ItemsAt(c.unacked, D) = {} /\ p.item \notin D
  BY <1>1, <1>3, <1>4, <1>5 DEF ItemsAt
<1>8. ASSUME \A i \in DOMAIN c.unacked : c.unacked[i].no < p.no, Rising(c.unacked)
      PROVE  Rising(e.unacked)
  <2>1. ASSUME NEW i \in DOMAIN e.unacked, NEW j \in DOMAIN e.unacked, i < j
        PROVE  e.unacked[i].no < e.unacked[j].no
    <3>1. i \in 1..n /\ e.unacked[i] = c.unacked[i]
      BY <1>1, <1>3, <2>1
    <3>2. CASE j \in 1..n /\ e.unacked[j] = c.unacked[j]
      BY <1>1, <1>8, <2>1, <3>1, <3>2 DEF Rising
    <3>3. CASE j = n + 1 /\ e.unacked[j] = p
      BY <1>1, <1>8, <3>1, <3>3
    <3> QED
      BY <1>3, <3>2, <3>3
  <2> QED
    BY <2>1 DEF Rising
<1> QED
  BY <1>1, <1>3, <1>4, <1>5, <1>6, <1>7, <1>8 DEF Joins

\* What add_senhist and update_poison_hist do with the number that is next.
Remembers(a, b, no) ==
  /\ b.senhist = no /\ Same(a, b, {"unacked", "senhist"})
  /\ b.unacked = IF no = a.gap + 1 THEN Append(a.unacked, NewPacket(a.gap, "poison", Nothing)) ELSE a.unacked

\* add_senhist after update_poison_hist: the history of sent numbers ends with the
\* number of the packet, and the gap's is passed by the poisoned packet.
LEMMA HistoryMoved ==
  ASSUME NEW a, DOMAIN a = CtlFields, a.senhist \in Nat, a.gap \in Nat, NEW no \in Nat, no > a.senhist,
         no = a.gap + 1 => a.gap > a.senhist,
         NEW b, b = add_senhist(update_poison_hist(a, no), no)
  PROVE  Remembers(a, b, no)
<1> DEFINE h == update_poison_hist(a, no)
           poison == NewPacket(a.gap, "poison", Nothing)
<1>1. /\ h.unacked = IF no = a.gap + 1 THEN Append(a.unacked, poison) ELSE a.unacked
      /\ h.senhist \in Nat /\ h.senhist < no
      /\ Same(a, h, {"unacked", "senhist"})
  <2>1. CASE no = a.gap + 1
    <3>1. h = [a EXCEPT !.senhist = IF a.gap > @ THEN a.gap ELSE @, !.unacked = Append(@, poison)]
      BY <2>1 DEF update_poison_hist
    <3> HIDE DEF h, poison
    <3>2. h.unacked = Append(a.unacked, poison) /\ Same(a, h, {"unacked", "senhist"})
      BY <3>1 DEF Same, CtlFields
    <3>3. h.senhist = IF a.gap > a.senhist THEN a.gap ELSE a.senhist
      BY <3>1 DEF CtlFields
    <3> QED
      BY <2>1, <3>2, <3>3
  <2>2. CASE no # a.gap + 1
    <3>1. h = a
      BY <2>2 DEF update_poison_hist
    <3> HIDE DEF h
    <3> QED
      BY <2>2, <3>1 DEF Same
  <2> QED
    BY <2>1, <2>2
<1>2. b = [h EXCEPT !.senhist = IF no > @ THEN no ELSE @]
  BY DEF add_senhist
<1> HIDE DEF h, poison
<1>3. DOMAIN h = CtlFields
  BY <1>1 DEF Same
<1>4. b.senhist = (IF no > h.senhist THEN no ELSE h.senhist) /\ Same(h, b, {"senhist"})
  BY <1>2, <1>3 DEF Same, CtlFields
<1>5. b.senhist = no
  BY <1>1, <1>4
<1>6. b.unacked = h.unacked /\ Same(a, b, {"unacked", "senhist"})
  BY <1>1, <1>3, <1>4 DEF Same, CtlFields
<1> QED
  BY <1>1, <1>5, <1>6 DEF Remembers, poison

\* No datum is with the unacked packets that was not.
SameData(c, b) ==
  \A d \in Data : /\ DatumAt(b.unacked, d) = {} <=> DatumAt(c.unacked, d) = {}
                  /\ ItemsAt(b.unacked, {d}) = {} <=> ItemsAt(c.unacked, {d}) = {}
                  /\ Alone(c.unacked, d) => Alone(b.unacked, d)

\* The first packet of the batch leaves it with its number, which is the next
\* in the history of sent numbers; the number of the gap goes before it when
\* it is next.
Left(c, b, p) ==
  /\ Queued(b) /\ Numbered(b)
  /\ b.batch = Tail(c.batch) /\ b.sched = c.sched /\ b.lost = c.lost /\ b.released = c.released /\ b.gap = c.gap
  /\ b.retx_alarm = c.retx_alarm
  /\ b.senhist = p.no /\ p.no > c.senhist /\ p.no # c.gap /\ p.no \in Nat
  /\ \A i \in DOMAIN b.unacked : b.unacked[i].no < p.no
  /\ SameData(c, b)
  /\ RetxOf(c) = {} => RetxOf(b) = {}

\* The first packet of the batch, p, is taken from it and goes into the
\* history of sent numbers, after the number of the gap when that is next.
Taken(c, b, p) ==
  /\ p \in Packet /\ Joined(<<p>>, b.batch, c.batch) /\ b.batch \in Seq(Packet) /\ b.batch = Tail(c.batch)
  /\ c.senhist \in Nat /\ c.gap \in Nat /\ c.senhist # c.gap /\ p.no = Nth(c, 1)
  /\ p.no \in Nat /\ p.no > c.senhist /\ p.no # c.gap
  /\ p.no = c.gap + 1 => c.senhist < c.gap /\ c.gap < p.no
  /\ b.senhist = p.no
  /\ b.unacked = (IF p.no = c.gap + 1 THEN Append(c.unacked, NewPacket(c.gap, "poison", Nothing)) ELSE c.unacked)
  /\ b.sched = c.sched /\ b.lost = c.lost /\ b.gap = c.gap
  /\ b.n_in_flight_all = c.n_in_flight_all /\ b.n_in_flight_retx = c.n_in_flight_retx
  /\ b.n_scheduled = c.n_scheduled /\ b.cur_packno = c.cur_packno
  /\ b.released = c.released /\ b.retx_alarm = c.retx_alarm /\ DOMAIN b = CtlFields

\* The first packet of the batch has the next number, so that no number is
\* passed but the gap's.
LEMMA BatchTaken ==
  ASSUME NEW c, Good(c), c.batch # <<>>, NEW p, p = Head(c.batch),
         NEW a, a = [c EXCEPT !.batch = Tail(@)],
         NEW b, b = add_senhist(update_poison_hist(a, p.no), p.no)
  PROVE  Taken(c, b, p)
<1>1. Queued(c) /\ Numbered(c) /\ DOMAIN c = CtlFields /\ c.sched \in Seq(Packet) /\ c.batch \in Seq(Packet)
      /\ c.unacked \in Seq(Packet) /\ c.lost \in Seq(Packet)
  BY DEF Good, Queued, Typed
<1> DEFINE t == Tail(c.batch)
<1>2. p \in Packet
  BY <1>1
<1>3. Joined(<<p>>, t, c.batch) /\ t \in Seq(Packet)
  BY <1>1, <1>2, Ends
<1>4. c.senhist \in Nat /\ c.gap \in Nat /\ c.senhist # c.gap
  BY <1>1 DEF Queued, Typed, InOrder
<1>5. a.batch = t /\ Same(c, a, {"batch"})
  BY <1>1 DEF Same, CtlFields
<1> HIDE DEF t
<1>6. /\ a.sched = c.sched /\ a.unacked = c.unacked /\ a.lost = c.lost /\ a.gap = c.gap /\ a.senhist = c.senhist
      /\ a.n_in_flight_all = c.n_in_flight_all /\ a.n_in_flight_retx = c.n_in_flight_retx
      /\ a.n_scheduled = c.n_scheduled /\ a.cur_packno = c.cur_packno
      /\ a.released = c.released /\ a.retx_alarm = c.retx_alarm /\ DOMAIN a = CtlFields
  BY <1>1, <1>5 DEF Same, CtlFields
<1>7. p.no = Nth(c, 1)
  <2>1. BatchOn(c)
    BY <1>1, NumberedIs
  <2>2. 1 \in DOMAIN c.batch /\ c.batch[1] = p
    BY <1>2, <1>3, OneOf DEF Joined
  <2> QED
    BY <2>1, <2>2 DEF BatchOn
<1>8. /\ p.no \in Nat /\ p.no > c.senhist /\ p.no # c.gap
      /\ p.no = c.gap + 1 => c.senhist < c.gap /\ c.gap < p.no
  <2> DEFINE g == [senhist |-> p.no, gap |-> c.gap]
  <2>1. g.senhist = Nth(c, 1) /\ g.gap = c.gap
    BY <1>7
  <2>2. /\ g.senhist \in Nat /\ g.senhist > c.senhist /\ g.senhist # c.gap
        /\ (g.senhist = c.gap + 1 <=> c.senhist + 1 = c.gap)
        /\ c.senhist + 1 = c.gap => c.senhist < c.gap /\ c.gap < g.senhist
    BY <1>4, <2>1, NthNext
  <2> QED
    BY <2>2
<1> DEFINE poison == NewPacket(c.gap, "poison", Nothing)
<1>9. /\ b.senhist = p.no /\ Same(a, b, {"unacked", "senhist"})
      /\ b.unacked = IF p.no = c.gap + 1 THEN Append(c.unacked, poison) ELSE c.unacked
  <2>1. a.senhist \in Nat /\ a.gap \in Nat /\ p.no > a.senhist /\ (p.no = a.gap + 1 => a.gap > a.senhist)
    BY <1>4, <1>6, <1>8
  <2>2. DOMAIN a = CtlFields /\ p.no \in Nat
    BY <1>6, <1>8
  <2>3. Remembers(a, b, p.no)
    BY <2>1, <2>2, HistoryMoved
  <2> QED
    BY <1>6, <2>3 DEF Remembers, poison
<1>10. /\ b.batch = t /\ b.sched = c.sched /\ b.lost = c.lost /\ b.gap = c.gap
       /\ b.n_in_flight_all = c.n_in_flight_all /\ b.n_in_flight_retx = c.n_in_flight_retx
       /\ b.n_scheduled = c.n_scheduled /\ b.cur_packno = c.cur_packno
       /\ b.released = c.released /\ b.retx_alarm = c.retx_alarm /\ DOMAIN b = CtlFields
  <2>1. Same(a, b, {"unacked", "senhist"})
    BY <1>9
  <2>2. /\ b.batch = a.batch /\ b.sched = a.sched /\ b.lost = a.lost /\ b.gap = a.gap
        /\ b.n_in_flight_all = a.n_in_flight_all /\ b.n_in_flight_retx = a.n_in_flight_retx
        /\ b.n_scheduled = a.n_scheduled /\ b.cur_packno = a.cur_packno
        /\ b.released = a.released /\ b.retx_alarm = a.retx_alarm /\ DOMAIN b = CtlFields
    <3>1. DOMAIN a = CtlFields
      BY <1>6
    <3> QED
      BY <2>1, <3>1 DEF Same, CtlFields
  <2> QED
    BY <1>5, <1>6, <2>2
<1> QED
  BY <1>2, <1>3, <1>4, <1>7, <1>8, <1>9, <1>10 DEF Taken, t, poison

\* What is left keeps the invariant.
LEMMA TakenLeft ==
  ASSUME NEW c, Good(c), NEW b, NEW p, Taken(c, b, p)
  PROVE  Left(c, b, p)
<1>1. Queued(c) /\ Numbered(c) /\ c.sched \in Seq(Packet) /\ c.batch \in Seq(Packet)
      /\ c.unacked \in Seq(Packet) /\ c.lost \in Seq(Packet)
  BY DEF Good, Queued, Typed
<1> DEFINE poison == NewPacket(c.gap, "poison", Nothing)
<1>3. p \in Packet /\ Joined(<<p>>, b.batch, c.batch) /\ b.batch \in Seq(Packet) /\ b.batch = Tail(c.batch)
  BY DEF Taken
<1>4. c.senhist \in Nat /\ c.gap \in Nat /\ c.senhist # c.gap
  BY DEF Taken
<1>7. p.no = Nth(c, 1)
  BY DEF Taken
<1>8. /\ p.no \in Nat /\ p.no > c.senhist /\ p.no # c.gap
      /\ p.no = c.gap + 1 => c.senhist < c.gap /\ c.gap < p.no
  BY DEF Taken
<1>9. /\ b.senhist = p.no
      /\ b.unacked = (IF p.no = c.gap + 1 THEN Append(c.unacked, poison) ELSE c.unacked)
  BY DEF Taken, poison
<1>10. /\ b.sched = c.sched /\ b.lost = c.lost /\ b.gap = c.gap
       /\ b.n_in_flight_all = c.n_in_flight_all /\ b.n_in_flight_retx = c.n_in_flight_retx
       /\ b.n_scheduled = c.n_scheduled /\ b.cur_packno = c.cur_packno
       /\ b.released = c.released /\ b.retx_alarm = c.retx_alarm /\ DOMAIN b = CtlFields
  BY DEF Taken
<1>11. Nothing \notin Data
  BY SendAssumption
<1>12. poison \in Packet /\ ~Real(poison) /\ ~Retx(poison) /\ poison.item = Nothing /\ poison.no = c.gap
       /\ poison.kind = "poison"
  BY <1>4 DEF NewPacket, Packet, Real, Retx
<1> HIDE DEF poison
<1>13. b.unacked = c.unacked \/ (b.unacked = Append(c.unacked, poison) /\ c.senhist < c.gap /\ c.gap < p.no)
  BY <1>8, <1>9
<1>14. /\ \A i \in DOMAIN c.unacked : c.unacked[i].no \in Nat /\ c.unacked[i].no <= c.senhist
       /\ \A i \in DOMAIN c.unacked : c.unacked[i].kind = "poison" => c.unacked[i].no = c.gap
       /\ Rising(c.unacked)
       /\ \A i \in DOMAIN c.unacked : c.unacked[i].kind \in {"data", "rec"} <=> c.unacked[i].item \in Data
  <2>1. ASSUME NEW i \in DOMAIN c.unacked
        PROVE  c.unacked[i].no \in Nat
    <3>1. c.unacked[i] \in Packet
      BY <1>1
    <3> QED
      BY <3>1 DEF Packet
  <2> QED
    BY <1>1, <2>1 DEF Queued, InOrder, Sorted, Rising
<1> DEFINE Out == /\ b.unacked \in Seq(Packet)
                  /\ Cardinality(RealOf(b)) = Cardinality(RealOf(c)) /\ Cardinality(RetxOf(b)) = Cardinality(RetxOf(c))
                  /\ RetxOf(c) = {} => RetxOf(b) = {}
                  /\ \A i \in DOMAIN b.unacked : b.unacked[i].no \in Nat /\ b.unacked[i].no < p.no
                  /\ \A i \in DOMAIN b.unacked : b.unacked[i].kind = "poison" => b.unacked[i].no = c.gap
                  /\ Rising(b.unacked)
                  /\ \A i \in DOMAIN b.unacked : b.unacked[i].kind \in {"data", "rec"} <=> b.unacked[i].item \in Data
                  /\ SameData(c, b)
<1>15. Out
  <2>1. CASE b.unacked = c.unacked
    <3>1. RealOf(b) = RealOf(c) /\ RetxOf(b) = RetxOf(c)
      BY <2>1 DEF RealOf, RetxOf
    <3>2. \A i \in DOMAIN c.unacked : c.unacked[i].no < p.no
      BY <1>4, <1>8, <1>14
    <3>3. SameData(c, b)
      BY <2>1 DEF SameData
    <3> QED
      <4>1. \A i \in DOMAIN c.unacked : c.unacked[i].no \in Nat /\ c.unacked[i].no < p.no
        BY <1>14, <3>2
      <4> QED
        <5>1. /\ b.unacked \in Seq(Packet) /\ Rising(b.unacked)
              /\ Cardinality(RealOf(b)) = Cardinality(RealOf(c)) /\ Cardinality(RetxOf(b)) = Cardinality(RetxOf(c))
              /\ RetxOf(c) = {} => RetxOf(b) = {}
          BY <1>1, <1>14, <2>1, <3>1
        <5>2. /\ \A i \in DOMAIN b.unacked : b.unacked[i].no \in Nat /\ b.unacked[i].no < p.no
              /\ \A i \in DOMAIN b.unacked : b.unacked[i].kind = "poison" => b.unacked[i].no = c.gap
          BY <1>14, <2>1, <4>1
        <5>3. \A i \in DOMAIN b.unacked : b.unacked[i].kind \in {"data", "rec"} <=> b.unacked[i].item \in Data
          BY <1>14, <2>1
        <5> QED
          BY <3>3, <5>1, <5>2, <5>3, Zenon
  <2>2. CASE b.unacked = Append(c.unacked, poison) /\ c.senhist < c.gap /\ c.gap < p.no
    <3>1. /\ Cardinality(RealOf(b)) = Cardinality(RealOf(c)) + 0
          /\ Cardinality(RetxOf(b)) = Cardinality(RetxOf(c)) + 0
          /\ RetxOf(c) = {} => RetxOf(b) = {}
          /\ b.unacked \in Seq(Packet)
      BY <1>1, <1>12, <2>2, UnackedGrows DEF Grows
    <3>2. Cardinality(RealOf(c)) \in Nat /\ Cardinality(RetxOf(c)) \in Nat
      <4>1. RealOf(c) \in SUBSET (1..Len(c.unacked)) /\ RetxOf(c) \in SUBSET (1..Len(c.unacked)) /\ Len(c.unacked) \in Nat
        BY <1>1 DEF RealOf, RetxOf
      <4> QED
        BY <4>1, PlacesFinite
    <3>3. Joins(c, b, poison)
      BY <1>1, <1>12, <2>2, UnackedJoined
    <3>4. \A i \in DOMAIN b.unacked : (i \in DOMAIN c.unacked /\ b.unacked[i] = c.unacked[i]) \/ b.unacked[i] = poison
      BY <3>3 DEF Joins
    <3>5. \A i \in DOMAIN c.unacked : c.unacked[i].no < p.no /\ c.unacked[i].no < c.gap
      BY <1>4, <1>8, <1>14, <2>2
    <3>6. \A i \in DOMAIN b.unacked : b.unacked[i].no \in Nat /\ b.unacked[i].no < p.no
      BY <1>4, <1>12, <1>14, <2>2, <3>4, <3>5
    <3>7. ASSUME NEW i \in DOMAIN b.unacked, b.unacked[i].kind = "poison"
          PROVE  b.unacked[i].no = c.gap
      <4>1. CASE b.unacked[i] = poison
        BY <1>12, <4>1
      <4>2. CASE i \in DOMAIN c.unacked /\ b.unacked[i] = c.unacked[i]
        <5>1. c.unacked[i].kind = "poison"
          BY <3>7, <4>2
        <5> QED
          BY <1>14, <4>2, <5>1
      <4> QED
        BY <3>4, <4>1, <4>2
    <3>8. Rising(b.unacked)
      BY <1>12, <1>14, <3>3, <3>5 DEF Joins
    <3>9. \A i \in DOMAIN b.unacked : b.unacked[i].kind \in {"data", "rec"} <=> b.unacked[i].item \in Data
      BY <1>11, <1>12, <1>14, <3>4
    <3>10. ASSUME NEW d \in Data
           PROVE  /\ DatumAt(b.unacked, d) = {} <=> DatumAt(c.unacked, d) = {}
                  /\ ItemsAt(b.unacked, {d}) = {} <=> ItemsAt(c.unacked, {d}) = {}
                  /\ Alone(c.unacked, d) => Alone(b.unacked, d)
      <4>1. poison.item \notin {d}
        BY <1>11, <1>12
      <4> QED
        <5>1. /\ DatumAt(b.unacked, d) = {} <=> DatumAt(c.unacked, d) = {} /\ ~(Retx(poison) /\ poison.item = d)
              /\ ItemsAt(b.unacked, {d}) = {} <=> ItemsAt(c.unacked, {d}) = {} /\ poison.item \notin {d}
              /\ Alone(c.unacked, d) /\ (DatumAt(c.unacked, d) = {} \/ ~(Retx(poison) /\ poison.item = d))
                   => Alone(b.unacked, d)
          BY <3>3 DEF Joins
        <5> QED
          BY <1>12, <4>1, <5>1
    <3>11. SameData(c, b)
      BY <3>10 DEF SameData
    <3>12. Cardinality(RealOf(b)) = Cardinality(RealOf(c)) /\ Cardinality(RetxOf(b)) = Cardinality(RetxOf(c))
      BY <3>1, <3>2
    <3>13. b.unacked \in Seq(Packet) /\ (RetxOf(c) = {} => RetxOf(b) = {})
      BY <3>1
    <3>14. \A i \in DOMAIN b.unacked : b.unacked[i].kind = "poison" => b.unacked[i].no = c.gap
      BY <3>7
    <3> QED
      BY <3>6, <3>8, <3>9, <3>11, <3>12, <3>13, <3>14, Zenon
  <2> QED
    BY <1>13, <2>1, <2>2
<1> HIDE DEF Out
<1>16. Typed(b)
  <2>1. c.cur_packno \in Int /\ c.released \in [Data -> Nat]
    BY <1>1 DEF Queued, Typed
  <2>2. b.unacked \in Seq(Packet)
    BY <1>15 DEF Out
  <2> QED
    BY <1>1, <1>3, <1>4, <1>8, <1>9, <1>10, <2>1, <2>2 DEF Typed
<1>17. Counted(b)
  <2>1. Cardinality(RealOf(b)) = Cardinality(RealOf(c)) /\ Cardinality(RetxOf(b)) = Cardinality(RetxOf(c))
    BY <1>15 DEF Out
  <2>2. Counted(c)
    BY <1>1 DEF Queued
  <2> QED
    BY <1>10, <2>1, <2>2 DEF Counted
<1>18. Sorted(b)
  <2>1. ToSend(c.batch) /\ ToSend(c.sched)
        /\ \A i \in DOMAIN c.lost : Retx(c.lost[i]) /\ c.lost[i].item \in Data
    BY <1>1 DEF Queued, Sorted
  <2>2. ToSend(b.batch)
    <3>1. \A i \in DOMAIN b.batch : Len(<<p>>) + i \in DOMAIN c.batch /\ c.batch[Len(<<p>>) + i] = b.batch[i]
      BY <1>3 DEF Joined
    <3> QED
      BY <2>1, <3>1 DEF ToSend
  <2>3. \A i \in DOMAIN b.unacked : b.unacked[i].kind \in {"data", "rec"} <=> b.unacked[i].item \in Data
    BY <1>15 DEF Out
  <2> QED
    <3>1. ToSend(b.sched) /\ ToSend(b.batch)
      BY <1>10, <2>1, <2>2
    <3>2. \A i \in DOMAIN b.lost : Retx(b.lost[i]) /\ b.lost[i].item \in Data
      BY <1>10, <2>1
    <3> QED
      BY <2>3, <3>1, <3>2 DEF Sorted
<1>19. InOrder(b)
  <2>1. /\ \A i \in DOMAIN b.unacked : b.unacked[i].no \in Nat /\ b.unacked[i].no < p.no
        /\ \A i \in DOMAIN b.unacked : b.unacked[i].kind = "poison" => b.unacked[i].no = c.gap
        /\ Rising(b.unacked)
    BY <1>15 DEF Out
  <2>2. \A i \in DOMAIN b.unacked : b.unacked[i].no <= b.senhist
    <3>1. \A x \in Nat, y \in Nat : x < y => x <= y
      OBVIOUS
    <3>2. p.no \in Nat /\ b.senhist = p.no
      BY <1>8, <1>9
    <3> QED
      BY <2>1, <3>1, <3>2, Zenon
  <2>3. b.senhist # b.gap
    BY <1>8, <1>9, <1>10
  <2> QED
    BY <1>10, <2>1, <2>2, <2>3 DEF InOrder, Rising
<1>20. Numbered(b)
  <2>1. b.senhist = Nth(c, 1)
    BY <1>7, <1>9
  <2> QED
    BY <1>1, <1>3, <1>10, <2>1, TailNumbers
<1>21. /\ \A i \in DOMAIN b.unacked : b.unacked[i].no < p.no
       /\ RetxOf(c) = {} => RetxOf(b) = {}
       /\ SameData(c, b)
  BY <1>15 DEF Out
<1>22. Queued(b)
  BY <1>16, <1>17, <1>18, <1>19 DEF Queued
<1> QED
  BY <1>3, <1>8, <1>9, <1>10, <1>20, <1>21, <1>22 DEF Left

\* The same of the operators the steps are made of.
LEMMA PacketLeft ==
  ASSUME NEW c, Good(c), c.batch # <<>>, NEW p, p = Head(c.batch),
         NEW a, a = [c EXCEPT !.batch = Tail(@)],
         NEW b, b = add_senhist(update_poison_hist(a, p.no), p.no)
  PROVE  Left(c, b, p) /\ p \in Packet
<1>1. Taken(c, b, p)
  BY BatchTaken
<1>2. p \in Packet
  BY <1>1 DEF Taken
<1> QED
  BY <1>1, <1>2, TakenLeft

\* Where the data are when the first packet of the batch, p, is gone from it.
Shrinks(c, b, p) ==
  /\ p.kind \in {"data", "ack", "probe"} /\ (Retx(p) <=> p.item \in Data)
  /\ \A d : DatumAt(c.batch, d) = {} <=> DatumAt(b.batch, d) = {} /\ ~(Retx(p) /\ p.item = d)
  /\ \A d : Alone(c.batch, d) => /\ Alone(b.batch, d)
                                 /\ Retx(p) /\ p.item = d => DatumAt(b.batch, d) = {}
  /\ \A i \in DOMAIN b.batch : \E j \in DOMAIN c.batch : b.batch[i] = c.batch[j]

\* What is left of the batch, and the packet, are what the batch was.
LEMMA BatchShrinks ==
  ASSUME NEW c, Queued(c), NEW b, NEW p \in Packet, Left(c, b, p), p = Head(c.batch), c.batch # <<>>
  PROVE  Shrinks(c, b, p)
<1>1. c.batch \in Seq(Packet) /\ ToSend(c.batch)
  BY DEF Queued, Typed, Sorted
<1>2. Joined(<<p>>, b.batch, c.batch) /\ p = c.batch[1] /\ 1 \in DOMAIN c.batch
  <2>1. b.batch = Tail(c.batch)
    BY DEF Left
  <2> QED
    BY <1>1, <2>1, Ends
<1>3. p.kind \in {"data", "ack", "probe"} /\ (Retx(p) <=> p.item \in Data)
  BY <1>1, <1>2 DEF ToSend
<1>4. \A d : DatumAt(<<p>>, d) = {} <=> ~(Retx(p) /\ p.item = d)
  BY OneOf
<1>5. \A d : DatumAt(c.batch, d) = {} <=> DatumAt(<<p>>, d) = {} /\ DatumAt(b.batch, d) = {}
  BY <1>2 DEF Joined
<1>6. \A d : Alone(c.batch, d) => /\ Alone(b.batch, d)
                                  /\ DatumAt(<<p>>, d) = {} \/ DatumAt(b.batch, d) = {}
  BY <1>2 DEF Joined
<1>7. \A i \in DOMAIN b.batch : \E j \in DOMAIN c.batch : b.batch[i] = c.batch[j]
  BY <1>2 DEF Joined
<1> QED
  BY <1>3, <1>4, <1>5, <1>6, <1>7 DEF Shrinks

\* A probe that leaves the batch carries no datum.
LEMMA ProbeLeft ==
  ASSUME NEW c, Good(c), NEW p, p.kind = "probe", NEW b, Left(c, b, p), Shrinks(c, b, p)
  PROVE  Good(b) /\ Moves(c, b)
<1>3. ~Retx(p)
  BY DEF Retx
<1>4. /\ \A d : DatumAt(c.batch, d) = {} <=> DatumAt(b.batch, d) = {}
      /\ \A d : Alone(c.batch, d) => Alone(b.batch, d)
      /\ \A i \in DOMAIN b.batch : \E j \in DOMAIN c.batch : b.batch[i] = c.batch[j]
  BY <1>3 DEF Shrinks
<1>5. b.sched = c.sched /\ b.lost = c.lost /\ b.released = c.released /\ b.gap = c.gap
      /\ SameData(c, b) /\ Queued(b) /\ Numbered(b)
  BY DEF Left
<1>6. ASSUME NEW d \in Data
      PROVE  Kept(b, d) /\ (Places(b, d) = {} <=> Places(c, d) = {})
  <2>1. /\ DatumAt(b.unacked, d) = {} <=> DatumAt(c.unacked, d) = {}
        /\ ItemsAt(b.unacked, {d}) = {} <=> ItemsAt(c.unacked, {d}) = {}
        /\ Alone(c.unacked, d) => Alone(b.unacked, d)
    BY <1>5 DEF SameData
  <2>2. Absent(b, d) <=> Absent(c, d)
    BY <1>4, <1>5, <2>1 DEF Absent
  <2>3. Kept(c, d)
    BY DEF Good, Kept
  <2>4. Lonely(b, d)
    BY <1>4, <1>5, <2>1, <2>3, KeptIs DEF Lonely
  <2>5. ASSUME NEW i \in DatumAt(b.batch, d), b.batch[i].ack
        PROVE  ItemsAt(b.unacked, {d}) = {}
    <3>1. i \in DOMAIN b.batch /\ Retx(b.batch[i]) /\ b.batch[i].item = d
      BY DEF DatumAt
    <3>2. PICK j \in DOMAIN c.batch : b.batch[i] = c.batch[j]
      BY <1>4, <3>1
    <3>3. j \in DatumAt(c.batch, d) /\ c.batch[j].ack
      BY <2>5, <3>1, <3>2 DEF DatumAt
    <3> QED
      BY <2>1, <2>3, <3>3, KeptIs
  <2>6. Kept(b, d)
    <3>1. /\ c.released[d] = 0 \/ (c.released[d] = 1 /\ Absent(c, d))
          /\ Absent(c, d) => ItemsAt(c.unacked, {d}) = {}
          /\ \A i \in DatumAt(c.sched, d) : c.sched[i].ack => ItemsAt(c.unacked, {d}) = {}
      BY <2>3, KeptIs
    <3>2. /\ b.released[d] = 0 \/ (b.released[d] = 1 /\ Absent(b, d))
          /\ Absent(b, d) => ItemsAt(b.unacked, {d}) = {}
      BY <1>5, <2>1, <2>2, <3>1
    <3>3. \A i \in DatumAt(b.sched, d) : b.sched[i].ack => ItemsAt(b.unacked, {d}) = {}
      BY <1>5, <2>1, <3>1
    <3> QED
      BY <2>4, <2>5, <3>2, <3>3, KeptIs
  <2> QED
    BY <2>2, <2>6, OnceIs
<1> QED
  BY <1>5, <1>6 DEF Good, Queued, Moves, Kept

\* ci_packet_too_large: the probe that is dropped carries no datum.
LEMMA ProbeDropped ==
  ASSUME NEW c, Good(c), c.batch # <<>>, NEW p, p = Head(c.batch), p.kind = "probe",
         NEW a, a = [c EXCEPT !.batch = Tail(@)],
         NEW b, b = add_senhist(update_poison_hist(a, p.no), p.no)
  PROVE  Good(b) /\ Moves(c, b) /\ Left(c, b, p)
<1>1. Left(c, b, p) /\ p \in Packet
  BY PacketLeft
<1>2. Queued(c)
  BY DEF Good, Queued
<1>3. Shrinks(c, b, p)
  BY <1>1, <1>2, BatchShrinks
<1> QED
  BY <1>1, <1>3, ProbeLeft

\* The first packet of the batch is sent, and is in flight.
Sends(c, e, p) ==
  /\ Good(e) /\ Moves(c, e) /\ e.senhist = p.no /\ p.no \in Nat /\ p.no > c.senhist /\ p.no # c.gap
  /\ (RetxOf(c) # {} => c.retx_alarm) => (RetxOf(e) # {} => e.retx_alarm)

\* lsquic_send_ctl_sent_packet: the packet is counted in flight, in its order, and
\* the alarm is set when it can be retransmitted.
LEMMA PacketSent ==
  ASSUME NEW c, Good(c), c.batch # <<>>, NEW p, p = Head(c.batch),
         NEW e, e = sent_packet([c EXCEPT !.batch = Tail(@)], p)
  PROVE  Sends(c, e, p)
<1> DEFINE a == [c EXCEPT !.batch = Tail(@)]
           b == add_senhist(update_poison_hist(a, p.no), p.no)
           out == [p EXCEPT !.limited = FALSE]
           u == unacked_append(b, out)
<1>1. Left(c, b, p) /\ p \in Packet
  BY PacketLeft
<1>2. e = [u EXCEPT !.sent_since = TRUE, !.retx_alarm = @ \/ Retx(p)]
  BY DEF sent_packet
<1>3. out \in Packet /\ out.no = p.no /\ out.kind = p.kind /\ out.item = p.item
  BY <1>1 DEF Packet
<1> HIDE DEF a, b, out
<1>4. Queued(c) /\ Queued(b) /\ DOMAIN b = CtlFields /\ b.unacked \in Seq(Packet)
  BY <1>1 DEF Good, Left, Queued, Typed
<1>5. /\ u.unacked = Append(b.unacked, out) /\ u.n_in_flight_all = b.n_in_flight_all + 1
      /\ u.n_in_flight_retx = b.n_in_flight_retx + (IF Retx(out) THEN 1 ELSE 0)
      /\ Same(b, u, {"unacked", "n_in_flight_all", "n_in_flight_retx"})
  BY <1>4 DEF unacked_append, Same, CtlFields
<1> HIDE DEF u
<1>6. /\ e.unacked = u.unacked /\ e.n_in_flight_all = u.n_in_flight_all /\ e.n_in_flight_retx = u.n_in_flight_retx
      /\ e.retx_alarm = (u.retx_alarm \/ Retx(p)) /\ Same(u, e, {"sent_since", "retx_alarm"})
  <2>1. DOMAIN u = CtlFields
    BY <1>4, <1>5 DEF Same
  <2> QED
    BY <1>2, <2>1 DEF Same, CtlFields
<1>7. /\ e.sched = b.sched /\ e.batch = b.batch /\ e.lost = b.lost /\ e.n_scheduled = b.n_scheduled
      /\ e.cur_packno = b.cur_packno /\ e.senhist = b.senhist /\ e.gap = b.gap /\ e.released = b.released
      /\ DOMAIN e = CtlFields /\ u.retx_alarm = b.retx_alarm
  BY <1>4, <1>5, <1>6 DEF Same, CtlFields
<1>8. /\ Cardinality(RealOf(e)) = Cardinality(RealOf(b)) + (IF Real(out) THEN 1 ELSE 0)
      /\ Cardinality(RetxOf(e)) = Cardinality(RetxOf(b)) + (IF Retx(out) THEN 1 ELSE 0)
      /\ ~Retx(out) /\ RetxOf(b) = {} => RetxOf(e) = {}
      /\ e.unacked \in Seq(Packet)
  <2>1. e.unacked = Append(b.unacked, out)
    BY <1>5, <1>6
  <2> QED
    <3>1. Grows(b, e, out)
      BY <1>3, <1>4, <2>1, UnackedGrows
    <3> QED
      BY <3>1 DEF Grows
<1>9. Joins(b, e, out)
  BY <1>3, <1>4, <1>5, <1>6, UnackedJoined
<1>10. /\ p.kind \in {"data", "ack", "probe"} /\ (Retx(p) <=> p.item \in Data)
       /\ \A d : DatumAt(c.batch, d) = {} <=> DatumAt(b.batch, d) = {} /\ ~(Retx(p) /\ p.item = d)
       /\ \A d : Alone(c.batch, d) => /\ Alone(b.batch, d)
                                      /\ Retx(p) /\ p.item = d => DatumAt(b.batch, d) = {}
       /\ \A i \in DOMAIN b.batch : \E j \in DOMAIN c.batch : b.batch[i] = c.batch[j]
  <2>1. Shrinks(c, b, p)
    BY <1>1, <1>4, BatchShrinks
  <2> QED
    BY <2>1 DEF Shrinks
<1>11. Real(out) /\ (Retx(out) <=> Retx(p))
  BY <1>3, <1>10 DEF Real, Retx
<1>12. /\ b.sched = c.sched /\ b.lost = c.lost /\ b.released = c.released /\ b.gap = c.gap
       /\ b.retx_alarm = c.retx_alarm /\ b.senhist = p.no /\ p.no > c.senhist /\ p.no # c.gap /\ p.no \in Nat
       /\ Numbered(b)
  BY <1>1 DEF Left
<1>13. SameData(c, b) /\ (RetxOf(c) = {} => RetxOf(b) = {}) /\ \A i \in DOMAIN b.unacked : b.unacked[i].no < p.no
  BY <1>1 DEF Left
<1>14. Typed(e)
  <2>1. Typed(b)
    BY <1>4 DEF Queued
  <2> QED
    BY <1>7, <1>8, <2>1 DEF Typed
<1>15. Counted(e)
  <2>1. Counted(b)
    BY <1>4 DEF Queued
  <2> QED
    BY <1>5, <1>6, <1>7, <1>8, <1>11, <2>1 DEF Counted
<1>16. \A i \in DOMAIN e.unacked : (i \in DOMAIN b.unacked /\ e.unacked[i] = b.unacked[i]) \/ e.unacked[i] = out
  BY <1>9 DEF Joins
<1>17. Sorted(e)
  <2>1. Sorted(b)
    BY <1>4 DEF Queued
  <2>2. out.kind \in {"data", "rec"} <=> out.item \in Data
    BY <1>3, <1>10 DEF Retx
  <2>3. \A i \in DOMAIN e.unacked : e.unacked[i].kind \in {"data", "rec"} <=> e.unacked[i].item \in Data
    BY <1>16, <2>1, <2>2 DEF Sorted
  <2> QED
    BY <1>7, <2>1, <2>3 DEF Sorted
<1>18. InOrder(e)
  <2>1. InOrder(b)
    BY <1>4 DEF Queued
  <2>2. Rising(b.unacked) /\ \A i \in DOMAIN b.unacked : b.unacked[i].no < out.no
    BY <1>3, <1>13, <2>1 DEF InOrder, Rising
  <2>3. Rising(e.unacked)
    BY <1>9, <2>2 DEF Joins
  <2>4. ASSUME NEW i \in DOMAIN e.unacked
        PROVE  e.unacked[i].no <= e.senhist /\ (e.unacked[i].kind = "poison" => e.unacked[i].no = e.gap)
    <3>1. CASE i \in DOMAIN b.unacked /\ e.unacked[i] = b.unacked[i]
      BY <1>7, <2>1, <3>1 DEF InOrder
    <3>2. CASE e.unacked[i] = out
      BY <1>3, <1>7, <1>10, <1>12, <3>2
    <3> QED
      BY <1>16, <3>1, <3>2
  <2> QED
    BY <1>7, <2>1, <2>3, <2>4 DEF InOrder, Rising
<1>19. Numbered(e)
  BY <1>7, <1>12, AsideNumbers
<1>20. ASSUME NEW d \in Data
       PROVE  Kept(e, d) /\ (Places(e, d) = {} <=> Places(c, d) = {})
  <2>1. /\ DatumAt(b.unacked, d) = {} <=> DatumAt(c.unacked, d) = {}
        /\ ItemsAt(b.unacked, {d}) = {} <=> ItemsAt(c.unacked, {d}) = {}
        /\ Alone(c.unacked, d) => Alone(b.unacked, d)
    BY <1>13 DEF SameData
  <2> DEFINE mine == Retx(p) /\ p.item = d
  <2>2. mine <=> Retx(out) /\ out.item = d
    BY <1>3, <1>11
  <2>3. out.item \in {d} <=> mine
    BY <1>3, <1>10
  <2>4. /\ DatumAt(e.unacked, d) = {} <=> DatumAt(c.unacked, d) = {} /\ ~mine
        /\ ItemsAt(e.unacked, {d}) = {} <=> ItemsAt(c.unacked, {d}) = {} /\ ~mine
        /\ Alone(c.unacked, d) /\ (DatumAt(c.unacked, d) = {} \/ ~mine) => Alone(e.unacked, d)
    BY <1>9, <2>1, <2>2, <2>3 DEF Joins
  <2>5. /\ DatumAt(c.batch, d) = {} <=> DatumAt(e.batch, d) = {} /\ ~mine
        /\ Alone(c.batch, d) => Alone(e.batch, d) /\ (mine => DatumAt(e.batch, d) = {})
    BY <1>7, <1>10
  <2>6. e.sched = c.sched /\ e.lost = c.lost /\ e.released = c.released
    BY <1>7, <1>12
  <2> HIDE DEF mine
  <2>7. Absent(e, d) <=> Absent(c, d)
    BY <2>4, <2>5, <2>6 DEF Absent
  <2>8. Kept(c, d) /\ Lonely(c, d)
    BY KeptIs DEF Good, Kept
  <2>9. Lonely(e, d)
    BY <2>4, <2>5, <2>6, <2>8 DEF Lonely
  <2>10. ASSUME NEW i \in DatumAt(e.batch, d), e.batch[i].ack
         PROVE  ItemsAt(c.unacked, {d}) = {} /\ ~mine
    <3>1. i \in DOMAIN b.batch /\ Retx(b.batch[i]) /\ b.batch[i].item = d /\ b.batch[i].ack
      BY <1>7, <2>10 DEF DatumAt
    <3>2. PICK j \in DOMAIN c.batch : b.batch[i] = c.batch[j]
      BY <1>10, <3>1
    <3>3. j \in DatumAt(c.batch, d) /\ c.batch[j].ack
      BY <3>1, <3>2 DEF DatumAt
    <3>4. ~mine
      BY <2>5, <2>8, <2>10 DEF Lonely
    <3> QED
      BY <2>8, <3>3, <3>4, KeptIs
  <2>11. ASSUME NEW i \in DatumAt(e.sched, d), e.sched[i].ack
         PROVE  ItemsAt(c.unacked, {d}) = {} /\ ~mine
    <3>1. ~mine
      BY <2>5, <2>6, <2>8, <2>11 DEF Lonely
    <3>2. i \in DatumAt(c.sched, d) /\ c.sched[i].ack
      BY <2>6, <2>11
    <3> QED
      BY <2>8, <3>1, <3>2, KeptIs
  <2>12. Kept(e, d)
    <3>1. Absent(e, d) => ItemsAt(e.unacked, {d}) = {}
      <4>1. Absent(e, d) => ~mine
        BY <2>4 DEF Absent
      <4>2. Absent(c, d) => ItemsAt(c.unacked, {d}) = {}
        BY <2>8, KeptIs
      <4> QED
        BY <2>4, <2>7, <4>1, <4>2
    <3>2. e.released[d] = 0 \/ (e.released[d] = 1 /\ Absent(e, d))
      BY <2>6, <2>7, <2>8, KeptIs
    <3>3. /\ \A i \in DatumAt(e.sched, d) : e.sched[i].ack => ItemsAt(e.unacked, {d}) = {}
          /\ \A i \in DatumAt(e.batch, d) : e.batch[i].ack => ItemsAt(e.unacked, {d}) = {}
      BY <2>4, <2>10, <2>11
    <3> QED
      BY <2>9, <3>1, <3>2, <3>3, KeptIs
  <2> QED
    BY <2>7, <2>12, OnceIs
<1>21. Good(e)
  BY <1>14, <1>15, <1>17, <1>18, <1>19, <1>20 DEF Good, Kept
<1>22. Moves(c, e)
  BY <1>7, <1>12, <1>20 DEF Moves
<1>23. (RetxOf(c) # {} => c.retx_alarm) => (RetxOf(e) # {} => e.retx_alarm)
  BY <1>6, <1>7, <1>8, <1>11, <1>12, <1>13
<1> QED
  BY <1>7, <1>12, <1>21, <1>22, <1>23 DEF Sends

-------------------------------------------------------------------------------
(* The invariant, with what the wire and the streams know.                 *)

\* The parts of the invariant that are not about the controller alone.
Known(c, T, F, R) ==
  \A d \in Data :
    /\ c.released[d] = 1 => d \in T
    /\ d \in F => Places(c, d) = {} /\ c.released[d] = 0
    /\ (d \notin F \cup R /\ Places(c, d) = {}) => c.released[d] = 1
Wired(c, W) == \A n \in W : n \in Nat /\ n <= c.senhist /\ n # c.gap
Armed(c) == RetxOf(c) # {} => c.retx_alarm
InPhase(c, ph) ==
  /\ ph \in Phases \ {"dead"}
  /\ ph \in {"idle", "fill"} => c.batch = <<>>
  /\ ph = "fill" => Plain(c)
Sound(c, ph, W, T, F, R) == Good(c) /\ InPhase(c, ph) /\ Armed(c) /\ Wired(c, W) /\ Known(c, T, F, R)

\* The invariant as the parts of Sound, in a state and in the next.
LEMMA SoundIs ==
  /\ DeliveryInv <=> Sound(ctl, phase, wire, told, fresh, reset)
  /\ DeliveryInv' <=> Sound(ctl', phase', wire', told', fresh', reset')
<1>1. DeliveryInv <=> Sound(ctl, phase, wire, told, fresh, reset)
  BY DEF DeliveryInv, AlarmArmed, Sound, InPhase, Armed, Wired, Known, Plain
<1>2. DeliveryInv' <=> Sound(ctl', phase', wire', told', fresh', reset')
  BY DEF DeliveryInv, AlarmArmed, Sound, InPhase, Armed, Wired, Known, Plain
<1> QED
  BY <1>1, <1>2

\* What the streams and the peer know stays true when no datum comes or goes.
LEMMA StillKnown ==
  ASSUME NEW c, NEW e, NEW W, NEW T, NEW F, NEW R, Known(c, T, F, R), Wired(c, W),
         \A d \in Data : Places(e, d) = {} <=> Places(c, d) = {}, e.released = c.released,
         e.gap = c.gap, e.senhist = c.senhist
  PROVE  Known(e, T, F, R) /\ Wired(e, W)
  BY DEF Known, Wired

\* A send controller that only lost packets, or let them go aside.
LEMMA StillSound ==
  ASSUME NEW c, NEW e, NEW ph, NEW W, NEW T, NEW F, NEW R, Sound(c, ph, W, T, F, R),
         Good(e), Stays(c, e), e.gap = c.gap, RetxOf(e) # {} => e.retx_alarm,
         NEW to, to \in Phases \ {"dead"}, to \in {"idle", "fill"} => e.batch = <<>>, to = "fill" => Plain(e)
  PROVE  Sound(e, to, W, T, F, R)
<1>1. Known(e, T, F, R) /\ Wired(e, W)
  BY StillKnown DEF Sound, Stays
<1>2. InPhase(e, to) /\ Armed(e)
  BY DEF InPhase, Armed
<1> QED
  BY <1>1, <1>2 DEF Sound

-------------------------------------------------------------------------------
(* Between two ticks.                                                      *)

\* What an ACK may name was sent.
LEMMA AckNames ==
  ASSUME NEW S \in AckSets, NEW c, Good(c), Wired(c, wire)
  PROVE  /\ S \subseteq wire /\ MinOf(S) \in Nat /\ MinOf(S) <= c.senhist /\ AckAccepted(c, S)
<1>1. c.senhist \in Nat /\ \A i \in DOMAIN c.unacked : c.unacked[i].kind = "poison" => c.unacked[i].no = c.gap
  BY DEF Good, Typed, InOrder
<1>2. S \subseteq wire /\ S # {}
  BY DEF AckSets
<1>3. \A n \in S : n \in Nat /\ n <= c.senhist /\ n # c.gap
  BY <1>2 DEF Wired
<1>4. S \in SUBSET (0..c.senhist)
  <2>1. \A n \in S : n \in 0..c.senhist
    BY <1>1, <1>3
  <2> QED
    BY <2>1
<1>5. MinOf(S) \in S /\ MaxOf(S) \in S
  BY <1>1, <1>2, <1>4, Extremes
<1>6. \A i \in Named(c, S) : c.unacked[i].kind # "poison"
  <2>1. \A i \in Named(c, S) : i \in DOMAIN c.unacked /\ c.unacked[i].no \in S
    BY DEF Named, Upto
  <2> QED
    BY <1>1, <1>3, <2>1
<1> QED
  BY <1>2, <1>3, <1>5, <1>6 DEF AckAccepted

\* An ACK: what it names is told, and only that is released.
LEMMA GotAckSound ==
  ASSUME DeliveryInv, NEW S \in AckSets, NEW old, NEW rand \in Gaps, GotAck(S, old, rand)
  PROVE  DeliveryInv'
<1>1. Sound(ctl, phase, wire, told, fresh, reset)
  BY SoundIs
<1>2. Good(ctl) /\ InPhase(ctl, phase) /\ Armed(ctl) /\ Wired(ctl, wire) /\ Known(ctl, told, fresh, reset)
  BY <1>1 DEF Sound
<1>3. S \subseteq wire /\ MinOf(S) \in Nat /\ MinOf(S) <= ctl.senhist /\ AckAccepted(ctl, S)
  BY <1>2, AckNames
<1>4. phase = "idle" /\ phase' = phase /\ ctl' = got_ack(ctl, S, old, rand)
      /\ told' = told \cup ({p.item : p \in {p \in Range(ctl.unacked) : p.no \in S}} \ {Nothing})
      /\ wire' = wire /\ fresh' = fresh /\ reset' = reset
  BY <1>3 DEF GotAck
<1> DEFINE e == got_ack(ctl, S, old, rand)
           D == Acked(ctl, S)
<1>5. rand \in Nat
  BY SendAssumption
<1>6. /\ Good(e) /\ Leaves(ctl, e, D) /\ D \subseteq Data
      /\ e.gap = ctl.gap \/ e.gap > e.senhist
      /\ RetxOf(e) # {} => e.retx_alarm
  BY <1>2, <1>3, <1>4, <1>5, AckGot DEF Armed, InPhase
<1>7. D \subseteq told' /\ told \subseteq told'
  <2>1. ASSUME NEW d \in D
        PROVE  d \in told'
    <3>1. PICK i \in Named(ctl, S) : d = ctl.unacked[i].item
      BY DEF Acked
    <3>2. i \in DOMAIN ctl.unacked /\ ctl.unacked[i].no \in S /\ d # Nothing
      BY DEF Named, Upto, Acked
    <3>3. ctl.unacked[i] \in {p \in Range(ctl.unacked) : p.no \in S}
      BY <3>2 DEF Range
    <3> QED
      BY <1>4, <3>1, <3>2, <3>3
  <2> QED
    BY <1>4, <2>1
<1> HIDE DEF e, D
<1>8. Known(e, told', fresh, reset)
  <2>1. ASSUME NEW d \in Data
        PROVE  /\ e.released[d] = 1 => d \in told'
               /\ d \in fresh => Places(e, d) = {} /\ e.released[d] = 0
               /\ (d \notin fresh \cup reset /\ Places(e, d) = {}) => e.released[d] = 1
    <3>1. /\ Places(e, d) = {} <=> Places(ctl, d) = {} \/ d \in D
          /\ d \notin D => e.released[d] = ctl.released[d]
          /\ d \in D => e.released[d] = IF Places(ctl, d) = {} THEN ctl.released[d] ELSE 1
      BY <1>6 DEF Leaves
    <3>2. /\ ctl.released[d] = 1 => d \in told
          /\ d \in fresh => Places(ctl, d) = {} /\ ctl.released[d] = 0
          /\ (d \notin fresh \cup reset /\ Places(ctl, d) = {}) => ctl.released[d] = 1
      BY <1>2 DEF Known
    <3> QED
      BY <1>7, <3>1, <3>2
  <2> QED
    BY <2>1 DEF Known
<1>9. Wired(e, wire)
  <2>1. e.senhist = ctl.senhist /\ e.senhist \in Nat /\ e.gap \in Nat
    BY <1>6 DEF Leaves, Good, Typed
  <2>2. ASSUME NEW n \in wire
        PROVE  n \in Nat /\ n <= e.senhist /\ n # e.gap
    <3>1. n \in Nat /\ n <= ctl.senhist /\ n # ctl.gap
      BY <1>2 DEF Wired
    <3> QED
      BY <1>6, <2>1, <3>1
  <2> QED
    BY <2>2 DEF Wired
<1>10. InPhase(e, "idle") /\ Armed(e)
  BY <1>2, <1>4, <1>6 DEF InPhase, Phases, Armed, Leaves
<1>11. Sound(e, "idle", wire, told', fresh, reset)
  BY <1>6, <1>8, <1>9, <1>10 DEF Sound
<1> QED
  BY <1>4, <1>11, SoundIs DEF e

\* The peer resets a stream: its datum is given up.
LEMMA StreamResetSound ==
  ASSUME DeliveryInv, NEW d \in Data, StreamReset(d)
  PROVE  DeliveryInv'
<1>1. Sound(ctl, phase, wire, told, fresh, reset)
  BY SoundIs
<1>2. Good(ctl) /\ InPhase(ctl, phase) /\ Armed(ctl) /\ Wired(ctl, wire) /\ Known(ctl, told, fresh, reset)
  BY <1>1 DEF Sound
<1>3. phase = "idle" /\ phase' = phase /\ reset' = reset \cup {d} /\ fresh' = fresh \ {d} /\ ctl' = elide(ctl, d)
      /\ wire' = wire /\ told' = told
  BY DEF StreamReset
<1> DEFINE e == elide(ctl, d)
<1>4. ctl.batch = <<>>
  BY <1>2, <1>3 DEF InPhase
<1>5. /\ Good(e)
      /\ \A x \in Data : x # d => (Places(e, x) = {} <=> Places(ctl, x) = {})
      /\ Places(ctl, d) = {} => Places(e, d) = {}
      /\ e.released = ctl.released /\ e.batch = <<>> /\ e.senhist = ctl.senhist /\ e.gap = ctl.gap
      /\ RetxOf(ctl) = {} => RetxOf(e) = {}
      /\ e.retx_alarm = ctl.retx_alarm
  BY <1>2, <1>4, Elided
<1> HIDE DEF e
<1>6. Known(e, told, fresh \ {d}, reset \cup {d})
  <2>1. ASSUME NEW x \in Data
        PROVE  /\ e.released[x] = 1 => x \in told
               /\ x \in fresh \ {d} => Places(e, x) = {} /\ e.released[x] = 0
               /\ (x \notin (fresh \ {d}) \cup (reset \cup {d}) /\ Places(e, x) = {}) => e.released[x] = 1
    BY <1>2, <1>5 DEF Known
  <2> QED
    BY <2>1 DEF Known
<1>7. Wired(e, wire) /\ InPhase(e, "idle") /\ Armed(e)
  BY <1>2, <1>5 DEF Wired, InPhase, Phases, Armed
<1>8. Sound(e, "idle", wire, told, fresh \ {d}, reset \cup {d})
  BY <1>5, <1>6, <1>7 DEF Sound
<1> QED
  BY <1>3, <1>8, SoundIs DEF e

\* The engine sends what is scheduled without a tick, and the tick ends.
LEMMA PhaseSound ==
  ASSUME DeliveryInv, SendUnsent \/ TickEnds
  PROVE  DeliveryInv'
<1>1. Sound(ctl, phase, wire, told, fresh, reset)
  BY SoundIs
<1>2. phase' = "take" /\ ctl' = ctl /\ wire' = wire /\ told' = told /\ fresh' = fresh /\ reset' = reset
  BY DEF SendUnsent, TickEnds
<1>3. Sound(ctl, "take", wire, told, fresh, reset)
  BY <1>1 DEF Sound, InPhase, Phases
<1> QED
  BY <1>2, <1>3, SoundIs

-------------------------------------------------------------------------------
(* The tick.                                                               *)

\* The squeezing and the ACK, after the alarms.
LEMMA TickSound ==
  ASSUME NEW c, Sound(c, "idle", wire, told, fresh, reset), NEW ack, TickAfterAlarms(c, ack)
  PROVE  DeliveryInv'
<1> DEFINE s == squeeze_sched(c)
           a == IF ack THEN schedule_ack(s) ELSE s
           to == IF s.sched = <<>> THEN "fill" ELSE "take"
<1>1. ctl' = a /\ phase' = to /\ wire' = wire /\ told' = told /\ fresh' = fresh /\ reset' = reset
  BY DEF TickAfterAlarms
<1>2. Good(c) /\ c.batch = <<>> /\ Armed(c)
  BY DEF Sound, InPhase
<1>3. Good(s) /\ Stays(c, s) /\ s.gap = c.gap /\ s.retx_alarm = c.retx_alarm
  BY <1>2, SchedSqueezed
<1>4. s.batch = <<>>
  BY <1>2, <1>3 DEF Stays
<1>5. /\ Good(schedule_ack(s)) /\ Stays(s, schedule_ack(s))
      /\ schedule_ack(s).gap = s.gap /\ schedule_ack(s).retx_alarm = s.retx_alarm
      /\ s.sched = <<>> => Plain(schedule_ack(s))
  BY <1>3, <1>4, AckScheduled DEF Plain
<1> HIDE DEF s
<1>6. /\ Good(a) /\ Stays(s, a) /\ a.gap = s.gap /\ a.retx_alarm = s.retx_alarm
      /\ s.sched = <<>> => Plain(a)
  <2>1. CASE ack
    BY <1>5, <2>1
  <2>2. CASE ~ack
    <3>1. Stays(s, s) /\ (s.sched = <<>> => Plain(s))
      BY DEF Stays, Plain
    <3> QED
      BY <1>3, <2>2, <3>1
  <2> QED
    BY <2>1, <2>2
<1> HIDE DEF a
<1>7. Stays(c, a)
  BY <1>3, <1>6 DEF Stays
<1>8. RetxOf(a) # {} => a.retx_alarm
  BY <1>2, <1>3, <1>6, <1>7 DEF Armed, Stays
<1>9. to \in Phases \ {"dead"} /\ a.batch = <<>> /\ (to = "fill" => Plain(a))
  BY <1>4, <1>6 DEF Phases, Stays
<1> HIDE DEF to
<1>10. Sound(a, to, wire, told, fresh, reset)
  BY <1>3, <1>6, <1>7, <1>8, <1>9, StillSound
<1> QED
  BY <1>1, <1>10, SoundIs

\* The alarm that rings is set again for what is still in flight.
LEMMA RungSound ==
  ASSUME NEW c, NEW W, NEW T, NEW F, NEW R, Sound(c, "idle", W, T, F, R), NEW old, NEW long,
         NEW e, e = retx_alarm_rings(c, old, long)
  PROVE  Sound(e, "idle", W, T, F, R)
<1>1. Good(c) /\ c.batch = <<>>
  BY DEF Sound, InPhase
<1>2. Loses(c, e) /\ (RetxOf(e) # {} => e.retx_alarm)
  BY <1>1, AlarmRings
<1>3. Good(e) /\ Stays(c, e) /\ e.gap = c.gap /\ e.batch = <<>>
  BY <1>1, <1>2 DEF Loses, Stays
<1>4. "idle" \in Phases \ {"dead"} /\ "idle" # "fill"
  BY DEF Phases
<1> QED
  BY <1>2, <1>3, <1>4, StillSound

\* A tick that begins, whether the alarm rings in it or not.
LEMMA AlarmTickSound ==
  ASSUME DeliveryInv, NEW ack, NEW old, NEW long, Tick(ack) \/ TickAndRing(ack, old, long) \/ TickPaced(old, long)
  PROVE  DeliveryInv'
<1>1. Sound(ctl, phase, wire, told, fresh, reset)
  BY SoundIs
<1>2. CASE Tick(ack)
  <2>1. Sound(ctl, "idle", wire, told, fresh, reset) /\ TickAfterAlarms(ctl, ack)
    BY <1>1, <1>2 DEF Tick
  <2> QED
    BY <2>1, TickSound
<1> DEFINE r == retx_alarm_rings(ctl, old, long)
<1>3. CASE TickAndRing(ack, old, long)
  <2>1. Sound(ctl, "idle", wire, told, fresh, reset) /\ TickAfterAlarms(r, ack)
    BY <1>1, <1>3 DEF TickAndRing
  <2>2. Sound(r, "idle", wire, told, fresh, reset)
    BY <2>1, RungSound
  <2> HIDE DEF r
  <2> QED
    BY <2>1, <2>2, TickSound
<1>4. CASE TickPaced(old, long)
  <2>1. Sound(ctl, "idle", wire, told, fresh, reset)
    BY <1>1, <1>4 DEF TickPaced
  <2>2. ctl' = r /\ phase' = "take" /\ wire' = wire /\ told' = told /\ fresh' = fresh /\ reset' = reset
    BY <1>4 DEF TickPaced
  <2>3. Sound(r, "idle", wire, told, fresh, reset)
    BY <2>1, RungSound
  <2> HIDE DEF r
  <2>4. Sound(r, "take", wire, told, fresh, reset)
    BY <2>3 DEF Sound, InPhase, Phases
  <2> QED
    BY <2>2, <2>4, SoundIs
<1> QED
  BY <1>2, <1>3, <1>4

\* A datum that enters the controller, from its stream, or none.
LEMMA EntersSound ==
  ASSUME NEW c, Sound(c, "fill", wire, told, fresh, reset), NEW d, NEW e, Good(e), Enters(c, e, d), Plain(e),
         NEW F, F = fresh \ {d}
  PROVE  Sound(e, "fill", wire, told, F, reset)
<1>1. InPhase(c, "fill") /\ Armed(c) /\ Wired(c, wire) /\ Known(c, told, fresh, reset)
  BY DEF Sound
<1>2. /\ \A x \in Data : Places(e, x) = {} <=> Places(c, x) = {} /\ x # d
      /\ e.released = c.released /\ e.batch = c.batch /\ e.senhist = c.senhist /\ e.gap = c.gap
      /\ RetxOf(e) = RetxOf(c) /\ e.retx_alarm = c.retx_alarm
  BY DEF Enters
<1>3. Known(e, told, F, reset)
  <2>1. ASSUME NEW x \in Data
        PROVE  /\ e.released[x] = 1 => x \in told
               /\ x \in F => Places(e, x) = {} /\ e.released[x] = 0
               /\ (x \notin F \cup reset /\ Places(e, x) = {}) => e.released[x] = 1
    BY <1>1, <1>2 DEF Known
  <2> QED
    BY <2>1 DEF Known
<1>4. InPhase(e, "fill") /\ Armed(e) /\ Wired(e, wire)
  BY <1>1, <1>2 DEF InPhase, Armed, Wired
<1> QED
  BY <1>3, <1>4 DEF Sound

\* What is known when the streams write.
LEMMA FillIs ==
  ASSUME DeliveryInv, phase = "fill"
  PROVE  /\ Sound(ctl, "fill", wire, told, fresh, reset) /\ Good(ctl) /\ ctl.batch = <<>> /\ Plain(ctl)
         /\ \A d \in fresh \cap Data : Places(ctl, d) = {} /\ ctl.released[d] = 0
<1>1. Sound(ctl, "fill", wire, told, fresh, reset)
  BY SoundIs
<1> QED
  BY <1>1 DEF Sound, InPhase, Known

\* An MTU probe.
LEMMA ScheduleProbeSound ==
  ASSUME DeliveryInv, ScheduleProbe
  PROVE  DeliveryInv'
<1>1. phase = "fill" /\ ctl' = schedule_new(ctl, "probe", Nothing)
      /\ phase' = phase /\ wire' = wire /\ told' = told /\ fresh' = fresh /\ reset' = reset
  BY DEF ScheduleProbe
<1>2. Sound(ctl, "fill", wire, told, fresh, reset) /\ Good(ctl) /\ ctl.batch = <<>> /\ Plain(ctl)
  BY <1>1, FillIs
<1> DEFINE e == schedule_new(ctl, "probe", Nothing)
<1>3. Good(e) /\ Enters(ctl, e, Nothing) /\ Plain(e)
  BY <1>2, NewScheduled
<1> HIDE DEF e
<1>4. Good(e) /\ Enters(ctl, e, Nothing) /\ Plain(e)
  BY <1>3
<1>5. Sound(e, "fill", wire, told, fresh \ {Nothing}, reset)
  BY <1>2, <1>4, EntersSound
<1>6. Known(e, told, fresh, reset)
  <2>1. Known(e, told, fresh \ {Nothing}, reset) /\ Nothing \notin Data
    BY <1>5, SendAssumption DEF Sound
  <2> QED
    BY <2>1 DEF Known
<1>7. Sound(e, "fill", wire, told, fresh, reset)
  BY <1>5, <1>6 DEF Sound
<1> QED
  BY <1>1, <1>7, SoundIs DEF e

\* A lost packet is sent again, or dropped when its stream was reset.
LEMMA RescheduleSound ==
  ASSUME DeliveryInv, Reschedule
  PROVE  DeliveryInv'
<1>1. phase = "fill" /\ ctl.lost # <<>>
      /\ phase' = phase /\ wire' = wire /\ told' = told /\ fresh' = fresh /\ reset' = reset
  BY DEF Reschedule
<1>2. Sound(ctl, "fill", wire, told, fresh, reset) /\ Good(ctl) /\ ctl.batch = <<>> /\ Plain(ctl)
  BY <1>1, FillIs
<1>3. Nothing \notin Data
  BY SendAssumption
<1>4. CASE Head(ctl.lost).item \in reset /\ ctl' = drop_lost(ctl)
  <2> DEFINE e == drop_lost(ctl)
             x == Head(ctl.lost).item
  <2>1. /\ Good(e) /\ Plain(e) /\ x \in Data
        /\ \A d \in Data : Places(e, d) = {} <=> Places(ctl, d) = {} \/ d = x
        /\ \A d \in Data : e.released[d] = ctl.released[d]
        /\ RetxOf(ctl) = {} => RetxOf(e) = {}
        /\ e.batch = <<>> /\ e.senhist = ctl.senhist /\ e.gap = ctl.gap /\ e.retx_alarm = ctl.retx_alarm
    BY <1>1, <1>2, LostDropped
  <2>2. x \in reset
    BY <1>4
  <2> HIDE DEF e, x
  <2>3. Armed(ctl) /\ Wired(ctl, wire) /\ Known(ctl, told, fresh, reset)
    BY <1>2 DEF Sound
  <2>4. Known(e, told, fresh, reset)
    <3>1. ASSUME NEW d \in Data
          PROVE  /\ e.released[d] = 1 => d \in told
                 /\ d \in fresh => Places(e, d) = {} /\ e.released[d] = 0
                 /\ (d \notin fresh \cup reset /\ Places(e, d) = {}) => e.released[d] = 1
      BY <2>1, <2>2, <2>3 DEF Known
    <3> QED
      BY <3>1 DEF Known
  <2>5. Wired(e, wire) /\ InPhase(e, "fill") /\ Armed(e)
    BY <2>1, <2>3 DEF Wired, InPhase, Phases, Armed
  <2>6. Sound(e, "fill", wire, told, fresh, reset)
    BY <2>1, <2>4, <2>5 DEF Sound
  <2> QED
    BY <1>1, <1>4, <2>6, SoundIs DEF e
<1>5. CASE ctl' = reschedule(ctl)
  <2> DEFINE e == reschedule(ctl)
  <2>1. Good(e) /\ Enters(ctl, e, Nothing) /\ Plain(e)
    BY <1>1, <1>2, LostRescheduled
  <2> HIDE DEF e
  <2>2. Good(e) /\ Enters(ctl, e, Nothing) /\ Plain(e)
    BY <2>1
  <2>3. Sound(e, "fill", wire, told, fresh \ {Nothing}, reset)
    BY <1>2, <2>2, EntersSound
  <2>4. Known(e, told, fresh, reset)
    <3>1. Known(e, told, fresh \ {Nothing}, reset)
      BY <2>3 DEF Sound
    <3> QED
      BY <1>3, <3>1 DEF Known
  <2>5. Sound(e, "fill", wire, told, fresh, reset)
    BY <2>3, <2>4 DEF Sound
  <2> QED
    BY <1>1, <1>5, <2>5, SoundIs DEF e
<1> QED
  BY <1>4, <1>5 DEF Reschedule

\* A stream writes, into the last packet or a new one.
LEMMA WriteSound ==
  ASSUME DeliveryInv, NEW d \in Data, Write(d)
  PROVE  DeliveryInv'
<1> DEFINE into == [ctl EXCEPT !.sched[Len(ctl.sched)] = [@ EXCEPT !.kind = "data", !.item = d]]
           anew == schedule_new(ctl, "data", d)
<1>1. phase = "fill" /\ d \in fresh /\ fresh' = fresh \ {d}
      /\ phase' = phase /\ wire' = wire /\ told' = told /\ reset' = reset
  BY DEF Write
<1>2. /\ Sound(ctl, "fill", wire, told, fresh, reset) /\ Good(ctl) /\ ctl.batch = <<>> /\ Plain(ctl)
      /\ Places(ctl, d) = {} /\ ctl.released[d] = 0
  BY <1>1, FillIs
<1>3. \/ ctl.sched # <<>> /\ ctl.sched[Len(ctl.sched)].kind = "ack" /\ ctl' = into
      \/ ctl' = anew
  BY DEF Write
<1>4. ASSUME ctl.sched # <<>>, ctl.sched[Len(ctl.sched)].kind = "ack", NEW e, e = into
      PROVE  Good(e) /\ Enters(ctl, e, d) /\ Plain(e)
  BY <1>2, <1>4, WrittenInto
<1>5. ASSUME NEW e, e = anew
      PROVE  Good(e) /\ Enters(ctl, e, d) /\ Plain(e)
  <2>1. \/ "data" = "probe" /\ d = Nothing
        \/ "data" = "data" /\ d \in Data /\ Places(ctl, d) = {} /\ ctl.released[d] = 0
    BY <1>2
  <2> QED
    BY <1>2, <1>5, <2>1, NewScheduled
<1> HIDE DEF into, anew
<1>6. PICK e : e = ctl' /\ Good(e) /\ Enters(ctl, e, d) /\ Plain(e)
  BY <1>3, <1>4, <1>5
<1>7. Sound(e, "fill", wire, told, fresh \ {d}, reset)
  BY <1>2, <1>6, EntersSound
<1> QED
  BY <1>1, <1>6, <1>7, SoundIs

-------------------------------------------------------------------------------
(* The engine sends.                                                       *)

\* A packet that moves from one queue to the next takes its datum with it.
LEMMA MovesSound ==
  ASSUME NEW c, NEW e, NEW ph, Sound(c, ph, wire, told, fresh, reset), Good(e), Moves(c, e),
         NEW W, Wired(e, W), RetxOf(e) # {} => e.retx_alarm,
         NEW to, to \in Phases \ {"dead"}, to # "fill", to = "idle" => e.batch = <<>>
  PROVE  Sound(e, to, W, told, fresh, reset)
<1>1. Known(c, told, fresh, reset)
  BY DEF Sound
<1>2. (\A d \in Data : Places(e, d) = {} <=> Places(c, d) = {}) /\ e.released = c.released
  BY DEF Moves
<1>3. Known(e, told, fresh, reset)
  BY <1>1, <1>2 DEF Known
<1>4. InPhase(e, to) /\ Armed(e)
  BY DEF InPhase, Armed
<1> QED
  BY <1>3, <1>4 DEF Sound

\* A packet goes into the batch, after the stale ones before it are dropped.
LEMMA TakeSound ==
  ASSUME DeliveryInv, NEW calm, Take(calm)
  PROVE  DeliveryInv'
<1> DEFINE s == DropStale(ctl)
           c == CalmDown(s, calm)
           e == take_packet(c)
<1>1. phase = "take" /\ phase' = phase /\ ctl' = e /\ c.sched # <<>>
      /\ wire' = wire /\ told' = told /\ fresh' = fresh /\ reset' = reset
  BY DEF Take
<1>2. Sound(ctl, phase, wire, told, fresh, reset)
  BY SoundIs
<1>3. Good(ctl) /\ Armed(ctl) /\ Wired(ctl, wire)
  BY <1>2 DEF Sound
<1>4. Good(s) /\ Stays(ctl, s) /\ Moves(ctl, s) /\ s.retx_alarm = ctl.retx_alarm
  BY <1>3, StaleDropped
<1> HIDE DEF s
<1>5. Same(s, c, Aside) /\ c.gap = s.gap /\ c.retx_alarm = s.retx_alarm
  <2>1. DOMAIN s = CtlFields
    BY <1>4 DEF Good, Typed
  <2>2. CASE calm
    <3>1. c = [s EXCEPT !.n_consec_rtos = 0]
      BY <2>2 DEF CalmDown
    <3> QED
      BY <2>1, <3>1 DEF Same, Aside, CtlFields
  <2>3. CASE ~calm
    <3>1. c = s
      BY <2>3 DEF CalmDown
    <3> HIDE DEF c
    <3> QED
      BY <3>1 DEF Same
  <2> QED
    BY <2>2, <2>3
<1> HIDE DEF c
<1>6. Good(c) /\ Stays(s, c)
  BY <1>4, <1>5, AsideGood
<1>7. /\ Good(e) /\ Moves(c, e) /\ e.unacked = c.unacked /\ e.senhist = c.senhist
      /\ e.retx_alarm = c.retx_alarm /\ RetxOf(e) = RetxOf(c)
  BY <1>1, <1>6, PacketTaken
<1> HIDE DEF e
<1>8. e.senhist = ctl.senhist /\ e.gap = ctl.gap /\ e.retx_alarm = ctl.retx_alarm
      /\ (RetxOf(ctl) = {} => RetxOf(e) = {})
  BY <1>4, <1>5, <1>6, <1>7 DEF Stays, Moves
<1>9. Moves(ctl, e)
  BY <1>4, <1>5, <1>6, <1>7 DEF Stays, Moves
<1>10. Wired(e, wire) /\ (RetxOf(e) # {} => e.retx_alarm)
  BY <1>3, <1>8 DEF Wired, Armed
<1>11. "take" \in Phases \ {"dead"} /\ "take" # "fill" /\ "take" # "idle"
  BY DEF Phases
<1>12. Sound(e, "take", wire, told, fresh, reset)
  BY <1>2, <1>7, <1>9, <1>10, <1>11, MovesSound
<1> QED
  BY <1>1, <1>12, SoundIs

\* The batch is full, or there is nothing to add to it.
LEMMA BatchedSound ==
  ASSUME DeliveryInv, Batched
  PROVE  DeliveryInv'
<1> DEFINE s == DropStale(ctl)
           to == IF ctl.batch = <<>> THEN "idle" ELSE "send"
<1>1. phase' = to /\ (ctl' = s \/ ctl' = ctl)
      /\ wire' = wire /\ told' = told /\ fresh' = fresh /\ reset' = reset
  BY DEF Batched
<1>2. Sound(ctl, phase, wire, told, fresh, reset)
  BY SoundIs
<1>3. Good(ctl) /\ Armed(ctl)
  BY <1>2 DEF Sound
<1>4. Good(s) /\ Stays(ctl, s) /\ Moves(ctl, s) /\ s.retx_alarm = ctl.retx_alarm
  BY <1>3, StaleDropped
<1> HIDE DEF s
<1>5. PICK e : e = ctl' /\ Good(e) /\ Stays(ctl, e) /\ e.gap = ctl.gap /\ e.retx_alarm = ctl.retx_alarm
  <2>1. Stays(ctl, ctl)
    BY DEF Stays
  <2>2. s.gap = ctl.gap
    BY <1>4 DEF Moves
  <2> QED
    BY <1>1, <1>3, <1>4, <2>1, <2>2
<1>6. to \in Phases \ {"dead"} /\ to # "fill" /\ (to \in {"idle", "fill"} => e.batch = <<>>)
  BY <1>5 DEF Phases, Stays
<1>7. RetxOf(e) # {} => e.retx_alarm
  BY <1>3, <1>5 DEF Armed, Stays
<1> HIDE DEF to
<1>8. Sound(e, to, wire, told, fresh, reset)
  BY <1>2, <1>5, <1>6, <1>7, StillSound
<1> QED
  BY <1>1, <1>5, <1>8, SoundIs

\* The first packet of the batch leaves the host: its number is the next.
LEMMA SendSound ==
  ASSUME DeliveryInv, Send
  PROVE  DeliveryInv'
<1> DEFINE p == Head(ctl.batch)
           e == sent_packet([ctl EXCEPT !.batch = Tail(@)], p)
<1>1. phase = "send" /\ phase' = phase /\ ctl.batch # <<>> /\ ctl' = e /\ wire' = wire \cup {p.no}
      /\ told' = told /\ fresh' = fresh /\ reset' = reset
  BY DEF Send
<1>2. Sound(ctl, phase, wire, told, fresh, reset)
  BY SoundIs
<1>3. Good(ctl) /\ Armed(ctl) /\ Wired(ctl, wire)
  BY <1>2 DEF Sound
<1>4. ctl.senhist \in Nat
  BY <1>3 DEF Good, Typed
<1>10. Sends(ctl, e, p)
  BY <1>1, <1>3, PacketSent
<1> HIDE DEF e, p
<1>5. /\ Good(e) /\ Moves(ctl, e) /\ e.senhist = p.no /\ p.no \in Nat /\ p.no > ctl.senhist /\ p.no # ctl.gap
      /\ (RetxOf(ctl) # {} => ctl.retx_alarm) => (RetxOf(e) # {} => e.retx_alarm)
  BY <1>10 DEF Sends
<1>6. Wired(e, wire \cup {p.no})
  <2>1. e.gap = ctl.gap
    BY <1>5 DEF Moves
  <2>2. ASSUME NEW n \in wire \cup {p.no}
        PROVE  n \in Nat /\ n <= e.senhist /\ n # e.gap
    <3>1. CASE n = p.no
      BY <1>5, <2>1, <3>1
    <3>2. CASE n \in wire
      BY <1>3, <1>4, <1>5, <2>1, <3>2 DEF Wired
    <3> QED
      BY <3>1, <3>2
  <2> QED
    BY <2>2 DEF Wired
<1>7. RetxOf(e) # {} => e.retx_alarm
  BY <1>3, <1>5 DEF Armed
<1>8. "send" \in Phases \ {"dead"} /\ "send" # "fill" /\ "send" # "idle"
  BY DEF Phases
<1>9. Sound(e, "send", wire \cup {p.no}, told, fresh, reset)
  BY <1>2, <1>5, <1>6, <1>7, <1>8, MovesSound
<1> QED
  BY <1>1, <1>9, SoundIs

\* A probe that does not fit takes its number with it.
LEMMA TooLargeSound ==
  ASSUME DeliveryInv, TooLarge
  PROVE  DeliveryInv'
<1> DEFINE p == Head(ctl.batch)
           a == [ctl EXCEPT !.batch = Tail(@)]
           e == add_senhist(update_poison_hist(a, p.no), p.no)
<1>1. phase = "send" /\ phase' = phase /\ ctl.batch # <<>> /\ p.kind = "probe" /\ ctl' = e
      /\ wire' = wire /\ told' = told /\ fresh' = fresh /\ reset' = reset
  BY DEF TooLarge
<1>2. Sound(ctl, phase, wire, told, fresh, reset)
  BY SoundIs
<1>3. Good(ctl) /\ Armed(ctl) /\ Wired(ctl, wire)
  BY <1>2 DEF Sound
<1>4. ctl.senhist \in Nat
  BY <1>3 DEF Good, Typed
<1>5. Good(e) /\ Moves(ctl, e) /\ Left(ctl, e, p)
  BY <1>1, <1>3, ProbeDropped
<1> HIDE DEF a, e, p
<1>6. /\ e.gap = ctl.gap /\ e.retx_alarm = ctl.retx_alarm /\ e.senhist = p.no /\ p.no > ctl.senhist /\ p.no \in Nat
      /\ RetxOf(ctl) = {} => RetxOf(e) = {}
  BY <1>5 DEF Left
<1>7. Wired(e, wire)
  BY <1>3, <1>4, <1>6 DEF Wired
<1>8. RetxOf(e) # {} => e.retx_alarm
  BY <1>3, <1>6 DEF Armed
<1>9. "send" \in Phases \ {"dead"} /\ "send" # "fill" /\ "send" # "idle"
  BY DEF Phases
<1>10. Sound(e, "send", wire, told, fresh, reset)
  BY <1>2, <1>5, <1>7, <1>8, <1>9, MovesSound
<1> QED
  BY <1>1, <1>10, SoundIs

\* What is left of the batch is given back.
LEMMA DelaySound ==
  ASSUME DeliveryInv, Delay
  PROVE  DeliveryInv'
<1> DEFINE e == delayed(ctl)
<1>1. phase' = "idle" /\ ctl' = e
      /\ wire' = wire /\ told' = told /\ fresh' = fresh /\ reset' = reset
  BY DEF Delay
<1>2. Sound(ctl, phase, wire, told, fresh, reset)
  BY SoundIs
<1>3. Good(ctl) /\ Armed(ctl) /\ Wired(ctl, wire)
  BY <1>2 DEF Sound
<1>4. /\ Good(e) /\ Moves(ctl, e) /\ e.unacked = ctl.unacked /\ e.senhist = ctl.senhist /\ e.batch = <<>>
      /\ e.retx_alarm = ctl.retx_alarm /\ RetxOf(e) = RetxOf(ctl)
  BY <1>3, BatchDelayed
<1> HIDE DEF e
<1>5. Wired(e, wire) /\ (RetxOf(e) # {} => e.retx_alarm)
  BY <1>3, <1>4 DEF Wired, Armed, Moves
<1>6. "idle" \in Phases \ {"dead"} /\ "idle" # "fill"
  BY DEF Phases
<1>7. Sound(e, "idle", wire, told, fresh, reset)
  BY <1>2, <1>4, <1>5, <1>6, MovesSound
<1> QED
  BY <1>1, <1>7, SoundIs

-------------------------------------------------------------------------------
(* The invariant and the properties.                                       *)

\* The first state: nothing is queued, and every datum is still its stream's.
LEMMA InitSound == Init => DeliveryInv
<1> SUFFICES ASSUME Init PROVE DeliveryInv
  OBVIOUS
<1>1. phase = "idle" /\ wire = {} /\ told = {} /\ fresh = Data /\ reset = {}
  BY DEF Init
<1>2. PICK rand \in Gaps :
        ctl = [sched |-> <<>>, unacked |-> <<>>, lost |-> <<>>, batch |-> <<>>,
               n_scheduled |-> 0, n_in_flight_all |-> 0, n_in_flight_retx |-> 0,
               cur_packno |-> 0, senhist |-> 0, gap |-> NewGap(0, rand),
               retx_alarm |-> FALSE, loss_to |-> FALSE, n_tlp |-> 0,
               n_consec_rtos |-> 0, next_limit |-> 0, sent_since |-> FALSE,
               largest_acked |-> 0, reord_thresh |-> N_NACKS_BEFORE_RETX,
               acked_1rtt |-> FALSE, released |-> [d \in Data |-> 0]]
  BY DEF Init, SendInit
<1>3. /\ ctl.sched = <<>> /\ ctl.unacked = <<>> /\ ctl.lost = <<>> /\ ctl.batch = <<>>
      /\ ctl.n_scheduled = 0 /\ ctl.n_in_flight_all = 0 /\ ctl.n_in_flight_retx = 0
      /\ ctl.cur_packno = 0 /\ ctl.senhist = 0 /\ ctl.gap = NewGap(0, rand)
      /\ ctl.released = [d \in Data |-> 0] /\ DOMAIN ctl = CtlFields
  BY <1>2 DEF CtlFields
<1>4. ctl.gap \in Nat /\ ctl.gap > 0
  <2>1. rand \in Nat
    BY SendAssumption
  <2> QED
    BY <1>3, <2>1 DEF NewGap
<1>5. RealOf(ctl) = {} /\ RetxOf(ctl) = {}
  BY <1>3 DEF RealOf, RetxOf
<1>6. Typed(ctl)
  BY <1>3, <1>4 DEF Typed
<1>7. Counted(ctl)
  BY <1>3, <1>5, FS_EmptySet DEF Counted
<1>8. Sorted(ctl) /\ InOrder(ctl)
  BY <1>3, <1>4 DEF Sorted, ToSend, InOrder
<1>9. Numbered(ctl)
  <2>1. BatchOn(ctl) /\ UpTo(ctl, 0)
    BY <1>3 DEF BatchOn, UpTo
  <2>2. Len(ctl.batch) = 0 /\ Len(ctl.sched) = 0
    BY <1>3
  <2>3. Last(ctl, 0)
    BY <1>3, <1>4 DEF Last, Nth
  <2> QED
    BY <2>1, <2>2, <2>3, NumberedIs
<1>10. ASSUME NEW d \in Data
       PROVE  Once(ctl, d) /\ Recorded(ctl, d) /\ Places(ctl, d) = {} /\ ctl.released[d] = 0
  <2>1. /\ DatumAt(ctl.sched, d) = {} /\ DatumAt(ctl.batch, d) = {}
        /\ DatumAt(ctl.unacked, d) = {} /\ DatumAt(ctl.lost, d) = {} /\ ItemsAt(ctl.unacked, {d}) = {}
    BY <1>3 DEF DatumAt, ItemsAt
  <2>2. Places(ctl, d) = {}
    BY <2>1, OnceIs DEF Absent
  <2>3. ctl.released[d] = 0
    BY <1>3
  <2> QED
    BY <2>1, <2>2, <2>3 DEF Once, Recorded
<1>11. Good(ctl)
  BY <1>6, <1>7, <1>8, <1>9, <1>10 DEF Good
<1>12. Known(ctl, told, fresh, reset) /\ Wired(ctl, wire) /\ Armed(ctl) /\ InPhase(ctl, phase)
  BY <1>1, <1>3, <1>5, <1>10 DEF Known, Wired, Armed, InPhase, Phases
<1> QED
  BY <1>11, <1>12, SoundIs DEF Sound

\* Every step keeps the invariant.
LEMMA NextSound == DeliveryInv /\ [Next]_vars => DeliveryInv'
<1> SUFFICES ASSUME DeliveryInv, [Next]_vars PROVE DeliveryInv'
  OBVIOUS
<1>1. CASE UNCHANGED vars
  BY <1>1, SoundIs DEF vars
<1>2. CASE \E S \in AckSets, old \in Older, rand \in Gaps : GotAck(S, old, rand)
  BY <1>2, GotAckSound
<1>3. CASE \E d \in Data : StreamReset(d) \/ Write(d)
  BY <1>3, StreamResetSound, WriteSound
<1>4. CASE \/ \E ack \in BOOLEAN : Tick(ack)
           \/ \E ack \in BOOLEAN, old \in Older, long \in BOOLEAN : TickAndRing(ack, old, long)
           \/ \E old \in Older, long \in BOOLEAN : TickPaced(old, long)
  BY <1>4, AlarmTickSound
<1>5. CASE ScheduleProbe \/ Reschedule \/ TickEnds \/ SendUnsent
  BY <1>5, ScheduleProbeSound, RescheduleSound, PhaseSound
<1>6. CASE \E calm \in BOOLEAN : Take(calm)
  BY <1>6, TakeSound
<1>7. CASE Batched \/ Send \/ TooLarge \/ Delay
  BY <1>7, BatchedSound, SendSound, TooLargeSound, DelaySound
<1> QED
  BY <1>1, <1>2, <1>3, <1>4, <1>5, <1>6, <1>7 DEF Next

\* What the connection keeps.
THEOREM Keeping == Spec => []DeliveryInv
  BY InitSound, NextSound, PTL DEF Spec

\* The counters are the lengths and sizes of the queues: send_ctl_sanity_check's
\* assertions.
LEMMA InvSane == DeliveryInv => Sane
<1> SUFFICES ASSUME DeliveryInv PROVE Sane
  OBVIOUS
<1>1. Typed(ctl) /\ Counted(ctl) /\ InOrder(ctl) /\ phase \in Phases
  BY DEF DeliveryInv, Good
<1> QED
  BY <1>1 DEF Sane, Typed, Counted, InOrder

\* A datum that is handed over and not reset is in a place or acknowledged.
LEMMA InvNothingLost == DeliveryInv => NothingLost
<1> SUFFICES ASSUME DeliveryInv, NEW d \in Data
             PROVE  LET n == Cardinality(Places(ctl, d)) IN
                    /\ d \in fresh => n = 0
                    /\ ctl.released[d] <= (IF d \in told THEN 1 ELSE 0)
                    /\ d \notin fresh \cup reset => n = 1 - ctl.released[d]
                    /\ n <= 1 - ctl.released[d]
                    /\ n = 0 => \A p \in Range(ctl.unacked) : p.item # d
  BY DEF NothingLost
<1> DEFINE n == Cardinality(Places(ctl, d))
<1>1. Once(ctl, d) /\ Recorded(ctl, d)
  BY DEF DeliveryInv, Good
<1>2. n = IF Places(ctl, d) = {} THEN 0 ELSE 1
  BY <1>1, PlacesCount
<1> HIDE DEF n
<1>3. ctl.released[d] = 0 \/ (ctl.released[d] = 1 /\ Places(ctl, d) = {})
  BY <1>1 DEF Once
<1>4. /\ ctl.released[d] = 1 => d \in told
      /\ d \in fresh => Places(ctl, d) = {} /\ ctl.released[d] = 0
      /\ (d \notin fresh \cup reset /\ Places(ctl, d) = {}) => ctl.released[d] = 1
  BY DEF DeliveryInv
<1>5. ASSUME n = 0, NEW p \in Range(ctl.unacked)
      PROVE  p.item # d
  <2>1. ItemsAt(ctl.unacked, {d}) = {}
    <3>1. Places(ctl, d) = {}
      BY <1>2, <1>5
    <3> QED
      BY <1>1, <3>1 DEF Recorded
  <2>2. PICK i \in DOMAIN ctl.unacked : p = ctl.unacked[i]
    BY DEF Range
  <2> QED
    BY <2>1, <2>2 DEF ItemsAt
<1>6. /\ d \in fresh => n = 0
      /\ ctl.released[d] <= (IF d \in told THEN 1 ELSE 0)
      /\ d \notin fresh \cup reset => n = 1 - ctl.released[d]
      /\ n <= 1 - ctl.released[d]
  BY <1>2, <1>3, <1>4
<1> QED
  BY <1>5, <1>6 DEF n

\* The next number continues the history of sent numbers, or skips the gap.
LEMMA InvNoGap == DeliveryInv => NoGapInNumbers
<1> SUFFICES ASSUME DeliveryInv PROVE NoGapInNumbers
  OBVIOUS
<1>1. Numbered(ctl) /\ ctl.senhist \in Nat /\ ctl.gap \in Nat /\ ctl.senhist # ctl.gap /\ ctl.batch \in Seq(Packet)
  BY DEF DeliveryInv, Good, Typed, InOrder
<1>2. BatchOn(ctl)
  BY <1>1, NumberedIs
<1>3. ASSUME NEW i \in DOMAIN ctl.batch, NEW m, m = IF i = 1 THEN ctl.senhist ELSE ctl.batch[i - 1].no
      PROVE  ctl.batch[i].no = IF m + 1 = ctl.gap THEN m + 2 ELSE m + 1
  <2>1. i \in Nat /\ i - 1 \in Nat /\ (i - 1) + 1 = i /\ (i # 1 => i - 1 \in DOMAIN ctl.batch)
    BY <1>1
  <2>2. ctl.batch[i].no = Nth(ctl, i)
    BY <1>2 DEF BatchOn
  <2>3. m = Nth(ctl, i - 1)
    <3>1. CASE i = 1
      <4>1. Nth(ctl, 0) = ctl.senhist
        BY <1>1, NthIs
      <4> QED
        BY <1>3, <3>1, <4>1
    <3>2. CASE i # 1
      BY <1>2, <1>3, <2>1, <3>2 DEF BatchOn
    <3> QED
      BY <3>1, <3>2
  <2>4. Nth(ctl, (i - 1) + 1) = IF Nth(ctl, i - 1) + 1 = ctl.gap THEN Nth(ctl, i - 1) + 2 ELSE Nth(ctl, i - 1) + 1
    BY <1>1, <2>1, NthIs
  <2> QED
    BY <2>1, <2>2, <2>3, <2>4
<1> QED
  BY <1>3 DEF NoGapInNumbers

\* The alarm and the honest ACK are parts of the invariant.
LEMMA InvRest == DeliveryInv => AlarmArmed /\ HonestAckAccepted
  BY DEF DeliveryInv, HonestAckAccepted

\* The counters of the send controller agree with its queues, and the unacked
\* packets are in the order of their numbers: the assertions of
\* lsquic_send_ctl_do_sanity_check hold after every step.
THEOREM SaneAlways == Spec => []Sane
  BY Keeping, InvSane, PTL

\* No frame that a stream handed over is forgotten, sent from two packets or
\* acknowledged twice, through losses, spurious losses, ACKs and resets
\* (send_ctl_process_loss_chain_pkt and its callers).
THEOREM NothingLostAlways == Spec => []NothingLost
  BY Keeping, InvNothingLost, PTL

\* Whatever is in flight and must arrive has an alarm that will declare it lost
\* (set_retx_alarm at the end of every handler that can unset it).
THEOREM AlarmArmedAlways == Spec => []AlarmArmed
  BY Keeping, InvRest, PTL

\* The numbers on the wire follow each other but for the poisoned one, whatever
\* was dropped, delayed or renumbered before they were sent (lsquic_senhist.h).
THEOREM NoGapInNumbersAlways == Spec => []NoGapInNumbers
  BY Keeping, InvNoGap, PTL

\* An ACK of numbers that were sent never ends the connection: they are in the
\* history of sent numbers and none is the poisoned one.
THEOREM HonestAckAcceptedAlways == Spec => []HonestAckAccepted
  BY Keeping, InvRest, PTL
================================================================================
