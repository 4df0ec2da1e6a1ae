---------------------------- MODULE Mp4Crash_proofs ----------------------------
(***************************************************************************)
(* That what a crash leaves of a recording names only data that is there,  *)
(* and that a player reads whole indexes and whole frames, for a cache, a  *)
(* file and samples of any size: CrashInv and PlayInv of Mp4Crash are      *)
(* inductive beside the invariant of Mp4_proofs.                           *)
(*                                                                         *)
(* The calls of a rewriting are counted, and what they have written is a   *)
(* mixture of the index before and the index after; a reader of any such   *)
(* mixture finds tracks of the one or of the other.                        *)
(***************************************************************************)
EXTENDS Mp4_proofs, WellFoundedInduction

-----------------------------------------------------------------------------
(* A rewriting, call by call.                                              *)

\* Where the file and the edge of the new index are, before the call after k
\* others and behind it.
Positions(r1, r2, b2, b3, e, k) ==
  LET p == PosAfter(r1, r2, e, k)
      p1 == PosAfter(r1, r2, e, k + 1)
      a == EdgeAfter(r1, r2, k)
      a1 == EdgeAfter(r1, r2, k + 1)
      s == Size1After(r1, k)
      s1 == Size1After(r1, k + 1)
      t == Size2After(r1, r2, k)
      t1 == Size2After(r1, r2, k + 1)
      Same == a1 = a /\ s1 = s /\ t1 = t
  IN \/ k = 0 /\ p1 = MdatAt /\ Same
     \/ k = 1 /\ p = MdatAt /\ p1 = p + 1 /\ Same
     \/ k = 2 /\ p1 = e /\ Same
     \/ k = 3 /\ p1 = 0 /\ Same
     \/ k = 4 /\ p = 0 /\ p1 = p + 1 /\ Same
     \/ /\ k - 4 \in 1..r1 /\ p = k - 4 /\ p1 = p + 1
        /\ a = k - 4 /\ a1 = a + 1 /\ s = 0 /\ s1 = 0 /\ t = 0 /\ t1 = 0
     \/ r1 > 0 /\ k = 5 + r1 /\ p1 = 1 /\ Same
     \/ /\ r1 > 0 /\ k = 6 + r1 /\ p = 1 /\ p1 = p + 1
        /\ a = 1 + r1 /\ a1 = a /\ s = 0 /\ s1 = r1 /\ t = 0 /\ t1 = 0
     \/ r1 > 0 /\ k = 7 + r1 /\ p1 = 1 + r1 /\ Same
     \/ /\ k + 1 - b2 \in 1..r2 /\ p = r1 + (k + 1 - b2) /\ p1 = p + 1
        /\ a = p /\ a1 = a + 1 /\ s = r1 /\ s1 = r1 /\ t = 0 /\ t1 = 0
     \/ r2 > 0 /\ k = b2 + r2 /\ p1 = 1 + r1 /\ Same
     \/ /\ r2 > 0 /\ k = b2 + r2 + 1 /\ p = 1 + r1 /\ p1 = p + 1
        /\ a = 1 + r1 + r2 /\ a1 = a /\ s = r1 /\ s1 = r1 /\ t = 0 /\ t1 = r2
     \/ r2 > 0 /\ k = b2 + r2 + 2 /\ p1 = 1 + r1 + r2 /\ Same
     \/ k = b3 /\ p1 = 0 /\ Same
     \/ k = b3 + 1 /\ p = 0 /\ p1 = p + 1 /\ Same
     \/ k = b3 + 2 /\ p1 = 1 + r1 + r2 /\ Same
     \/ /\ k = b3 + 3 /\ p = 1 + r1 + r2 /\ p1 = p + 1
        /\ a = p /\ a1 = a + 1 /\ s = r1 /\ s1 = r1 /\ t = r2 /\ t1 = r2
     \/ k = b3 + 4 /\ p1 = e /\ Same

\* Up to where the new index goes, behind x calls.
LEMMA EdgeIs ==
  ASSUME NEW r1 \in Nat, NEW r2 \in Nat, NEW x \in Nat,
         NEW b2, NEW b3, b2 = 5 + Calls(r1), b3 = b2 + Calls(r2)
  PROVE  LET y == EdgeAfter(r1, r2, x) IN
         /\ x <= 5 => y = 1
         /\ x >= 5 /\ x <= 5 + r1 => y = x - 4
         /\ x >= 5 + r1 /\ x <= b2 => y = 1 + r1
         /\ x >= b2 /\ x <= b2 + r2 => y = 1 + r1 + (x - b2)
         /\ x >= b2 + r2 /\ x <= b3 => y = 1 + r1 + r2
         /\ x >= b3 /\ x <= b3 + 3 => y = 1 + r1 + r2
         /\ x >= b3 + 4 => y = 2 + r1 + r2
<1> DEFINE c1 == Calls(r1)
           c2 == Calls(r2)
           E(z) == EdgeAfter(r1, r2, z)
<1>0. c1 \in Nat /\ c2 \in Nat /\ (r1 = 0 => c1 = 0) /\ (r1 > 0 => c1 = r1 + 3)
      /\ (r2 = 0 => c2 = 0) /\ (r2 > 0 => c2 = r2 + 3)
      /\ b2 = 5 + c1 /\ b3 = b2 + c2 /\ b2 \in Nat /\ b3 \in Nat
  BY DEF Calls
<1> DEFINE y == E(x)
<1>a. y = CASE x <= 5 -> 1
            [] x > 5 /\ x <= b2 -> 1 + (IF x - 5 <= r1 THEN x - 5 ELSE r1)
            [] x > b2 /\ x <= b3 -> 1 + r1 + (IF x - b2 <= r2 THEN x - b2 ELSE r2)
            [] x > b3 /\ x <= b3 + 3 -> 1 + r1 + r2
            [] OTHER -> 2 + r1 + r2
  BY DEF EdgeAfter, Min2
<1> HIDE DEF y, c1, c2
<1>2. x <= 5 => y = 1
  BY <1>0, <1>a
<1>3. x >= 5 /\ x <= 5 + r1 => y = x - 4
  BY <1>0, <1>a
<1>4. x >= 5 + r1 /\ x <= b2 => y = 1 + r1
  BY <1>0, <1>a
<1>5. x >= b2 /\ x <= b2 + r2 => y = 1 + r1 + (x - b2)
  <2>1. x = b2 => y = 1 + r1 + (x - b2)
    BY <1>0, <1>3, <1>4
  <2>2. x > b2 /\ x <= b2 + r2 => ~(x <= 5) /\ x <= b3 /\ x - b2 <= r2 /\ ~(x <= b2)
    BY <1>0
  <2>3. x > b2 /\ x <= b2 + r2 => y = 1 + r1 + (x - b2)
    BY <1>0, <1>a, <2>2
  <2> QED
    BY <1>0, <2>1, <2>3
<1>6. x >= b2 + r2 /\ x <= b3 => y = 1 + r1 + r2
  BY <1>0, <1>a
<1>7. x >= b3 /\ x <= b3 + 3 => y = 1 + r1 + r2
  BY <1>0, <1>a
<1>8. x >= b3 + 4 => y = 2 + r1 + r2
  BY <1>0, <1>a
<1> QED
  BY <1>2, <1>3, <1>4, <1>5, <1>6, <1>7, <1>8, Zenon DEF y

\* Every call is one of those.
LEMMA PositionsAre ==
  ASSUME NEW r1 \in Nat, NEW r2 \in Nat, NEW e \in Nat, NEW k \in Nat,
         NEW b2, NEW b3, b2 = 5 + Calls(r1), b3 = b2 + Calls(r2), k < b3 + 5, MdatAt \in Nat
  PROVE  Positions(r1, r2, b2, b3, e, k)
<1> DEFINE c1 == Calls(r1)
           c2 == Calls(r2)
           l == k + 1
<1>0. c1 \in Nat /\ c2 \in Nat /\ (r1 = 0 => c1 = 0) /\ (r1 > 0 => c1 = r1 + 3)
      /\ (r2 = 0 => c2 = 0) /\ (r2 > 0 => c2 = r2 + 3)
      /\ b2 = 5 + c1 /\ b3 = b2 + c2 /\ b2 \in Nat /\ b3 \in Nat /\ l = k + 1 /\ l \in Nat
  BY DEF Calls
<1> DEFINE n == MdatAt
           P(x) == PosAfter(r1, r2, e, x)
           E(x) == EdgeAfter(r1, r2, x)
<1>n. n \in Nat
  OBVIOUS
<1>p. ASSUME NEW x \in Nat
      PROVE  /\ x = 0 => P(x) = e
             /\ x = 1 => P(x) = n
             /\ x = 2 => P(x) = n + 1
             /\ x = 3 => P(x) = e
             /\ x = 4 => P(x) = 0
             /\ x >= 5 /\ x <= 5 + r1 => P(x) = x - 4
             /\ r1 > 0 /\ x = 6 + r1 => P(x) = 1
             /\ r1 > 0 /\ x = 7 + r1 => P(x) = 2
             /\ r1 > 0 /\ x = 8 + r1 => P(x) = 1 + r1
             /\ x > b2 /\ x <= b2 + r2 => P(x) = 1 + r1 + (x - b2)
             /\ r2 > 0 /\ x = b2 + r2 + 1 => P(x) = 1 + r1
             /\ r2 > 0 /\ x = b2 + r2 + 2 => P(x) = 2 + r1
             /\ r2 > 0 /\ x = b2 + r2 + 3 => P(x) = 1 + r1 + r2
             /\ x = b3 + 1 => P(x) = 0
             /\ x = b3 + 2 => P(x) = 1
             /\ x = b3 + 3 => P(x) = 1 + r1 + r2
             /\ x = b3 + 4 => P(x) = 2 + r1 + r2
             /\ x = b3 + 5 => P(x) = e
  <2> DEFINE y == P(x)
  <2>1. y = CASE x = 0 -> e
            [] x = 1 -> n
            [] x = 2 -> n + 1
            [] x = 3 -> e
            [] x = 4 -> 0
            [] x >= 5 /\ x <= 5 + r1 -> x - 4
            [] x = 5 + r1 + 1 /\ r1 > 0 -> 1
            [] x = 5 + r1 + 2 /\ r1 > 0 -> 2
            [] x = 5 + r1 + 3 /\ r1 > 0 -> 1 + r1
            [] x > b2 /\ x <= b2 + r2 -> 1 + r1 + (x - b2)
            [] x = b2 + r2 + 1 /\ r2 > 0 -> 1 + r1
            [] x = b2 + r2 + 2 /\ r2 > 0 -> 2 + r1
            [] x = b2 + r2 + 3 /\ r2 > 0 -> 1 + r1 + r2
            [] x = b3 + 1 -> 0
            [] x = b3 + 2 -> 1
            [] x = b3 + 3 -> 1 + r1 + r2
            [] x = b3 + 4 -> 2 + r1 + r2
            [] OTHER -> e
    BY DEF PosAfter
  <2> HIDE DEF y, n, c1, c2, l
  <2>2. x = 0 => y = e
    BY <1>0, <1>n, <2>1
  <2>3. x = 1 => y = n
    BY <1>0, <1>n, <2>1
  <2>4. x = 2 => y = n + 1
    BY <1>0, <1>n, <2>1
  <2>5. x = 3 => y = e
    BY <1>0, <1>n, <2>1
  <2>6. x = 4 => y = 0
    BY <1>0, <1>n, <2>1
  <2>7. x >= 5 /\ x <= 5 + r1 => y = x - 4
    BY <1>0, <1>n, <2>1
  <2>8. r1 > 0 /\ x = 6 + r1 => y = 1
    BY <1>0, <1>n, <2>1
  <2>9. r1 > 0 /\ x = 7 + r1 => y = 2
    BY <1>0, <1>n, <2>1
  <2>10. r1 > 0 /\ x = 8 + r1 => y = 1 + r1
    BY <1>0, <1>n, <2>1
  <2>11. x > b2 /\ x <= b2 + r2 => y = 1 + r1 + (x - b2)
    BY <1>0, <1>n, <2>1
  <2>12. r2 > 0 /\ x = b2 + r2 + 1 => y = 1 + r1
    BY <1>0, <1>n, <2>1
  <2>13. r2 > 0 /\ x = b2 + r2 + 2 => y = 2 + r1
    BY <1>0, <1>n, <2>1
  <2>14. r2 > 0 /\ x = b2 + r2 + 3 => y = 1 + r1 + r2
    BY <1>0, <1>n, <2>1
  <2>15. x = b3 + 1 => y = 0
    BY <1>0, <1>n, <2>1
  <2>16. x = b3 + 2 => y = 1
    BY <1>0, <1>n, <2>1
  <2>17. x = b3 + 3 => y = 1 + r1 + r2
    BY <1>0, <1>n, <2>1
  <2>18. x = b3 + 4 => y = 2 + r1 + r2
    BY <1>0, <1>n, <2>1
  <2>19. x = b3 + 5 => y = e
    BY <1>0, <1>n, <2>1
  <2> QED
    BY <2>2, <2>3, <2>4, <2>5, <2>6, <2>7, <2>8, <2>9, <2>10, <2>11, <2>12, <2>13, <2>14, <2>15, <2>16, <2>17, <2>18, <2>19, Zenon DEF y
<1>e. ASSUME NEW x \in Nat
      PROVE  /\ x <= 5 => E(x) = 1
             /\ x >= 5 /\ x <= 5 + r1 => E(x) = x - 4
             /\ x >= 5 + r1 /\ x <= b2 => E(x) = 1 + r1
             /\ x >= b2 /\ x <= b2 + r2 => E(x) = 1 + r1 + (x - b2)
             /\ x >= b2 + r2 /\ x <= b3 => E(x) = 1 + r1 + r2
             /\ x >= b3 /\ x <= b3 + 3 => E(x) = 1 + r1 + r2
             /\ x >= b3 + 4 => E(x) = 2 + r1 + r2
  BY EdgeIs
<1> DEFINE p == P(k)
           p1 == P(l)
           a == E(k)
           a1 == E(l)
           s == Size1After(r1, k)
           s1 == Size1After(r1, l)
           t == Size2After(r1, r2, k)
           t1 == Size2After(r1, r2, l)
<1>5. /\ s = IF k >= 5 + r1 + 2 THEN r1 ELSE 0
      /\ s1 = IF l >= 5 + r1 + 2 THEN r1 ELSE 0
      /\ t = IF k >= b2 + r2 + 2 THEN r2 ELSE 0
      /\ t1 = IF l >= b2 + r2 + 2 THEN r2 ELSE 0
  BY <1>0 DEF Size1After, Size2After
<1>1. /\ k = 0 => p = e
      /\ k = 1 => p = n
      /\ k = 2 => p = n + 1
      /\ k = 3 => p = e
      /\ k = 4 => p = 0
      /\ k >= 5 /\ k <= 5 + r1 => p = k - 4
      /\ r1 > 0 /\ k = 6 + r1 => p = 1
      /\ r1 > 0 /\ k = 7 + r1 => p = 2
      /\ r1 > 0 /\ k = 8 + r1 => p = 1 + r1
      /\ k > b2 /\ k <= b2 + r2 => p = 1 + r1 + (k - b2)
      /\ r2 > 0 /\ k = b2 + r2 + 1 => p = 1 + r1
      /\ r2 > 0 /\ k = b2 + r2 + 2 => p = 2 + r1
      /\ r2 > 0 /\ k = b2 + r2 + 3 => p = 1 + r1 + r2
      /\ k = b3 + 1 => p = 0
      /\ k = b3 + 2 => p = 1
      /\ k = b3 + 3 => p = 1 + r1 + r2
      /\ k = b3 + 4 => p = 2 + r1 + r2
      /\ k = b3 + 5 => p = e
  BY <1>p, Zenon
<1>2. /\ l = 0 => p1 = e
      /\ l = 1 => p1 = n
      /\ l = 2 => p1 = n + 1
      /\ l = 3 => p1 = e
      /\ l = 4 => p1 = 0
      /\ l >= 5 /\ l <= 5 + r1 => p1 = l - 4
      /\ r1 > 0 /\ l = 6 + r1 => p1 = 1
      /\ r1 > 0 /\ l = 7 + r1 => p1 = 2
      /\ r1 > 0 /\ l = 8 + r1 => p1 = 1 + r1
      /\ l > b2 /\ l <= b2 + r2 => p1 = 1 + r1 + (l - b2)
      /\ r2 > 0 /\ l = b2 + r2 + 1 => p1 = 1 + r1
      /\ r2 > 0 /\ l = b2 + r2 + 2 => p1 = 2 + r1
      /\ r2 > 0 /\ l = b2 + r2 + 3 => p1 = 1 + r1 + r2
      /\ l = b3 + 1 => p1 = 0
      /\ l = b3 + 2 => p1 = 1
      /\ l = b3 + 3 => p1 = 1 + r1 + r2
      /\ l = b3 + 4 => p1 = 2 + r1 + r2
      /\ l = b3 + 5 => p1 = e
  BY <1>0, <1>p, Zenon
<1>3. /\ k <= 5 => a = 1
      /\ k >= 5 /\ k <= 5 + r1 => a = k - 4
      /\ k >= 5 + r1 /\ k <= b2 => a = 1 + r1
      /\ k >= b2 /\ k <= b2 + r2 => a = 1 + r1 + (k - b2)
      /\ k >= b2 + r2 /\ k <= b3 => a = 1 + r1 + r2
      /\ k >= b3 /\ k <= b3 + 3 => a = 1 + r1 + r2
      /\ k >= b3 + 4 => a = 2 + r1 + r2
  BY <1>e, Zenon
<1>4. /\ l <= 5 => a1 = 1
      /\ l >= 5 /\ l <= 5 + r1 => a1 = l - 4
      /\ l >= 5 + r1 /\ l <= b2 => a1 = 1 + r1
      /\ l >= b2 /\ l <= b2 + r2 => a1 = 1 + r1 + (l - b2)
      /\ l >= b2 + r2 /\ l <= b3 => a1 = 1 + r1 + r2
      /\ l >= b3 /\ l <= b3 + 3 => a1 = 1 + r1 + r2
      /\ l >= b3 + 4 => a1 = 2 + r1 + r2
  BY <1>0, <1>e, Zenon
<1> DEFINE Same == a1 = a /\ s1 = s /\ t1 = t
<1> SUFFICES
     \/ k = 0 /\ p1 = MdatAt /\ Same
     \/ k = 1 /\ p = MdatAt /\ p1 = p + 1 /\ Same
     \/ k = 2 /\ p1 = e /\ Same
     \/ k = 3 /\ p1 = 0 /\ Same
     \/ k = 4 /\ p = 0 /\ p1 = p + 1 /\ Same
     \/ /\ k - 4 \in 1..r1 /\ p = k - 4 /\ p1 = p + 1
        /\ a = k - 4 /\ a1 = a + 1 /\ s = 0 /\ s1 = 0 /\ t = 0 /\ t1 = 0
     \/ r1 > 0 /\ k = 5 + r1 /\ p1 = 1 /\ Same
     \/ /\ r1 > 0 /\ k = 6 + r1 /\ p = 1 /\ p1 = p + 1
        /\ a = 1 + r1 /\ a1 = a /\ s = 0 /\ s1 = r1 /\ t = 0 /\ t1 = 0
     \/ r1 > 0 /\ k = 7 + r1 /\ p1 = 1 + r1 /\ Same
     \/ /\ k + 1 - b2 \in 1..r2 /\ p = r1 + (k + 1 - b2) /\ p1 = p + 1
        /\ a = p /\ a1 = a + 1 /\ s = r1 /\ s1 = r1 /\ t = 0 /\ t1 = 0
     \/ r2 > 0 /\ k = b2 + r2 /\ p1 = 1 + r1 /\ Same
     \/ /\ r2 > 0 /\ k = b2 + r2 + 1 /\ p = 1 + r1 /\ p1 = p + 1
        /\ a = 1 + r1 + r2 /\ a1 = a /\ s = r1 /\ s1 = r1 /\ t = 0 /\ t1 = r2
     \/ r2 > 0 /\ k = b2 + r2 + 2 /\ p1 = 1 + r1 + r2 /\ Same
     \/ k = b3 /\ p1 = 0 /\ Same
     \/ k = b3 + 1 /\ p = 0 /\ p1 = p + 1 /\ Same
     \/ k = b3 + 2 /\ p1 = 1 + r1 + r2 /\ Same
     \/ /\ k = b3 + 3 /\ p = 1 + r1 + r2 /\ p1 = p + 1
        /\ a = p /\ a1 = a + 1 /\ s = r1 /\ s1 = r1 /\ t = r2 /\ t1 = r2
     \/ k = b3 + 4 /\ p1 = e /\ Same
  BY <1>0 DEF Positions
<1> HIDE DEF P, E, p, p1, a, a1, s, s1, t, t1, n, c1, c2, l
<1>6. CASE k = 0
  BY <1>0, <1>1, <1>2, <1>3, <1>4, <1>5, <1>n, <1>6 DEF n
<1>7. CASE k = 1
  BY <1>0, <1>1, <1>2, <1>3, <1>4, <1>5, <1>n, <1>7 DEF n
<1>8. CASE k = 2
  BY <1>0, <1>1, <1>2, <1>3, <1>4, <1>5, <1>n, <1>8
<1>9. CASE k = 3
  BY <1>0, <1>1, <1>2, <1>3, <1>4, <1>5, <1>n, <1>9
<1>10. CASE k = 4
  BY <1>0, <1>1, <1>2, <1>3, <1>4, <1>5, <1>n, <1>10
<1>11. CASE k >= 5 /\ k < b2 /\ k < 5 + r1
  BY <1>0, <1>1, <1>2, <1>3, <1>4, <1>5, <1>n, <1>11
<1>12. CASE k >= 5 /\ k < b2 /\ k = 5 + r1
  BY <1>0, <1>1, <1>2, <1>3, <1>4, <1>5, <1>n, <1>12
<1>13. CASE k >= 5 /\ k < b2 /\ k = 6 + r1
  BY <1>0, <1>1, <1>2, <1>3, <1>4, <1>5, <1>n, <1>13
<1>14. CASE k >= 5 /\ k < b2 /\ k = 7 + r1
  BY <1>0, <1>1, <1>2, <1>3, <1>4, <1>5, <1>n, <1>14
<1>15. CASE k >= b2 /\ k < b3 /\ k < b2 + r2
  BY <1>0, <1>1, <1>2, <1>3, <1>4, <1>5, <1>n, <1>15
<1>16. CASE k >= b2 /\ k < b3 /\ k = b2 + r2
  BY <1>0, <1>1, <1>2, <1>3, <1>4, <1>5, <1>n, <1>16
<1>17. CASE k >= b2 /\ k < b3 /\ k = b2 + r2 + 1
  BY <1>0, <1>1, <1>2, <1>3, <1>4, <1>5, <1>n, <1>17
<1>18. CASE k >= b2 /\ k < b3 /\ k = b2 + r2 + 2
  BY <1>0, <1>1, <1>2, <1>3, <1>4, <1>5, <1>n, <1>18
<1>19. CASE k = b3
  <2>1. p1 = 0
    BY <1>0, <1>2, <1>19
  <2>2. a = 1 + r1 + r2 /\ a1 = 1 + r1 + r2
    BY <1>0, <1>3, <1>4, <1>19
  <2>3. s = r1 /\ s1 = r1
    BY <1>0, <1>5, <1>19
  <2>4. t = r2 /\ t1 = r2
    BY <1>0, <1>5, <1>19
  <2> QED
    BY <1>19, <2>1, <2>2, <2>3, <2>4
<1>20. CASE k = b3 + 1
  BY <1>0, <1>1, <1>2, <1>3, <1>4, <1>5, <1>n, <1>20
<1>21. CASE k = b3 + 2
  BY <1>0, <1>1, <1>2, <1>3, <1>4, <1>5, <1>n, <1>21
<1>22. CASE k = b3 + 3
  BY <1>0, <1>1, <1>2, <1>3, <1>4, <1>5, <1>n, <1>22
<1>23. CASE k = b3 + 4
  BY <1>0, <1>1, <1>2, <1>3, <1>4, <1>5, <1>n, <1>23
<1> QED
  BY <1>0, <1>6, <1>7, <1>8, <1>9, <1>10, <1>11, <1>12, <1>13, <1>14, <1>15, <1>16, <1>17, <1>18, <1>19, <1>20, <1>21, <1>22, <1>23

\* What a call of a rewriting does: c is the call, the file is at p before it
\* and at p1 behind it, the new index goes up to a and then to a1, and the
\* sizes of its tracks are s and t and then s1 and t1.
Move(ord, tb, r1, r2, c, p, p1, a, a1, s, s1, t, t1) ==
  LET Same == a1 = a /\ s1 = s /\ t1 = t IN
  \/ c = Sk(p1) /\ Same
  \/ /\ \E v \in Cell : c = Wr(v)
     /\ p \in {0, MdatAt} /\ p1 = p + 1 /\ Same
  \/ /\ p \in 1..r1 /\ c = Wr(TrakAt(ord, tb, 1, 0, p)) /\ p1 = p + 1
     /\ a = p /\ a1 = p + 1 /\ s = 0 /\ s1 = 0 /\ t = 0 /\ t1 = 0
  \/ /\ r1 > 0 /\ p = 1 /\ c = Wr(TrakAt(ord, tb, 1, r1, 1)) /\ p1 = p + 1
     /\ a = 1 + r1 /\ a1 = a /\ s = 0 /\ s1 = r1 /\ t = 0 /\ t1 = 0
  \/ /\ \E j \in 1..r2 : p = r1 + j /\ c = Wr(TrakAt(ord, tb, 2, 0, j))
     /\ p1 = p + 1
     /\ a = p /\ a1 = p + 1 /\ s = r1 /\ s1 = r1 /\ t = 0 /\ t1 = 0
  \/ /\ r2 > 0 /\ p = 1 + r1 /\ c = Wr(TrakAt(ord, tb, 2, r2, 1)) /\ p1 = p + 1
     /\ a = 1 + r1 + r2 /\ a1 = a /\ s = r1 /\ s1 = r1 /\ t = 0 /\ t1 = r2
  \/ /\ p = 1 + r1 + r2 /\ c = Wr(Skip) /\ p1 = p + 1
     /\ a = p /\ a1 = p + 1 /\ s = r1 /\ s1 = r1 /\ t = r2 /\ t1 = r2

\* The first cell of a track is its header.
LEMMA FirstCell ==
  ASSUME NEW ord, NEW tb, NEW i, NEW r
  PROVE  TrakAt(ord, tb, i, r, 1) = Trak(ord[i], r)
  BY DEF TrakAt, TrakCell

\* Behind b calls q writes the i-th track of r cells, at x; and so, one by one.
TrackIn(ord, tb, q, b, i, x, r) ==
  /\ r = Room(ord, tb, i) /\ r > 0
  /\ \A j \in 1..Calls(r) : q[b + j] = TrakOf(ord, tb, i, x)[j]

TrackList(ord, tb, q, b, i, x, r) ==
  /\ \A j \in 1..r : q[b + j] = Wr(TrakAt(ord, tb, i, 0, j))
  /\ q[b + (r + 1)] = Sk(x) /\ q[b + (r + 2)] = Wr(TrakAt(ord, tb, i, r, 1))
  /\ q[b + (r + 3)] = Sk(x + r)

\* All calls of a rewriting, track by track.
CallList(ord, tb, n, e, q, r1, r2, b2, b3) ==
  /\ n \in Nat /\ e \in Nat /\ r1 \in Nat /\ r2 \in Nat /\ b2 \in Nat /\ b3 \in Nat
  /\ q[1] = Sk(MdatAt) /\ q[2] = Wr(Mdat(n)) /\ q[3] = Sk(e) /\ q[4] = Sk(0)
  /\ q[5] = Wr(Moov(8))
  /\ r1 > 0 => TrackList(ord, tb, q, 5, 1, 1, r1)
  /\ r2 > 0 => TrackList(ord, tb, q, b2, 2, 1 + r1, r2)
  /\ q[b3 + 1] = Sk(0) /\ q[b3 + 2] = Wr(Moov(1 + r1 + r2))
  /\ q[b3 + 3] = Sk(1 + r1 + r2)
  /\ q[b3 + 4] = Wr(Skip) /\ q[b3 + 5] = Sk(e)

\* The calls of a track, among those of a rewriting.
LEMMA TrackCalls ==
  ASSUME NEW ord \in Orders, NEW tb \in [Tracks -> Seq(Entry)], NEW i \in {1, 2}, NEW x \in Nat,
         NEW q, NEW b, NEW r, TrackIn(ord, tb, q, b, i, x, r)
  PROVE  TrackList(ord, tb, q, b, i, x, r)
<1> DEFINE T == TrakOf(ord, tb, i, x)
<1>0. /\ r = Room(ord, tb, i) /\ r > 0
      /\ \A j \in 1..Calls(r) : q[b + j] = T[j]
  BY Zenon DEF TrackIn
<1>1. /\ r \in Nat
      /\ \A j \in 1..r : T[j] = Wr(TrakCell(ord[i], tb[ord[i]], 0, j))
      /\ T[r + 1] = Sk(x) /\ T[r + 2] = Wr(Trak(ord[i], r))
      /\ T[r + 3] = Sk(x + r)
  <2>1. Room(ord, tb, i) = r /\ r > 0
    BY <1>0
  <2>2. Room(ord, tb, i) \in Nat
    BY TrakOfCalls
  <2>3. \A j \in 1..Room(ord, tb, i) : T[j] = Wr(TrakCell(ord[i], tb[ord[i]], 0, j))
    BY <2>1, TrakOfCalls
  <2>4. /\ T[Room(ord, tb, i) + 1] = Sk(x)
        /\ T[Room(ord, tb, i) + 2] = Wr(Trak(ord[i], Room(ord, tb, i)))
        /\ T[Room(ord, tb, i) + 3] = Sk(x + Room(ord, tb, i))
    BY <2>1, TrakOfCalls
  <2> HIDE DEF T
  <2> QED
    BY <2>1, <2>2, <2>3, <2>4, Zenon
<1>2. \A m \in Nat : m > 0 => /\ Calls(m) = m + 3
                              /\ m + 1 \in 1..(m + 3) /\ m + 2 \in 1..(m + 3)
                              /\ m + 3 \in 1..(m + 3) /\ \A j \in 1..m : j \in 1..(m + 3)
  BY DEF Calls
<1>3. /\ r + 1 \in 1..Calls(r) /\ r + 2 \in 1..Calls(r) /\ r + 3 \in 1..Calls(r)
      /\ \A j \in 1..r : j \in 1..Calls(r)
  BY <1>0, <1>1, <1>2, Zenon
<1>4. /\ \A j \in 1..r : q[b + j] = T[j]
      /\ q[b + (r + 1)] = T[r + 1] /\ q[b + (r + 2)] = T[r + 2] /\ q[b + (r + 3)] = T[r + 3]
  BY <1>0, <1>3, Zenon
<1> HIDE DEF T
<1>5. q[b + (r + 2)] = Wr(TrakAt(ord, tb, i, r, 1))
  <2>1. TrakAt(ord, tb, i, r, 1) = Trak(ord[i], r)
    BY FirstCell
  <2> QED
    BY <1>1, <1>4, <2>1, Zenon
<1> QED
  BY <1>1, <1>4, <1>5, Zenon DEF TrakAt, TrackList

\* They are the calls of a rewriting.
LEMMA CallListIs ==
  ASSUME NEW ord \in Orders, NEW tb \in [Tracks -> Seq(Entry)], NEW n \in Nat, NEW e \in Nat,
         NEW q, NEW r1, NEW r2, NEW c1, NEW c2, NEW b2, NEW b3,
         r1 = Room(ord, tb, 1), r2 = Room(ord, tb, 2), c1 = Calls(r1), c2 = Calls(r2),
         Bases(c1, c2, b2, b3),
         AreCalls(ord, tb, n, e, q, r1, r2, c1, c2, b2, b3)
  PROVE  CallList(ord, tb, n, e, q, r1, r2, b2, b3)
<1>1. /\ r1 \in Nat /\ r2 \in Nat
      /\ q[1] = Sk(MdatAt) /\ q[2] = Wr(Mdat(n)) /\ q[3] = Sk(e) /\ q[4] = Sk(0)
      /\ q[5] = Wr(Moov(8))
      /\ \A j \in 1..c1 : q[5 + j] = TrakOf(ord, tb, 1, 1)[j]
      /\ \A j \in 1..c2 : q[b2 + j] = TrakOf(ord, tb, 2, 1 + r1)[j]
      /\ q[b3 + 1] = Sk(0) /\ q[b3 + 2] = Wr(Moov(1 + r1 + r2))
      /\ q[b3 + 3] = Sk(1 + r1 + r2)
      /\ q[b3 + 4] = Wr(Skip) /\ q[b3 + 5] = Sk(e)
  BY Zenon DEF AreCalls
<1>2. b2 \in Nat /\ b3 \in Nat
  BY Offsets, Zenon DEF Steps
<1>3. r1 > 0 => TrackList(ord, tb, q, 5, 1, 1, r1)
  <2>1. 1 \in {1, 2} /\ 1 \in Nat
    OBVIOUS
  <2>2. r1 > 0 => TrackIn(ord, tb, q, 5, 1, 1, r1)
    BY <1>1, Zenon DEF TrackIn
  <2> QED
    BY <2>1, <2>2, TrackCalls
<1>4. r2 > 0 => TrackList(ord, tb, q, b2, 2, 1 + r1, r2)
  <2>1. 2 \in {1, 2}
    OBVIOUS
  <2>2. 1 + r1 \in Nat
    BY <1>1, SumTypes, Zenon
  <2>3. r2 > 0 => TrackIn(ord, tb, q, b2, 2, 1 + r1, r2)
    BY <1>1, Zenon DEF TrackIn
  <2> QED
    BY <2>1, <2>2, <2>3, TrackCalls
<1> QED
  BY <1>1, <1>2, <1>3, <1>4, Zenon DEF CallList

\* Each of them is one of those moves.
LEMMA MoveIs ==
  ASSUME NEW ord, NEW tb, NEW n, NEW e, NEW q, NEW r1, NEW r2, NEW b2, NEW b3, NEW k \in Nat,
         CallList(ord, tb, n, e, q, r1, r2, b2, b3),
         Positions(r1, r2, b2, b3, e, k)
  PROVE  Move(ord, tb, r1, r2, q[k + 1],
              PosAfter(r1, r2, e, k), PosAfter(r1, r2, e, k + 1),
              EdgeAfter(r1, r2, k), EdgeAfter(r1, r2, k + 1),
              Size1After(r1, k), Size1After(r1, k + 1),
              Size2After(r1, r2, k), Size2After(r1, r2, k + 1))
<1>1. /\ n \in Nat /\ e \in Nat /\ r1 \in Nat /\ r2 \in Nat /\ b2 \in Nat /\ b3 \in Nat
      /\ q[1] = Sk(MdatAt) /\ q[2] = Wr(Mdat(n)) /\ q[3] = Sk(e) /\ q[4] = Sk(0)
      /\ q[5] = Wr(Moov(8))
      /\ q[b3 + 1] = Sk(0) /\ q[b3 + 2] = Wr(Moov(1 + r1 + r2))
      /\ q[b3 + 3] = Sk(1 + r1 + r2)
      /\ q[b3 + 4] = Wr(Skip) /\ q[b3 + 5] = Sk(e)
  BY Zenon DEF CallList
<1>2. r1 > 0 => /\ \A j \in 1..r1 : q[5 + j] = Wr(TrakAt(ord, tb, 1, 0, j))
                /\ q[5 + (r1 + 1)] = Sk(1) /\ q[5 + (r1 + 2)] = Wr(TrakAt(ord, tb, 1, r1, 1))
                /\ q[5 + (r1 + 3)] = Sk(1 + r1)
  BY Zenon DEF CallList, TrackList
<1>3. r2 > 0 => /\ \A j \in 1..r2 : q[b2 + j] = Wr(TrakAt(ord, tb, 2, 0, j))
                /\ q[b2 + (r2 + 1)] = Sk(1 + r1)
                /\ q[b2 + (r2 + 2)] = Wr(TrakAt(ord, tb, 2, r2, 1))
                /\ q[b2 + (r2 + 3)] = Sk((1 + r1) + r2)
  BY Zenon DEF CallList, TrackList
<1> DEFINE l == k + 1
           p == PosAfter(r1, r2, e, k)
           p1 == PosAfter(r1, r2, e, l)
           a == EdgeAfter(r1, r2, k)
           a1 == EdgeAfter(r1, r2, l)
           s == Size1After(r1, k)
           s1 == Size1After(r1, l)
           t == Size2After(r1, r2, k)
           t1 == Size2After(r1, r2, l)
           c == q[l]
           Same == a1 = a /\ s1 = s /\ t1 = t
           G == Move(ord, tb, r1, r2, c, p, p1, a, a1, s, s1, t, t1)
           Cases ==
             \/ k = 0 /\ p1 = MdatAt /\ Same
             \/ k = 1 /\ p = MdatAt /\ p1 = p + 1 /\ Same
             \/ k = 2 /\ p1 = e /\ Same
             \/ k = 3 /\ p1 = 0 /\ Same
             \/ k = 4 /\ p = 0 /\ p1 = p + 1 /\ Same
             \/ /\ k - 4 \in 1..r1 /\ p = k - 4 /\ p1 = p + 1
                /\ a = k - 4 /\ a1 = a + 1 /\ s = 0 /\ s1 = 0 /\ t = 0 /\ t1 = 0
             \/ r1 > 0 /\ k = 5 + r1 /\ p1 = 1 /\ Same
             \/ /\ r1 > 0 /\ k = 6 + r1 /\ p = 1 /\ p1 = p + 1
                /\ a = 1 + r1 /\ a1 = a /\ s = 0 /\ s1 = r1 /\ t = 0 /\ t1 = 0
             \/ r1 > 0 /\ k = 7 + r1 /\ p1 = 1 + r1 /\ Same
             \/ /\ k + 1 - b2 \in 1..r2 /\ p = r1 + (k + 1 - b2) /\ p1 = p + 1
                /\ a = p /\ a1 = a + 1 /\ s = r1 /\ s1 = r1 /\ t = 0 /\ t1 = 0
             \/ r2 > 0 /\ k = b2 + r2 /\ p1 = 1 + r1 /\ Same
             \/ /\ r2 > 0 /\ k = b2 + r2 + 1 /\ p = 1 + r1 /\ p1 = p + 1
                /\ a = 1 + r1 + r2 /\ a1 = a /\ s = r1 /\ s1 = r1 /\ t = 0 /\ t1 = r2
             \/ r2 > 0 /\ k = b2 + r2 + 2 /\ p1 = 1 + r1 + r2 /\ Same
             \/ k = b3 /\ p1 = 0 /\ Same
             \/ k = b3 + 1 /\ p = 0 /\ p1 = p + 1 /\ Same
             \/ k = b3 + 2 /\ p1 = 1 + r1 + r2 /\ Same
             \/ /\ k = b3 + 3 /\ p = 1 + r1 + r2 /\ p1 = p + 1
                /\ a = p /\ a1 = a + 1 /\ s = r1 /\ s1 = r1 /\ t = r2 /\ t1 = r2
             \/ k = b3 + 4 /\ p1 = e /\ Same
<1>4. Cases
  BY Zenon DEF Positions
<1>5. l = k + 1
  OBVIOUS
<1>6. q[l] = c
  OBVIOUS
<1>7. Moov(8) \in Cell /\ Mdat(n) \in Cell /\ Moov(1 + r1 + r2) \in Cell
  <2>1. 1 + r1 + r2 \in Nat /\ 8 \in Nat
    BY <1>1
  <2> HIDE DEF l
  <2> QED
    BY <1>1, <2>1, CellTypes, Zenon
<1> SUFFICES G
  OBVIOUS
<1> HIDE DEF l, p, p1, a, a1, s, s1, t, t1, c
<1>8. ASSUME c = Sk(p1), Same PROVE G
  BY <1>8, Zenon DEF Move
<1>9. ASSUME NEW v \in Cell, c = Wr(v), p \in {0, MdatAt}, p1 = p + 1, Same PROVE G
  BY <1>9, Zenon DEF Move
<1>10. CASE k = 0 /\ p1 = MdatAt /\ Same
  <2>1. l = 1
    BY <1>1, <1>5, <1>10
  <2>2. c = Sk(p1)
    BY <1>1, <1>6, <1>10, <2>1, Zenon
  <2> QED
    BY <1>8, <1>10, <2>2, Zenon
<1>11. CASE k = 1 /\ p = MdatAt /\ p1 = p + 1 /\ Same
  <2>1. l = 2
    BY <1>1, <1>5, <1>11
  <2>2. c = Wr(Mdat(n)) /\ p \in {0, MdatAt} /\ p1 = p + 1 /\ Same
    BY <1>1, <1>6, <1>11, <2>1, Zenon
  <2> QED
    BY <1>7, <1>9, <2>2, Zenon
<1>12. CASE k = 2 /\ p1 = e /\ Same
  <2>1. l = 3
    BY <1>1, <1>5, <1>12
  <2>2. c = Sk(p1)
    BY <1>1, <1>6, <1>12, <2>1, Zenon
  <2> QED
    BY <1>8, <1>12, <2>2, Zenon
<1>13. CASE k = 3 /\ p1 = 0 /\ Same
  <2>1. l = 4
    BY <1>1, <1>5, <1>13
  <2>2. c = Sk(p1)
    BY <1>1, <1>6, <1>13, <2>1, Zenon
  <2> QED
    BY <1>8, <1>13, <2>2, Zenon
<1>14. CASE k = 4 /\ p = 0 /\ p1 = p + 1 /\ Same
  <2>1. l = 5
    BY <1>1, <1>5, <1>14
  <2>2. c = Wr(Moov(8)) /\ p \in {0, MdatAt} /\ p1 = p + 1 /\ Same
    BY <1>1, <1>6, <1>14, <2>1, Zenon
  <2> QED
    BY <1>7, <1>9, <2>2, Zenon
<1>15. CASE /\ k - 4 \in 1..r1 /\ p = k - 4 /\ p1 = p + 1
            /\ a = k - 4 /\ a1 = a + 1 /\ s = 0 /\ s1 = 0 /\ t = 0 /\ t1 = 0
  <2>1. r1 > 0 /\ l = 5 + p /\ p \in 1..r1
    BY <1>1, <1>5, <1>15
  <2>2. c = Wr(TrakAt(ord, tb, 1, 0, p))
    BY <1>2, <1>6, <2>1, Zenon
  <2>3. a = p /\ a1 = p + 1
    BY <1>15, Zenon
  <2> QED
    BY <1>15, <2>1, <2>2, <2>3, Zenon DEF Move
<1>16. CASE r1 > 0 /\ k = 5 + r1 /\ p1 = 1 /\ Same
  <2>1. l = 5 + (r1 + 1)
    BY <1>1, <1>5, <1>16
  <2>2. c = Sk(p1)
    BY <1>2, <1>6, <1>16, <2>1, Zenon
  <2> QED
    BY <1>8, <1>16, <2>2, Zenon
<1>17. CASE /\ r1 > 0 /\ k = 6 + r1 /\ p = 1 /\ p1 = p + 1
            /\ a = 1 + r1 /\ a1 = a /\ s = 0 /\ s1 = r1 /\ t = 0 /\ t1 = 0
  <2>1. l = 5 + (r1 + 2)
    BY <1>1, <1>5, <1>17
  <2>2. c = Wr(TrakAt(ord, tb, 1, r1, 1))
    BY <1>2, <1>6, <1>17, <2>1, Zenon
  <2> QED
    BY <1>17, <2>2, Zenon DEF Move
<1>18. CASE r1 > 0 /\ k = 7 + r1 /\ p1 = 1 + r1 /\ Same
  <2>1. l = 5 + (r1 + 3)
    BY <1>1, <1>5, <1>18
  <2>2. c = Sk(p1)
    BY <1>2, <1>6, <1>18, <2>1, Zenon
  <2> QED
    BY <1>8, <1>18, <2>2, Zenon
<1>19. CASE /\ k + 1 - b2 \in 1..r2 /\ p = r1 + (k + 1 - b2) /\ p1 = p + 1
            /\ a = p /\ a1 = a + 1 /\ s = r1 /\ s1 = r1 /\ t = 0 /\ t1 = 0
  <2> DEFINE j == k + 1 - b2
  <2>1. r2 > 0 /\ l = b2 + j /\ j \in 1..r2
    BY <1>1, <1>5, <1>19
  <2>2. a = p /\ a1 = p + 1 /\ p = r1 + j
    BY <1>19, Zenon
  <2> HIDE DEF j
  <2>3. c = Wr(TrakAt(ord, tb, 2, 0, j))
    BY <1>3, <1>6, <2>1, Zenon
  <2> QED
    BY <1>19, <2>1, <2>2, <2>3, Zenon DEF Move
<1>20. CASE r2 > 0 /\ k = b2 + r2 /\ p1 = 1 + r1 /\ Same
  <2>1. l = b2 + (r2 + 1)
    BY <1>1, <1>5, <1>20
  <2>2. c = Sk(p1)
    BY <1>3, <1>6, <1>20, <2>1, Zenon
  <2> QED
    BY <1>8, <1>20, <2>2, Zenon
<1>21. CASE /\ r2 > 0 /\ k = b2 + r2 + 1 /\ p = 1 + r1 /\ p1 = p + 1
            /\ a = 1 + r1 + r2 /\ a1 = a /\ s = r1 /\ s1 = r1 /\ t = 0 /\ t1 = r2
  <2>1. l = b2 + (r2 + 2)
    BY <1>1, <1>5, <1>21
  <2>2. c = Wr(TrakAt(ord, tb, 2, r2, 1))
    BY <1>3, <1>6, <1>21, <2>1, Zenon
  <2> QED
    BY <1>21, <2>2, Zenon DEF Move
<1>22. CASE r2 > 0 /\ k = b2 + r2 + 2 /\ p1 = 1 + r1 + r2 /\ Same
  <2>1. l = b2 + (r2 + 3)
    BY <1>1, <1>5, <1>22
  <2>2. c = Sk(p1)
    BY <1>3, <1>6, <1>22, <2>1, Zenon
  <2> QED
    BY <1>8, <1>22, <2>2, Zenon
<1>23. CASE k = b3 /\ p1 = 0 /\ Same
  <2>1. l = b3 + 1
    BY <1>1, <1>5, <1>23
  <2>2. c = Sk(p1)
    BY <1>1, <1>6, <1>23, <2>1, Zenon
  <2> QED
    BY <1>8, <1>23, <2>2, Zenon
<1>24. CASE k = b3 + 1 /\ p = 0 /\ p1 = p + 1 /\ Same
  <2>1. l = b3 + 2
    BY <1>1, <1>5, <1>24
  <2>2. c = Wr(Moov(1 + r1 + r2)) /\ p \in {0, MdatAt} /\ p1 = p + 1 /\ Same
    BY <1>1, <1>6, <1>24, <2>1, Zenon
  <2> QED
    BY <1>7, <1>9, <2>2, Zenon
<1>25. CASE k = b3 + 2 /\ p1 = 1 + r1 + r2 /\ Same
  <2>1. l = b3 + 3
    BY <1>1, <1>5, <1>25
  <2>2. c = Sk(p1)
    BY <1>1, <1>6, <1>25, <2>1, Zenon
  <2> QED
    BY <1>8, <1>25, <2>2, Zenon
<1>26. CASE /\ k = b3 + 3 /\ p = 1 + r1 + r2 /\ p1 = p + 1
            /\ a = p /\ a1 = a + 1 /\ s = r1 /\ s1 = r1 /\ t = r2 /\ t1 = r2
  <2>1. l = b3 + 4
    BY <1>1, <1>5, <1>26
  <2>2. c = Wr(Skip) /\ a1 = p + 1
    BY <1>1, <1>6, <1>26, <2>1, Zenon
  <2> QED
    BY <1>26, <2>2, Zenon DEF Move
<1>27. CASE k = b3 + 4 /\ p1 = e /\ Same
  <2>1. l = b3 + 5
    BY <1>1, <1>5, <1>27
  <2>2. c = Sk(p1)
    BY <1>1, <1>6, <1>27, <2>1, Zenon
  <2> QED
    BY <1>8, <1>27, <2>2, Zenon
<1>28. G
  <2> HIDE DEF G
  <2> QED
    BY <1>4, <1>10, <1>11, <1>12, <1>13, <1>14, <1>15, <1>16, <1>17, <1>18, <1>19, <1>20, <1>21,
       <1>22, <1>23, <1>24, <1>25, <1>26, <1>27, Zenon
<1> QED
  BY <1>28, Zenon

\* Every call of a rewriting is one of those moves.
LEMMA CallMoves ==
  ASSUME NEW ord \in Orders, NEW tb \in [Tracks -> Seq(Entry)],
         Len(tb[Video]) + Len(tb[Audio]) <= MaxSamples,
         NEW n \in Nat, NEW e \in Nat,
         NEW q, q = mov_writer_update_moov(ord, tb, n, e),
         NEW r1, r1 = Room(ord, tb, 1), NEW r2, r2 = Room(ord, tb, 2),
         NEW k \in Nat, k < Len(q)
  PROVE  Move(ord, tb, r1, r2, q[k + 1],
              PosAfter(r1, r2, e, k), PosAfter(r1, r2, e, k + 1),
              EdgeAfter(r1, r2, k), EdgeAfter(r1, r2, k + 1),
              Size1After(r1, k), Size1After(r1, k + 1),
              Size2After(r1, r2, k), Size2After(r1, r2, k + 1))
<1> DEFINE c1 == Calls(r1)
           c2 == Calls(r2)
           b2 == 5 + c1
           b3 == b2 + c2
<1>1. c1 = Calls(r1) /\ c2 = Calls(r2) /\ b2 = 5 + c1 /\ b3 = b2 + c2
  OBVIOUS
<1> HIDE DEF c1, c2, b2, b3
<1>2. AreCalls(ord, tb, n, e, q, r1, r2, c1, c2, b2, b3)
  BY <1>1, CallsAre, Zenon
<1>3. r1 \in Nat /\ r2 \in Nat /\ c1 \in Nat /\ c2 \in Nat /\ Len(q) = b3 + 5
  BY <1>2, Zenon DEF AreCalls
<1>4. Bases(c1, c2, b2, b3)
  BY <1>1, <1>3, Zenon DEF Bases
<1>5. CallList(ord, tb, n, e, q, r1, r2, b2, b3)
  BY <1>1, <1>2, <1>4, CallListIs, Zenon
<1>6. MdatAt \in Nat
  BY IndexAssumption DEF MdatAt
<1>7. Positions(r1, r2, b2, b3, e, k)
  BY <1>1, <1>3, <1>6, PositionsAre, Zenon
<1> QED
  BY <1>5, <1>7, MoveIs, Zenon

\* The header's size is in the header only.
LEMMA OtherCells ==
  ASSUME NEW ord, NEW tb, NEW i, NEW j, j # 1, NEW s, NEW z
  PROVE  TrakAt(ord, tb, i, s, j) = TrakAt(ord, tb, i, z, j)
  BY DEF TrakAt, TrakCell

\* What is in its place stays so as long as the cell is the same, and, of the
\* headers, the size.
LEMMA CellStays ==
  ASSUME NEW ord, NEW tb, NEW v, NEW w, NEW s, NEW s1, NEW t, NEW t1, NEW y \in Nat,
         Second(ord, tb) \in Nat,
         v[y] = w[y], y = 1 => s = s1, y = Second(ord, tb) => t = t1,
         IsCell(v, ord, tb, s, t, y)
  PROVE  IsCell(w, ord, tb, s1, t1, y)
<1> DEFINE x == Second(ord, tb)
<1>1. /\ y < x => w[y] = TrakAt(ord, tb, 1, s, y)
      /\ y >= x /\ y < End(ord, tb) => w[y] = TrakAt(ord, tb, 2, t, y - x + 1)
      /\ y >= End(ord, tb) => Blank(w[y])
  BY Zenon DEF IsCell
<1>2. TrakAt(ord, tb, 1, s, y) = TrakAt(ord, tb, 1, s1, y)
  BY OtherCells, Zenon
<1>3. TrakAt(ord, tb, 2, t, y - x + 1) = TrakAt(ord, tb, 2, t1, y - x + 1)
  <2>1. y # x => y - x + 1 # 1
    <3>1. x \in Nat
      OBVIOUS
    <3> HIDE DEF x
    <3> QED
      BY <3>1
  <2> QED
    BY <2>1, OtherCells, Zenon
<1> QED
  BY <1>1, <1>2, <1>3, Zenon DEF IsCell

\* Every write of a rewriting takes the mixture one move further.
LEMMA MixedStep ==
  ASSUME NEW ord, NEW tb0, NEW tb, NEW r1 \in Nat, NEW r2 \in Nat,
         r1 = Room(ord, tb, 1), r2 = Room(ord, tb, 2), (1 + r1) + r2 < MdatAt,
         NEW c, NEW p, NEW p1, NEW a, NEW a1, NEW s, NEW s1, NEW t, NEW t1,
         NEW d \in Contents, NEW v, c = Wr(v),
         Move(ord, tb, r1, r2, c, p, p1, a, a1, s, s1, t, t1),
         Mixed(d, ord, tb0, tb, a, s, t)
  PROVE  Mixed(Put(d, p, <<v>>), ord, tb0, tb, a1, s1, t1)
<1> DEFINE w == Put(d, p, <<v>>)
           x == Second(ord, tb)
           z == End(ord, tb)
<1>1. x = 1 + r1 /\ z = (1 + r1) + r2
  BY DEF Second, End
<1>2. MdatAt \in Nat /\ \A y \in 1..(MdatAt - 1) : y \in Addr /\ y \in Nat
  <2>1. MoovCap \in Nat /\ MaxSamples * MaxLen \in Nat /\ Addr = 0..(MoovCap + MaxSamples * MaxLen)
    BY IndexAssumption
  <2> DEFINE m == MaxSamples * MaxLen
  <2>2. m \in Nat /\ Addr = 0..(MoovCap + m)
    BY <2>1
  <2> HIDE DEF m
  <2> QED
    BY <2>1, <2>2 DEF MdatAt
<1>3. p \in Nat => \A y \in Addr : w[y] = IF y = p THEN v ELSE d[y]
  <2> SUFFICES ASSUME p \in Nat, NEW y \in Addr
               PROVE  w[y] = IF y = p THEN v ELSE d[y]
    OBVIOUS
  <2> DEFINE u == <<v>>
  <2>1. Len(u) = 1 /\ u[1] = v
    OBVIOUS
  <2>2. w[y] = IF p <= y /\ y < p + 1 THEN u[y - p + 1] ELSE d[y]
    <3>1. w = Put(d, p, u)
      OBVIOUS
    <3> HIDE DEF u, w
    <3>2. w[y] = IF p <= y /\ y < p + Len(u) THEN u[y - p + 1] ELSE d[y]
      BY <3>1, PutAt, Zenon
    <3> QED
      BY <2>1, <3>2
  <2>3. y \in Nat
    BY FileAssumption
  <2>4. (p <= y /\ y < p + 1) <=> y = p
    BY <2>3
  <2>5. y = p => y - p + 1 = 1
    BY <2>3
  <2> HIDE DEF w, u
  <2> QED
    BY <2>1, <2>2, <2>4, <2>5
<1> SUFFICES ASSUME NEW y \in 1..(MdatAt - 1)
             PROVE  /\ y < a1 => IsCell(w, ord, tb, s1, t1, y)
                    /\ y >= a1 => Old(w, ord, tb0, y)
  BY DEF Mixed
<1>4. y \in Addr /\ y \in Nat /\ y >= 1 /\ y < MdatAt
  BY <1>2
<1>5. y < a => IsCell(d, ord, tb, s, t, y)
  BY Zenon DEF Mixed
<1>6. y >= a => Old(d, ord, tb0, y)
  BY Zenon DEF Mixed
<1> HIDE DEF w, x, z
<1>7. p \in Nat => w[p] = v \/ p \notin Addr
  BY <1>3, Zenon
<1>8. p \in Nat /\ y # p => w[y] = d[y]
  BY <1>3, <1>4, Zenon
<1>9. p \in Nat /\ y = p => w[y] = v
  BY <1>3, <1>4, Zenon
<1>10. x \in Nat
  BY <1>1
<1>11. ASSUME NEW S, NEW T, y < a, p \in Nat, y # p, y = 1 => s = S, y = x => t = T
       PROVE  IsCell(w, ord, tb, S, T, y)
  BY <1>4, <1>5, <1>8, <1>10, <1>11, CellStays, Zenon DEF x
<1>12. ASSUME y >= a, p \in Nat, y # p
       PROVE  Old(w, ord, tb0, y)
  BY <1>6, <1>8, <1>12, Zenon DEF Old, IsCell
<1>13. \A u \in Cell : Wr(u).cell = u
  BY DEF Wr
<1>14. ASSUME NEW u, c = Wr(u) PROVE v = u
  BY <1>14 DEF Wr
<1> DEFINE Same == a1 = a /\ s1 = s /\ t1 = t
<1>15. ~(c = Sk(p1))
  BY DEF Wr, Sk
<1>16. CASE p \in {0, MdatAt} /\ Same
  <2>1. p \in Nat /\ y # p
    BY <1>2, <1>4, <1>16
  <2> QED
    BY <1>11, <1>12, <1>16, <2>1, Zenon
<1>17. CASE /\ p \in 1..r1 /\ c = Wr(TrakAt(ord, tb, 1, 0, p)) /\ p1 = p + 1
            /\ a = p /\ a1 = p + 1 /\ s = 0 /\ s1 = 0 /\ t = 0 /\ t1 = 0
  <2>1. p \in Nat /\ a \in Nat /\ p < x /\ p >= 1
    BY <1>1, <1>17
  <2>2. CASE y = p
    <3>1. w[y] = TrakAt(ord, tb, 1, 0, p)
      BY <1>9, <1>14, <1>17, <2>1, <2>2, Zenon
    <3>2. ~(y >= x) /\ ~(y >= z) /\ ~(y >= a1)
      BY <1>1, <1>17, <2>1, <2>2
    <3> QED
      BY <1>17, <2>2, <3>1, <3>2, Zenon DEF IsCell, x, z
  <2>3. CASE y # p
    <3>1. /\ y < a1 => y < a
          /\ y >= a1 => y >= a
      BY <1>4, <1>17, <2>1, <2>3
    <3> QED
      BY <1>11, <1>12, <1>17, <2>1, <2>3, <3>1, Zenon
  <2> QED
    BY <2>2, <2>3
<1>18. CASE /\ r1 > 0 /\ p = 1 /\ c = Wr(TrakAt(ord, tb, 1, r1, 1)) /\ p1 = p + 1
            /\ a = 1 + r1 /\ a1 = a /\ s = 0 /\ s1 = r1 /\ t = 0 /\ t1 = 0
  <2>1. p \in Nat /\ a \in Nat /\ p < x /\ x = a
    BY <1>1, <1>18
  <2>2. CASE y = p
    <3>1. w[y] = TrakAt(ord, tb, 1, r1, 1)
      BY <1>9, <1>14, <1>18, <2>1, <2>2, Zenon
    <3>2. ~(y >= x) /\ ~(y >= z) /\ ~(y >= a1) /\ y = 1
      BY <1>1, <1>18, <2>1, <2>2
    <3> QED
      BY <1>18, <3>1, <3>2, Zenon DEF IsCell, x, z
  <2>3. CASE y # p
    <3>1. y # 1 /\ (y = x => t = t1)
      BY <1>18, <2>3
    <3> QED
      BY <1>11, <1>12, <1>18, <2>1, <2>3, <3>1, Zenon
  <2> QED
    BY <2>2, <2>3
<1>19. CASE /\ \E j \in 1..r2 : p = r1 + j /\ c = Wr(TrakAt(ord, tb, 2, 0, j))
            /\ p1 = p + 1
            /\ a = p /\ a1 = p + 1 /\ s = r1 /\ s1 = r1 /\ t = 0 /\ t1 = 0
  <2>0. PICK j \in 1..r2 : p = r1 + j /\ c = Wr(TrakAt(ord, tb, 2, 0, j))
    BY <1>19, Zenon
  <2>1. p \in Nat /\ a \in Nat /\ p >= x /\ p < z /\ p - x + 1 = j
    BY <1>1, <1>19, <2>0
  <2>2. CASE y = p
    <3>1. w[y] = TrakAt(ord, tb, 2, 0, p - x + 1)
      BY <1>9, <1>14, <2>0, <2>1, <2>2, Zenon
    <3>2. ~(y < x) /\ ~(y >= z) /\ ~(y >= a1)
      BY <1>1, <1>19, <2>1, <2>2
    <3> QED
      BY <1>19, <2>2, <3>1, <3>2, Zenon DEF IsCell, x, z
  <2>3. CASE y # p
    <3>1. /\ y < a1 => y < a
          /\ y >= a1 => y >= a
      BY <1>4, <1>19, <2>1, <2>3
    <3> QED
      BY <1>11, <1>12, <1>19, <2>1, <2>3, <3>1, Zenon
  <2> QED
    BY <2>2, <2>3
<1>20. CASE /\ r2 > 0 /\ p = 1 + r1 /\ c = Wr(TrakAt(ord, tb, 2, r2, 1)) /\ p1 = p + 1
            /\ a = 1 + r1 + r2 /\ a1 = a /\ s = r1 /\ s1 = r1 /\ t = 0 /\ t1 = r2
  <2>1. p \in Nat /\ a \in Nat /\ p = x /\ z = a /\ p < z /\ p - x + 1 = 1
    BY <1>1, <1>20
  <2>2. CASE y = p
    <3>1. w[y] = TrakAt(ord, tb, 2, r2, p - x + 1)
      BY <1>9, <1>14, <1>20, <2>1, <2>2, Zenon
    <3>0. p \in Nat /\ z \in Nat /\ ~(p < p) /\ ~(p >= z)
      BY <2>1
    <3>2. ~(y < x) /\ ~(y >= z)
      BY <2>1, <2>2, <3>0, Zenon
    <3>3. a1 = z
      BY <1>20, <2>1, Zenon
    <3> QED
      BY <1>20, <2>2, <3>1, <3>2, <3>3, Zenon DEF IsCell, x, z
  <2>3. CASE y # p
    <3>1. y # x /\ s = s1
      BY <1>20, <2>1, <2>3
    <3> QED
      BY <1>11, <1>12, <1>20, <2>1, <2>3, <3>1, Zenon
  <2> QED
    BY <2>2, <2>3
<1>21. CASE /\ p = 1 + r1 + r2 /\ c = Wr(Skip) /\ p1 = p + 1
            /\ a = p /\ a1 = p + 1 /\ s = r1 /\ s1 = r1 /\ t = r2 /\ t1 = r2
  <2>1. p \in Nat /\ a \in Nat /\ p = z /\ p >= x
    BY <1>1, <1>21
  <2>2. CASE y = p
    <3>1. Blank(w[y])
      BY <1>9, <1>14, <1>21, <2>1, <2>2 DEF Blank
    <3>2. ~(y < x) /\ ~(y < z) /\ ~(y >= a1)
      BY <1>1, <1>21, <2>1, <2>2
    <3> QED
      BY <3>1, <3>2, Zenon DEF IsCell, x, z
  <2>3. CASE y # p
    <3>1. /\ y < a1 => y < a
          /\ y >= a1 => y >= a
      BY <1>4, <1>21, <2>1, <2>3
    <3> QED
      BY <1>11, <1>12, <1>21, <2>1, <2>3, <3>1, Zenon
  <2> QED
    BY <2>2, <2>3
<1> QED
  BY <1>15, <1>16, <1>17, <1>18, <1>19, <1>20, <1>21, Zenon DEF Move

\* How far a rewriting can have come, with the sizes that are in place.
Stage(r1, r2, a, s1, s2) ==
  /\ r1 \in Nat /\ r2 \in Nat /\ a \in Nat /\ a >= 1 /\ a <= 2 + r1 + r2
  /\ s1 \in {0, r1} /\ s2 \in {0, r2}
  /\ s1 # r1 => a <= 1 + r1
  /\ s1 = r1 /\ r1 > 0 => a >= 1 + r1
  /\ s2 # r2 => a <= 1 + r1 + r2
  /\ s2 = r2 /\ r2 > 0 => a >= 1 + r1 + r2

\* So it is after any number of its calls.
LEMMA StageIs ==
  ASSUME NEW r1 \in Nat, NEW r2 \in Nat, NEW k \in Nat
  PROVE  Stage(r1, r2, EdgeAfter(r1, r2, k), Size1After(r1, k), Size2After(r1, r2, k))
<1> DEFINE c1 == Calls(r1)
           c2 == Calls(r2)
           b2 == 5 + c1
           b3 == b2 + c2
           a == EdgeAfter(r1, r2, k)
           s == Size1After(r1, k)
           t == Size2After(r1, r2, k)
<1>1. c1 \in Nat /\ c2 \in Nat /\ (r1 = 0 => c1 = 0) /\ (r1 > 0 => c1 = r1 + 3)
      /\ (r2 = 0 => c2 = 0) /\ (r2 > 0 => c2 = r2 + 3)
  BY DEF Calls
<1>2. /\ k <= 5 => a = 1
      /\ k >= 5 /\ k <= 5 + r1 => a = k - 4
      /\ k >= 5 + r1 /\ k <= b2 => a = 1 + r1
      /\ k >= b2 /\ k <= b2 + r2 => a = 1 + r1 + (k - b2)
      /\ k >= b2 + r2 /\ k <= b3 => a = 1 + r1 + r2
      /\ k >= b3 /\ k <= b3 + 3 => a = 1 + r1 + r2
      /\ k >= b3 + 4 => a = 2 + r1 + r2
  BY EdgeIs
<1>3. /\ s = IF k >= 5 + r1 + 2 THEN r1 ELSE 0
      /\ t = IF k >= b2 + r2 + 2 THEN r2 ELSE 0
  BY DEF Size1After, Size2After
<1>4. b2 = 5 + c1 /\ b3 = b2 + c2 /\ b2 \in Nat /\ b3 \in Nat
  BY <1>1
<1> HIDE DEF c1, c2, b2, b3, a, s, t
<1>5. a \in Nat /\ a >= 1 /\ a <= 2 + r1 + r2
  BY <1>1, <1>2, <1>4
<1>6. s # r1 => a <= 1 + r1
  BY <1>1, <1>2, <1>3, <1>4
<1>7. s = r1 /\ r1 > 0 => a >= 1 + r1
  BY <1>1, <1>2, <1>3, <1>4
<1>8. t # r2 => a <= 1 + r1 + r2
  BY <1>1, <1>2, <1>3, <1>4
<1>9. t = r2 /\ r2 > 0 => a >= 1 + r1 + r2
  BY <1>1, <1>2, <1>3, <1>4
<1>10. s \in {0, r1} /\ t \in {0, r2}
  BY <1>3, Zenon
<1> QED
  BY <1>5, <1>6, <1>7, <1>8, <1>9, <1>10, Zenon DEF Stage, a, s, t

-----------------------------------------------------------------------------
(* What a reader makes of the front of the file.                           *)

\* The front of the file is among the addresses.
LEMMA FrontAddr ==
  MdatAt \in Nat /\ \A y \in Nat : y <= MdatAt => y \in Addr
<1>1. MoovCap \in Nat /\ MaxSamples * MaxLen \in Nat /\ Addr = 0..(MoovCap + MaxSamples * MaxLen)
  BY IndexAssumption
<1> DEFINE m == MaxSamples * MaxLen
<1>2. m \in Nat /\ Addr = 0..(MoovCap + m)
  BY <1>1
<1> HIDE DEF m
<1> QED
  BY <1>1, <1>2 DEF MdatAt

\* The kind of a cell.
LEMMA CellKind ==
  ASSUME NEW d, NEW x \in Addr, d[x] \in Cell
  PROVE  Kind(d, x) = d[x][1]
  BY FileAssumption DEF Kind

\* The cells of a track, by their places.
TrakCellIs(c, t, es, size, j) ==
  LET n == Len(es) IN
  /\ c \in Cell
  /\ j = 1 => c[1] = "trak" /\ c[2] = t /\ c[3] = size
  /\ j = 2 => c[1] = "stsz" /\ c[2] = n
  /\ j \in 3..(2 + n) => c[1] = "len" /\ c[2] = es[j - 2].len /\ c[3] = es[j - 2].key
  /\ j = 3 + n => c[1] = "stco" /\ c[2] = n
  /\ j > 3 + n => c[1] = "off" /\ c[2] = es[j - 3 - n].off

\* The boxes of a track are such cells.
LEMMA TrakKinds ==
  ASSUME NEW t \in Nat, NEW es \in Seq(Entry), NEW size \in Nat,
         NEW j \in 1..TrakCells(Len(es))
  PROVE  TrakCellIs(TrakCell(t, es, size, j), t, es, size, j)
<1> DEFINE n == Len(es)
           c == TrakCell(t, es, size, j)
<1>1. n \in Nat /\ j \in 1..(3 + 2 * n)
  BY LenProperties DEF TrakCells
<1>2. c \in Cell
  BY TrakCellType
<1>3. c = CASE j = 1 -> Trak(t, size)
            [] j = 2 -> Stsz(n)
            [] j \in 3..(2 + n) -> Size(es[j - 2])
            [] j = 3 + n -> Stco(n)
            [] OTHER -> Place(es[j - 3 - n])
  BY DEF TrakCell
<1> HIDE DEF n, c
<1>4. j = 1 => c[1] = "trak" /\ c[2] = t /\ c[3] = size
  <2>1. j = 1 => c = Trak(t, size)
    BY <1>1, <1>3
  <2> QED
    BY <2>1 DEF Trak
<1>5. j = 2 => c[1] = "stsz" /\ c[2] = n
  <2>1. j = 2 => c = Stsz(n)
    BY <1>1, <1>3
  <2> QED
    BY <2>1 DEF Stsz
<1>6. j \in 3..(2 + n) => c[1] = "len" /\ c[2] = es[j - 2].len /\ c[3] = es[j - 2].key
  <2>1. j \in 3..(2 + n) => c = Size(es[j - 2])
    BY <1>1, <1>3
  <2> QED
    BY <2>1 DEF Size
<1>7. j = 3 + n => c[1] = "stco" /\ c[2] = n
  <2>1. j = 3 + n => c = Stco(n)
    BY <1>1, <1>3
  <2> QED
    BY <2>1 DEF Stco
<1>8. j > 3 + n => c[1] = "off" /\ c[2] = es[j - 3 - n].off
  <2>1. j > 3 + n => c = Place(es[j - 3 - n])
    BY <1>1, <1>3
  <2> QED
    BY <2>1 DEF Place
<1> QED
  BY <1>2, <1>4, <1>5, <1>6, <1>7, <1>8, Zenon DEF TrakCellIs, n, c

\* The boxes in a track whose box is at x.
Body(d, x, t, es) ==
  \A j \in 2..TrakCells(Len(es)) : d[x + j - 1] = TrakCell(t, es, 0, j)

\* They are read as they were written.
LEMMA BodyRead ==
  ASSUME NEW d \in Contents, NEW x \in Nat, NEW t \in Nat, NEW es \in Seq(Entry),
         x + TrakCells(Len(es)) <= MdatAt, Body(d, x, t, es)
  PROVE  /\ TrackWhole(d, x) /\ TrackEntries(d, x) = es
         /\ d[x + 1][2] = Len(es) /\ After(d, x) = x + TrakCells(Len(es))
<1> DEFINE n == Len(es)
           r == TrakCells(n)
<1>1. n \in Nat /\ r = 3 + 2 * n
  BY LenProperties DEF TrakCells
<1>2. MdatAt \in Nat /\ \A y \in Nat : y <= MdatAt => y \in Addr
  BY FrontAddr
<1> DEFINE m == MdatAt
<1>3. x + r <= m /\ m \in Nat
  BY <1>2
<1>4. ASSUME NEW j \in 2..r
      PROVE  /\ x + j - 1 \in Addr
             /\ TrakCellIs(d[x + j - 1], t, es, 0, j)
             /\ Kind(d, x + j - 1) = d[x + j - 1][1]
  <2>1. d[x + j - 1] = TrakCell(t, es, 0, j)
    BY DEF Body
  <2>2. j \in 1..r /\ x + j - 1 \in Nat /\ x + j - 1 <= m
    <3> HIDE DEF r, n, m
    <3> QED
      BY <1>1, <1>3
  <2>3. x + j - 1 \in Addr
    BY <1>2, <2>2
  <2>4. TrakCellIs(d[x + j - 1], t, es, 0, j)
    <3>1. 0 \in Nat
      OBVIOUS
    <3> QED
      BY <2>1, <2>2, <3>1, TrakKinds
  <2>5. Kind(d, x + j - 1) = d[x + j - 1][1]
    BY <2>3, <2>4, CellKind DEF TrakCellIs
  <2> QED
    BY <2>3, <2>4, <2>5
<1>5. ASSUME NEW j \in 2..r
      PROVE  LET y == x + j - 1 IN
             /\ j = 2 => Kind(d, y) = "stsz" /\ d[y][2] = n
             /\ j \in 3..(2 + n) => Kind(d, y) = "len" /\ d[y][2] = es[j - 2].len /\ d[y][3] = es[j - 2].key
             /\ j = 3 + n => Kind(d, y) = "stco" /\ d[y][2] = n
             /\ j > 3 + n => Kind(d, y) = "off" /\ d[y][2] = es[j - 3 - n].off
  BY <1>4, Zenon DEF TrakCellIs
<1> HIDE DEF n, r, m
<1>6. Kind(d, x + 1) = "stsz" /\ d[x + 1][2] = n
  <2>1. 2 \in 2..r /\ x + 2 - 1 = x + 1
    BY <1>1
  <2> QED
    BY <1>5, <2>1
<1>7. ASSUME NEW i \in 1..n
      PROVE  /\ Kind(d, x + 1 + i) = "len" /\ d[x + 1 + i][2] = es[i].len /\ d[x + 1 + i][3] = es[i].key
             /\ Kind(d, x + 2 + n + i) = "off" /\ d[x + 2 + n + i][2] = es[i].off
  <2> DEFINE j == i + 2
             k == i + 3 + n
  <2>1. /\ j \in 2..r /\ j \in 3..(2 + n) /\ j - 2 = i /\ x + j - 1 = x + 1 + i
        /\ k \in 2..r /\ k > 3 + n /\ k - 3 - n = i /\ x + k - 1 = x + 2 + n + i
    BY <1>1
  <2> HIDE DEF j, k
  <2>2. Kind(d, x + j - 1) = "len" /\ d[x + j - 1][2] = es[j - 2].len /\ d[x + j - 1][3] = es[j - 2].key
    BY <1>5, <2>1
  <2>3. Kind(d, x + k - 1) = "off" /\ d[x + k - 1][2] = es[k - 3 - n].off
    BY <1>5, <2>1
  <2> QED
    BY <2>1, <2>2, <2>3
<1>8. Kind(d, x + 2 + n) = "stco" /\ d[x + 2 + n][2] = n
  <2> DEFINE j == 3 + n
  <2>1. j \in 2..r /\ x + j - 1 = x + 2 + n
    BY <1>1
  <2>2. j = 3 + n
    OBVIOUS
  <2> HIDE DEF j
  <2>3. Kind(d, x + j - 1) = "stco" /\ d[x + j - 1][2] = n
    BY <1>5, <2>1, <2>2
  <2> QED
    BY <2>1, <2>3
<1>9. TrackWhole(d, x)
  BY <1>6, <1>7, <1>8 DEF TrackWhole
<1>10. TrackEntries(d, x) = es
  <2>1. TrackEntries(d, x) = [i \in 1..n |-> [off |-> d[x + 2 + n + i][2],
                                              len |-> d[x + 1 + i][2],
                                              key |-> d[x + 1 + i][3]]]
    BY <1>6 DEF TrackEntries
  <2>2. TrackEntries(d, x) = [i \in 1..n |-> [off |-> es[i].off, len |-> es[i].len, key |-> es[i].key]]
    BY <1>7, <2>1
  <2>3. \A i \in 1..n : es[i] \in Entry
    BY ElementOfSeq DEF n
  <2>4. \A i \in 1..n : [off |-> es[i].off, len |-> es[i].len, key |-> es[i].key] = es[i]
    BY <2>3 DEF Entry
  <2>5. TrackEntries(d, x) = [i \in 1..n |-> es[i]]
    BY <2>2, <2>4
  <2>6. es = [i \in 1..n |-> es[i]]
    BY LenProperties DEF n
  <2> QED
    BY <2>5, <2>6
<1>11. After(d, x) = x + r
  BY <1>6 DEF After, r
<1> QED
  BY <1>6, <1>9, <1>10, <1>11 DEF n, r

-----------------------------------------------------------------------------
(* A table that has grown, and the mixture of its two indexes.             *)

\* The rooms of the tracks of an index: a second one only behind a first.
Shape(ord, tb, r1, r2) ==
  /\ r1 = Room(ord, tb, 1) /\ r2 = Room(ord, tb, 2)
  /\ r1 \in Nat /\ r2 \in Nat /\ (r1 = 0 => r2 = 0)
  /\ r1 > 0 => /\ ord[1] \in Tracks /\ Len(tb[ord[1]]) \in Nat /\ Len(tb[ord[1]]) >= 1
               /\ r1 = 3 + 2 * Len(tb[ord[1]])
  /\ r2 > 0 => /\ ord[2] \in Tracks /\ Len(tb[ord[2]]) \in Nat /\ Len(tb[ord[2]]) >= 1
               /\ r2 = 3 + 2 * Len(tb[ord[2]])

\* The room of a track.
LEMMA RoomIs ==
  ASSUME NEW ord \in Orders, NEW tb \in [Tracks -> Seq(Entry)], NEW i \in {1, 2}
  PROVE  LET r == Room(ord, tb, i) IN
         /\ r \in Nat
         /\ r > 0 <=> Present(ord, tb, i)
         /\ r > 0 => /\ ord[i] \in Tracks /\ Len(tb[ord[i]]) \in Nat /\ Len(tb[ord[i]]) >= 1
                     /\ r = 3 + 2 * Len(tb[ord[i]])
<1>1. CASE Present(ord, tb, i)
  <2>1. ord[i] \in Tracks /\ tb[ord[i]] # <<>>
    BY <1>1 DEF Present, Orders, Tracks
  <2> DEFINE n == Len(tb[ord[i]])
             r == Room(ord, tb, i)
  <2>2. n \in Nat /\ n # 0
    BY <2>1, LenProperties, EmptySeq
  <2>3. r = 3 + 2 * n
    BY <1>1 DEF Room, TrakCells
  <2> HIDE DEF n, r
  <2>4. r \in Nat /\ r > 0 /\ n >= 1
    BY <2>2, <2>3
  <2> QED
    BY <1>1, <2>1, <2>2, <2>3, <2>4, Zenon DEF n, r
<1>2. CASE ~Present(ord, tb, i)
  <2>1. Room(ord, tb, i) = 0
    BY <1>2 DEF Room
  <2> QED
    BY <1>2, <2>1
<1> QED
  BY <1>1, <1>2

\* They are the rooms of an index.
LEMMA ShapeIs ==
  ASSUME NEW ord \in Orders, NEW tb \in [Tracks -> Seq(Entry)],
         Present(ord, tb, 2) => Present(ord, tb, 1),
         NEW r1, NEW r2, r1 = Room(ord, tb, 1), r2 = Room(ord, tb, 2)
  PROVE  Shape(ord, tb, r1, r2)
<1>1. 1 \in {1, 2} /\ 2 \in {1, 2}
  OBVIOUS
<1>2. /\ r1 \in Nat
      /\ r1 > 0 <=> Present(ord, tb, 1)
      /\ r1 > 0 => /\ ord[1] \in Tracks /\ Len(tb[ord[1]]) \in Nat /\ Len(tb[ord[1]]) >= 1
                   /\ r1 = 3 + 2 * Len(tb[ord[1]])
  BY <1>1, RoomIs
<1>3. /\ r2 \in Nat
      /\ r2 > 0 <=> Present(ord, tb, 2)
      /\ r2 > 0 => /\ ord[2] \in Tracks /\ Len(tb[ord[2]]) \in Nat /\ Len(tb[ord[2]]) >= 1
                   /\ r2 = 3 + 2 * Len(tb[ord[2]])
  BY <1>1, RoomIs
<1>4. r1 = 0 => r2 = 0
  <2>1. r1 = 0 => ~(r1 > 0)
    OBVIOUS
  <2>2. ~(r2 > 0) => r2 = 0
    BY <1>3
  <2> QED
    BY <1>2, <1>3, <2>1, <2>2, Zenon
<1> QED
  BY <1>2, <1>3, <1>4, Zenon DEF Shape

\* What is said by a cell at y, in its place in the index of tb.
Says(d, y, ord, tb, r1, r2, s, t) ==
  /\ Kind(d, y) = d[y][1]
  /\ y <= r1 => /\ d[y] = TrakCell(ord[1], tb[ord[1]], s, y)
                /\ TrakCellIs(d[y], ord[1], tb[ord[1]], s, y)
  /\ y > r1 /\ y <= r1 + r2 => /\ d[y] = TrakCell(ord[2], tb[ord[2]], t, y - r1)
                               /\ TrakCellIs(d[y], ord[2], tb[ord[2]], t, y - r1)
  /\ y > r1 + r2 => Kind(d, y) \in {"skip", "zero"}

\* That is what a cell says that is in its place.
LEMMA SaysIs ==
  ASSUME NEW ord, NEW tb \in [Tracks -> Seq(Entry)], NEW r1, NEW r2, Shape(ord, tb, r1, r2),
         NEW s \in Nat, NEW t \in Nat, NEW d,
         NEW y \in Nat, y >= 1, y <= MdatAt, IsCell(d, ord, tb, s, t, y)
  PROVE  Says(d, y, ord, tb, r1, r2, s, t)
<1>1. /\ r1 = Room(ord, tb, 1) /\ r2 = Room(ord, tb, 2)
      /\ r1 \in Nat /\ r2 \in Nat /\ (r1 = 0 => r2 = 0)
      /\ r1 > 0 => ord[1] \in Tracks /\ r1 = 3 + 2 * Len(tb[ord[1]])
      /\ r2 > 0 => ord[2] \in Tracks /\ r2 = 3 + 2 * Len(tb[ord[2]])
  BY Zenon DEF Shape
<1>2. y \in Addr
  BY FrontAddr
<1>3. Second(ord, tb) = 1 + r1 /\ End(ord, tb) = (1 + r1) + r2
  BY <1>1, Zenon DEF Second, End
<1>4. /\ y < Second(ord, tb) => d[y] = TrakCell(ord[1], tb[ord[1]], s, y)
      /\ y >= Second(ord, tb) /\ y < End(ord, tb)
           => d[y] = TrakCell(ord[2], tb[ord[2]], t, y - Second(ord, tb) + 1)
      /\ y >= End(ord, tb) => Blank(d[y])
  BY Zenon DEF IsCell, TrakAt
<1>5. /\ y <= r1 => y < 1 + r1
      /\ y > r1 /\ y <= r1 + r2 => y >= 1 + r1 /\ y < (1 + r1) + r2 /\ y - (1 + r1) + 1 = y - r1
      /\ y > r1 + r2 => y >= (1 + r1) + r2
  BY <1>1
<1>6. CASE y <= r1
  <2>1. d[y] = TrakCell(ord[1], tb[ord[1]], s, y)
    BY <1>3, <1>4, <1>5, <1>6, Zenon
  <2>2. r1 > 0
    BY <1>1, <1>6
  <2>3. ord[1] \in Nat /\ tb[ord[1]] \in Seq(Entry)
    BY <1>1, <2>2 DEF Tracks, Video, Audio
  <2>4. y \in 1..TrakCells(Len(tb[ord[1]]))
    BY <1>1, <1>6, <2>2 DEF TrakCells
  <2>5. TrakCellIs(d[y], ord[1], tb[ord[1]], s, y)
    BY <2>1, <2>3, <2>4, TrakKinds
  <2>6. Kind(d, y) = d[y][1]
    BY <1>2, <2>5, CellKind DEF TrakCellIs
  <2>7. ~(y > r1) /\ ~(y > r1 + r2)
    BY <1>1, <1>6
  <2> QED
    BY <2>1, <2>5, <2>6, <2>7, Zenon DEF Says
<1>7. CASE y > r1 /\ y <= r1 + r2
  <2> DEFINE j == y - r1
  <2>1. d[y] = TrakCell(ord[2], tb[ord[2]], t, j)
    BY <1>3, <1>4, <1>5, <1>7, Zenon
  <2>2. r2 > 0 /\ j \in 1..r2
    BY <1>1, <1>7
  <2>3. ord[2] \in Nat /\ tb[ord[2]] \in Seq(Entry)
    BY <1>1, <2>2 DEF Tracks, Video, Audio
  <2>4. j \in 1..TrakCells(Len(tb[ord[2]]))
    BY <1>1, <2>2 DEF TrakCells
  <2>5. TrakCellIs(d[y], ord[2], tb[ord[2]], t, j)
    <3> HIDE DEF j
    <3> QED
      BY <2>1, <2>3, <2>4, TrakKinds
  <2>6. Kind(d, y) = d[y][1]
    BY <1>2, <2>5, CellKind DEF TrakCellIs
  <2>7. ~(y <= r1) /\ ~(y > r1 + r2)
    BY <1>1, <1>7
  <2> QED
    BY <2>1, <2>5, <2>6, <2>7, Zenon DEF Says
<1>8. CASE y > r1 + r2
  <2>1. d[y] \in {Skip, Zeros}
    BY <1>3, <1>4, <1>5, <1>8, Zenon DEF Blank
  <2>2. d[y] \in Cell /\ d[y][1] \in {"skip", "zero"}
    <3>1. d[y] \in Cell
      BY <2>1, CellTypes
    <3>2. Skip[1] = "skip" /\ Zeros[1] = "zero"
      BY DEF Skip, Zeros
    <3> QED
      BY <2>1, <3>1, <3>2
  <2>3. Kind(d, y) = d[y][1]
    BY <1>2, <2>2, CellKind
  <2>4. ~(y <= r1) /\ ~(y <= r1 + r2)
    BY <1>1, <1>8
  <2> QED
    BY <2>2, <2>3, <2>4, Zenon DEF Says
<1> QED
  BY <1>1, <1>6, <1>7, <1>8

\* Tables of first samples, and later ones.
Grown(tb0, tb) ==
  \A t \in Tracks : /\ Len(tb0[t]) <= Len(tb[t])
                    /\ \A i \in 1..Len(tb0[t]) : tb0[t][i] = tb[t][i]

\* A mixture of two indexes, with all that is known of it.
Mixture(d, ord, tb0, tb, q1, q2, r1, r2, a, s, t) ==
  /\ d \in Contents
  /\ tb0 \in [Tracks -> Seq(Entry)] /\ tb \in [Tracks -> Seq(Entry)]
  /\ Shape(ord, tb0, q1, q2) /\ Shape(ord, tb, r1, r2)
  /\ Grown(tb0, tb) /\ (1 + r1) + r2 < MdatAt
  /\ Stage(r1, r2, a, s, t)
  /\ \A y \in 1..(MdatAt - 1) :
       /\ y < a => Says(d, y, ord, tb, r1, r2, s, t)
       /\ y >= a => Says(d, y, ord, tb0, q1, q2, q1, q2)

\* A rewriting makes such a mixture.
LEMMA MixtureIs ==
  ASSUME NEW d \in Contents, NEW ord,
         NEW tb0 \in [Tracks -> Seq(Entry)], NEW tb \in [Tracks -> Seq(Entry)],
         NEW q1, NEW q2, NEW r1, NEW r2, Shape(ord, tb0, q1, q2), Shape(ord, tb, r1, r2),
         Grown(tb0, tb), (1 + r1) + r2 < MdatAt,
         NEW a, NEW s, NEW t, Stage(r1, r2, a, s, t), Mixed(d, ord, tb0, tb, a, s, t)
  PROVE  Mixture(d, ord, tb0, tb, q1, q2, r1, r2, a, s, t)
<1>1. s \in Nat /\ t \in Nat
  BY DEF Stage
<1>2. q1 = Room(ord, tb0, 1) /\ q2 = Room(ord, tb0, 2) /\ q1 \in Nat /\ q2 \in Nat
  BY Zenon DEF Shape
<1>3. ASSUME NEW y \in 1..(MdatAt - 1)
      PROVE  /\ y < a => Says(d, y, ord, tb, r1, r2, s, t)
             /\ y >= a => Says(d, y, ord, tb0, q1, q2, q1, q2)
  <2>1. y \in Nat /\ y >= 1 /\ y <= MdatAt
    BY FrontAddr
  <2>2. y < a => IsCell(d, ord, tb, s, t, y)
    BY Zenon DEF Mixed
  <2>3. y >= a => IsCell(d, ord, tb0, q1, q2, y)
    BY <1>2, Zenon DEF Mixed, Old
  <2>4. y < a => Says(d, y, ord, tb, r1, r2, s, t)
    BY <1>1, <2>1, <2>2, SaysIs
  <2>5. y >= a => Says(d, y, ord, tb0, q1, q2, q1, q2)
    BY <1>2, <2>1, <2>3, SaysIs
  <2> QED
    BY <2>4, <2>5
<1> QED
  BY <1>3, Zenon DEF Mixture

\* The kinds of cells are different.
LEMMA Kinds ==
  /\ "trak" # "skip" /\ "trak" # "zero" /\ "stsz" # "skip" /\ "stsz" # "zero"
  /\ "stco" # "skip" /\ "stco" # "zero" /\ "off" # "skip" /\ "off" # "zero"
  /\ "off" # "trak" /\ "off" # "stsz" /\ "off" # "len" /\ "off" # "stco" /\ "off" # "mdat"
  /\ "stco" # "trak" /\ "stco" # "stsz" /\ "stco" # "len"
  /\ "trak" # "stsz" /\ "trak" # "len"
  /\ "stsz" # "len"
  OBVIOUS

\* Which cell of a track is of a kind.
LEMMA KindPlace ==
  ASSUME NEW c, NEW t, NEW es \in Seq(Entry), NEW size, NEW j \in Nat, j >= 1,
         TrakCellIs(c, t, es, size, j)
  PROVE  /\ c[1] = "trak" => j = 1
         /\ c[1] = "stsz" => j = 2
         /\ c[1] = "stco" => j = 3 + Len(es) /\ c[2] = Len(es)
         /\ c[1] = "off" => j > 3 + Len(es)
<1> DEFINE n == Len(es)
<1>1. n \in Nat
  BY LenProperties
<1>2. /\ j = 1 => c[1] = "trak"
      /\ j = 2 => c[1] = "stsz"
      /\ j \in 3..(2 + n) => c[1] = "len"
      /\ j = 3 + n => c[1] = "stco" /\ c[2] = n
      /\ j > 3 + n => c[1] = "off"
  BY Zenon DEF TrakCellIs
<1> HIDE DEF n
<1>3. j = 1 \/ j = 2 \/ j \in 3..(2 + n) \/ j = 3 + n \/ j > 3 + n
  BY <1>1
<1> QED
  BY <1>2, <1>3, Kinds, Zenon DEF n

\* Two tables where the second has grown from the first: the same if they are
\* as long.
LEMMA SameTable ==
  ASSUME NEW es \in Seq(Entry), NEW fs \in Seq(Entry), Len(es) = Len(fs),
         \A i \in 1..Len(fs) : fs[i] = es[i]
  PROVE  fs = es
  BY SeqEqual

\* How much room the tracks of a table take that has grown.
Rooms(ord, tb0, tb, q1, q2, r1, r2) ==
  /\ q1 \in Nat /\ q2 \in Nat /\ r1 \in Nat /\ r2 \in Nat
  /\ q1 > 0 => /\ Len(tb0[ord[1]]) >= 1 /\ Len(tb0[ord[1]]) <= Len(tb[ord[1]])
               /\ q1 = 3 + 2 * Len(tb0[ord[1]])
  /\ r1 > 0 => /\ ord[1] \in Tracks /\ ord[1] \in Nat /\ tb0[ord[1]] \in Seq(Entry) /\ tb[ord[1]] \in Seq(Entry)
               /\ Len(tb0[ord[1]]) \in Nat /\ Len(tb[ord[1]]) \in Nat /\ Len(tb[ord[1]]) >= 1
               /\ r1 = 3 + 2 * Len(tb[ord[1]])
               /\ Len(tb0[ord[1]]) = Len(tb[ord[1]]) => tb0[ord[1]] = tb[ord[1]]
  /\ q2 > 0 => /\ Len(tb0[ord[2]]) >= 1 /\ Len(tb0[ord[2]]) <= Len(tb[ord[2]])
               /\ q2 = 3 + 2 * Len(tb0[ord[2]])
  /\ r2 > 0 => /\ ord[2] \in Tracks /\ ord[2] \in Nat /\ tb0[ord[2]] \in Seq(Entry) /\ tb[ord[2]] \in Seq(Entry)
               /\ Len(tb0[ord[2]]) \in Nat /\ Len(tb[ord[2]]) \in Nat /\ Len(tb[ord[2]]) >= 1
               /\ r2 = 3 + 2 * Len(tb[ord[2]])
               /\ Len(tb0[ord[2]]) = Len(tb[ord[2]]) => tb0[ord[2]] = tb[ord[2]]
  /\ q1 <= r1 /\ q2 <= r2
  /\ r1 = 0 => r2 = 0
  /\ q1 = 0 => q2 = 0

\* Tables that name ever more of the samples take ever more room.
LEMMA RoomsAre ==
  ASSUME NEW ord \in Orders, NEW tb0 \in [Tracks -> Seq(Entry)], NEW tb \in [Tracks -> Seq(Entry)],
         NEW q1, NEW q2, NEW r1, NEW r2, Shape(ord, tb0, q1, q2), Shape(ord, tb, r1, r2),
         Grown(tb0, tb)
  PROVE  Rooms(ord, tb0, tb, q1, q2, r1, r2)
<1>1. /\ q1 = Room(ord, tb0, 1) /\ q2 = Room(ord, tb0, 2)
      /\ q1 \in Nat /\ q2 \in Nat /\ (q1 = 0 => q2 = 0)
      /\ q1 > 0 => ord[1] \in Tracks /\ Len(tb0[ord[1]]) >= 1 /\ q1 = 3 + 2 * Len(tb0[ord[1]])
      /\ q2 > 0 => ord[2] \in Tracks /\ Len(tb0[ord[2]]) >= 1 /\ q2 = 3 + 2 * Len(tb0[ord[2]])
  BY Zenon DEF Shape
<1>2. /\ r1 = Room(ord, tb, 1) /\ r2 = Room(ord, tb, 2)
      /\ r1 \in Nat /\ r2 \in Nat /\ (r1 = 0 => r2 = 0)
      /\ r1 > 0 => ord[1] \in Tracks /\ Len(tb[ord[1]]) >= 1 /\ r1 = 3 + 2 * Len(tb[ord[1]])
      /\ r2 > 0 => ord[2] \in Tracks /\ Len(tb[ord[2]]) >= 1 /\ r2 = 3 + 2 * Len(tb[ord[2]])
  BY Zenon DEF Shape
<1>3. ASSUME NEW o \in Tracks
      PROVE  /\ o \in Nat /\ tb0[o] \in Seq(Entry) /\ tb[o] \in Seq(Entry)
             /\ Len(tb0[o]) \in Nat /\ Len(tb[o]) \in Nat /\ Len(tb0[o]) <= Len(tb[o])
             /\ Len(tb0[o]) = Len(tb[o]) => tb0[o] = tb[o]
  <2>1. o \in Nat
    BY DEF Tracks, Video, Audio
  <2>2. tb0[o] \in Seq(Entry) /\ tb[o] \in Seq(Entry)
    OBVIOUS
  <2>3. /\ Len(tb0[o]) <= Len(tb[o])
        /\ \A i \in 1..Len(tb0[o]) : tb0[o][i] = tb[o][i]
    BY Zenon DEF Grown
  <2>4. Len(tb0[o]) \in Nat /\ Len(tb[o]) \in Nat
    BY <2>2, LenProperties
  <2>5. Len(tb0[o]) = Len(tb[o]) => tb0[o] = tb[o]
    BY <2>2, <2>3, SameTable
  <2> QED
    BY <2>1, <2>2, <2>3, <2>4, <2>5
<1>4. ASSUME NEW i \in {1, 2}
      PROVE  Room(ord, tb0, i) > 0 => /\ ord[i] \in Tracks /\ Room(ord, tb, i) > 0
                                      /\ Room(ord, tb0, i) = 3 + 2 * Len(tb0[ord[i]])
                                      /\ Room(ord, tb, i) = 3 + 2 * Len(tb[ord[i]])
  <2> SUFFICES ASSUME Room(ord, tb0, i) > 0
               PROVE  /\ ord[i] \in Tracks /\ Room(ord, tb, i) > 0
                      /\ Room(ord, tb0, i) = 3 + 2 * Len(tb0[ord[i]])
                      /\ Room(ord, tb, i) = 3 + 2 * Len(tb[ord[i]])
    OBVIOUS
  <2>1. /\ Present(ord, tb0, i) /\ ord[i] \in Tracks /\ Len(tb0[ord[i]]) >= 1
        /\ Room(ord, tb0, i) = 3 + 2 * Len(tb0[ord[i]])
    BY RoomIs
  <2>2. Len(tb[ord[i]]) # 0
    <3> DEFINE x == Len(tb0[ord[i]])
               y == Len(tb[ord[i]])
    <3>1. x \in Nat /\ y \in Nat /\ x <= y /\ x >= 1
      BY <1>3, <2>1
    <3> HIDE DEF x, y
    <3>2. y # 0
      BY <3>1
    <3> QED
      BY <3>2 DEF y
  <2>3. tb[ord[i]] # <<>>
    BY <2>2, EmptySeq
  <2>4. Present(ord, tb, i)
    BY <2>1, <2>3 DEF Present
  <2> QED
    BY <2>1, <2>4, RoomIs
<1>5. q1 > 0 => /\ ord[1] \in Tracks /\ r1 = 3 + 2 * Len(tb[ord[1]]) /\ q1 = 3 + 2 * Len(tb0[ord[1]])
  <2>1. 1 \in {1, 2}
    OBVIOUS
  <2> QED
    BY <1>1, <1>2, <1>4, <2>1
<1>6. q2 > 0 => /\ ord[2] \in Tracks /\ r2 = 3 + 2 * Len(tb[ord[2]]) /\ q2 = 3 + 2 * Len(tb0[ord[2]])
  <2>1. 2 \in {1, 2}
    OBVIOUS
  <2> QED
    BY <1>1, <1>2, <1>4, <2>1
<1>7. q1 <= r1
  <2> DEFINE x == Len(tb0[ord[1]])
             y == Len(tb[ord[1]])
  <2>1. q1 > 0 => x \in Nat /\ y \in Nat /\ x <= y /\ q1 = 3 + 2 * x /\ r1 = 3 + 2 * y
    BY <1>3, <1>5
  <2>2. q1 \in Nat /\ r1 \in Nat
    BY <1>1, <1>2
  <2> HIDE DEF x, y
  <2> QED
    BY <2>1, <2>2
<1>8. q2 <= r2
  <2> DEFINE x == Len(tb0[ord[2]])
             y == Len(tb[ord[2]])
  <2>1. q2 > 0 => x \in Nat /\ y \in Nat /\ x <= y /\ q2 = 3 + 2 * x /\ r2 = 3 + 2 * y
    BY <1>3, <1>6
  <2>2. q2 \in Nat /\ r2 \in Nat
    BY <1>1, <1>2
  <2> HIDE DEF x, y
  <2> QED
    BY <2>1, <2>2
<1> QED
  BY <1>1, <1>2, <1>3, <1>7, <1>8, Zenon DEF Rooms

\* The numbers of a mixture, without the tables they belong to.
Numbers(q1, q2, r1, r2, m, n, m2, n2, a, z) ==
  /\ q1 \in Nat /\ q2 \in Nat /\ r1 \in Nat /\ r2 \in Nat /\ a \in Nat /\ z \in Nat
  /\ a >= 1 /\ a <= 2 + r1 + r2 /\ (1 + r1) + r2 < z
  /\ q1 <= r1 /\ q2 <= r2 /\ (r1 = 0 => r2 = 0) /\ (q1 = 0 => q2 = 0)
  /\ r1 > 0 => n \in Nat /\ n >= 1 /\ r1 = 3 + 2 * n
  /\ q1 > 0 => m \in Nat /\ m >= 1 /\ q1 = 3 + 2 * m
  /\ r2 > 0 => n2 \in Nat /\ n2 >= 1 /\ r2 = 3 + 2 * n2
  /\ q2 > 0 => m2 \in Nat /\ m2 >= 1 /\ q2 = 3 + 2 * m2

\* The room and the sizes of two such tables make these numbers.
LEMMA NumbersAre ==
  ASSUME NEW d, NEW ord, NEW tb0, NEW tb, NEW q1, NEW q2, NEW r1, NEW r2, NEW a, NEW s, NEW t,
         Mixture(d, ord, tb0, tb, q1, q2, r1, r2, a, s, t), Rooms(ord, tb0, tb, q1, q2, r1, r2)
  PROVE  Numbers(q1, q2, r1, r2, Len(tb0[ord[1]]), Len(tb[ord[1]]),
                 Len(tb0[ord[2]]), Len(tb[ord[2]]), a, MdatAt)
<1>1. /\ Shape(ord, tb0, q1, q2) /\ Shape(ord, tb, r1, r2)
      /\ (1 + r1) + r2 < MdatAt /\ Stage(r1, r2, a, s, t)
  BY Zenon DEF Mixture
<1>2. a \in Nat /\ a >= 1 /\ a <= 2 + r1 + r2
  BY <1>1, Zenon DEF Stage
<1>3. /\ q1 \in Nat /\ q2 \in Nat /\ r1 \in Nat /\ r2 \in Nat
      /\ q1 <= r1 /\ q2 <= r2 /\ (r1 = 0 => r2 = 0) /\ (q1 = 0 => q2 = 0)
  BY Zenon DEF Rooms
<1>4. /\ r1 > 0 => Len(tb[ord[1]]) \in Nat /\ Len(tb[ord[1]]) >= 1 /\ r1 = 3 + 2 * Len(tb[ord[1]])
      /\ r2 > 0 => Len(tb[ord[2]]) \in Nat /\ Len(tb[ord[2]]) >= 1 /\ r2 = 3 + 2 * Len(tb[ord[2]])
  BY <1>1, Zenon DEF Shape
<1>5. /\ q1 > 0 => Len(tb0[ord[1]]) \in Nat /\ Len(tb0[ord[1]]) >= 1 /\ q1 = 3 + 2 * Len(tb0[ord[1]])
      /\ q2 > 0 => Len(tb0[ord[2]]) \in Nat /\ Len(tb0[ord[2]]) >= 1 /\ q2 = 3 + 2 * Len(tb0[ord[2]])
  BY <1>1, Zenon DEF Shape
<1>6. MdatAt \in Nat
  BY FrontAddr
<1> QED
  BY <1>1, <1>2, <1>3, <1>4, <1>5, <1>6, Zenon DEF Numbers

\* The places of the front.
LEMMA FrontPlace ==
  ASSUME NEW y \in Nat, y >= 1, y < MdatAt
  PROVE  y \in 1..(MdatAt - 1)
<1>1. MdatAt \in Nat
  BY FrontAddr
<1> DEFINE z == MdatAt
<1>2. z \in Nat /\ y < z
  BY <1>1
<1> HIDE DEF z
<1>3. y \in 1..(z - 1)
  BY <1>2
<1> QED
  BY <1>3 DEF z

\* The cells of a mixture, one by one.
TrackCell(c, o, es, s, j) == c = TrakCell(o, es, s, j) /\ TrakCellIs(c, o, es, s, j)

\* Each cell in front is one of the older index or one of the newer.
LEMMA MixtureCells ==
  ASSUME NEW d, NEW ord, NEW tb0, NEW tb, NEW q1, NEW q2, NEW r1, NEW r2, NEW a, NEW s, NEW t,
         Mixture(d, ord, tb0, tb, q1, q2, r1, r2, a, s, t),
         NEW y \in Nat, y >= 1, y < MdatAt
  PROVE  /\ Kind(d, y) = d[y][1]
         /\ y < a /\ y <= r1 => TrackCell(d[y], ord[1], tb[ord[1]], s, y)
         /\ y < a /\ y > r1 /\ y <= r1 + r2 => TrackCell(d[y], ord[2], tb[ord[2]], t, y - r1)
         /\ y < a /\ y > r1 + r2 => Kind(d, y) \in {"skip", "zero"}
         /\ y >= a /\ y <= q1 => TrackCell(d[y], ord[1], tb0[ord[1]], q1, y)
         /\ y >= a /\ y > q1 /\ y <= q1 + q2 => TrackCell(d[y], ord[2], tb0[ord[2]], q2, y - q1)
         /\ y >= a /\ y > q1 + q2 => Kind(d, y) \in {"skip", "zero"}
<1>1. y \in 1..(MdatAt - 1)
  BY FrontPlace, Zenon
<1>2. /\ y < a => Says(d, y, ord, tb, r1, r2, s, t)
      /\ y >= a => Says(d, y, ord, tb0, q1, q2, q1, q2)
  BY <1>1, Zenon DEF Mixture
<1>3. Stage(r1, r2, a, s, t)
  BY Zenon DEF Mixture
<1>4. y < a \/ y >= a
  <2>1. a \in Nat
    BY <1>3, Zenon DEF Stage
  <2> QED
    BY <2>1
<1>6. Kind(d, y) = d[y][1]
  BY <1>2, <1>4, Zenon DEF Says
<1> QED
  <2>1. y < a /\ y <= r1 => TrackCell(d[y], ord[1], tb[ord[1]], s, y)
    BY <1>2, Zenon DEF Says, TrackCell
  <2>2. y < a /\ y > r1 /\ y <= r1 + r2 => TrackCell(d[y], ord[2], tb[ord[2]], t, y - r1)
    BY <1>2, Zenon DEF Says, TrackCell
  <2>3. y < a /\ y > r1 + r2 => Kind(d, y) \in {"skip", "zero"}
    BY <1>2, Zenon DEF Says
  <2>4. y >= a /\ y <= q1 => TrackCell(d[y], ord[1], tb0[ord[1]], q1, y)
    BY <1>2, Zenon DEF Says, TrackCell
  <2>5. y >= a /\ y > q1 /\ y <= q1 + q2 => TrackCell(d[y], ord[2], tb0[ord[2]], q2, y - q1)
    BY <1>2, Zenon DEF Says, TrackCell
  <2>6. y >= a /\ y > q1 + q2 => Kind(d, y) \in {"skip", "zero"}
    BY <1>2, Zenon DEF Says
  <2> QED
    BY <1>6, <2>1, <2>2, <2>3, <2>4, <2>5, <2>6, Zenon

\* A cell of a track that is not its header does not know the track's size.
LEMMA AnySize ==
  ASSUME NEW t, NEW es, NEW s, NEW j, j # 1
  PROVE  TrakCell(t, es, s, j) = TrakCell(t, es, 0, j)
  BY DEF TrakCell

\* The boxes of a track, cell by cell.
LEMMA BodyBy ==
  ASSUME NEW d, NEW x, NEW t, NEW es,
         \A j \in 2..TrakCells(Len(es)) : \E s : d[x + j - 1] = TrakCell(t, es, s, j)
  PROVE  Body(d, x, t, es)
<1> SUFFICES ASSUME NEW j \in 2..TrakCells(Len(es))
             PROVE  d[x + j - 1] = TrakCell(t, es, 0, j)
  BY DEF Body
<1>1. j # 1
  OBVIOUS
<1>2. PICK s : d[x + j - 1] = TrakCell(t, es, s, j)
  OBVIOUS
<1> QED
  BY <1>1, <1>2, AnySize, Zenon

\* The boxes of the first track that are in their places, as the rewriting goes on.
LEMMA FirstBody ==
  ASSUME NEW d, NEW ord, NEW tb0, NEW tb, NEW q1, NEW q2, NEW r1, NEW r2, NEW a, NEW s, NEW t,
         Mixture(d, ord, tb0, tb, q1, q2, r1, r2, a, s, t), Rooms(ord, tb0, tb, q1, q2, r1, r2),
         r1 > 0
  PROVE  /\ q1 > 0 /\ a <= 2 => Body(d, 1, ord[1], tb0[ord[1]])
         /\ a >= 1 + r1 => Body(d, 1, ord[1], tb[ord[1]])
         /\ q1 > 0 /\ tb0[ord[1]] = tb[ord[1]] => Body(d, 1, ord[1], tb[ord[1]])
<1> DEFINE o == ord[1]
           fs == tb0[o]
           es == tb[o]
           m == Len(fs)
           n == Len(es)
           z == MdatAt
<1>1. Numbers(q1, q2, r1, r2, m, n, Len(tb0[ord[2]]), Len(tb[ord[2]]), a, z)
  BY NumbersAre, Zenon
<1>2. /\ q1 \in Nat /\ q2 \in Nat /\ r1 \in Nat /\ r2 \in Nat /\ a \in Nat /\ z \in Nat
      /\ (1 + r1) + r2 < z /\ q1 <= r1
      /\ n \in Nat /\ r1 = 3 + 2 * n
      /\ q1 > 0 => m \in Nat /\ q1 = 3 + 2 * m
  BY <1>1, Zenon DEF Numbers
<1>3. TrakCells(n) = 3 + 2 * n /\ TrakCells(m) = 3 + 2 * m
  BY DEF TrakCells
<1>4. ASSUME NEW y \in Nat, y >= 1, y < z
      PROVE  /\ y < a /\ y <= r1 => d[y] = TrakCell(o, es, s, y)
             /\ y >= a /\ y <= q1 => d[y] = TrakCell(o, fs, q1, y)
  BY <1>4, MixtureCells DEF TrackCell
<1> HIDE DEF o, fs, es, m, n, z
<1>5. ASSUME q1 > 0, a <= 2 PROVE Body(d, 1, o, fs)
  <2>1. ASSUME NEW j \in 2..TrakCells(m) PROVE \E u : d[1 + j - 1] = TrakCell(o, fs, u, j)
    <3>1. j \in Nat /\ j >= 1 /\ j < z /\ j >= a /\ j <= q1 /\ 1 + j - 1 = j
      BY <1>2, <1>3, <1>5, <2>1
    <3> QED
      BY <1>4, <3>1, Zenon
  <2> QED
    BY <2>1, BodyBy, Zenon DEF m
<1>6. ASSUME a >= 1 + r1 PROVE Body(d, 1, o, es)
  <2>1. ASSUME NEW j \in 2..TrakCells(n) PROVE \E u : d[1 + j - 1] = TrakCell(o, es, u, j)
    <3>1. j \in Nat /\ j >= 1 /\ j < z /\ j < a /\ j <= r1 /\ 1 + j - 1 = j
      BY <1>2, <1>3, <1>6, <2>1
    <3> QED
      BY <1>4, <3>1, Zenon
  <2> QED
    BY <2>1, BodyBy, Zenon DEF n
<1>7. ASSUME q1 > 0, fs = es PROVE Body(d, 1, o, es)
  <2>0. m = n
    BY <1>7, Zenon DEF m, n
  <2>1. ASSUME NEW j \in 2..TrakCells(n) PROVE \E u : d[1 + j - 1] = TrakCell(o, es, u, j)
    <3>1. j \in Nat /\ j >= 1 /\ j < z /\ j <= r1 /\ j <= q1 /\ 1 + j - 1 = j /\ (j < a \/ j >= a)
      BY <1>2, <1>3, <1>7, <2>0, <2>1
    <3> QED
      BY <1>4, <1>7, <3>1, Zenon
  <2> QED
    BY <2>1, BodyBy, Zenon DEF n
<1> QED
  BY <1>5, <1>6, <1>7, Zenon DEF o, fs, es

\* The boxes of the second track that are in their places.
LEMMA SecondBody ==
  ASSUME NEW d, NEW ord, NEW tb0, NEW tb, NEW q1, NEW q2, NEW r1, NEW r2, NEW a, NEW s, NEW t,
         Mixture(d, ord, tb0, tb, q1, q2, r1, r2, a, s, t), Rooms(ord, tb0, tb, q1, q2, r1, r2),
         r2 > 0
  PROVE  /\ q2 > 0 /\ a <= 2 + q1 => Body(d, 1 + q1, ord[2], tb0[ord[2]])
         /\ a >= 1 + r1 + r2 => Body(d, 1 + r1, ord[2], tb[ord[2]])
         /\ q1 = r1 /\ q2 > 0 /\ tb0[ord[2]] = tb[ord[2]] => Body(d, 1 + r1, ord[2], tb[ord[2]])
<1> DEFINE o == ord[2]
           fs == tb0[o]
           es == tb[o]
           m == Len(fs)
           n == Len(es)
           z == MdatAt
<1>1. Numbers(q1, q2, r1, r2, Len(tb0[ord[1]]), Len(tb[ord[1]]), m, n, a, z)
  BY NumbersAre, Zenon
<1>2. /\ q1 \in Nat /\ q2 \in Nat /\ r1 \in Nat /\ r2 \in Nat /\ a \in Nat /\ z \in Nat
      /\ (1 + r1) + r2 < z /\ q1 <= r1 /\ q2 <= r2
      /\ n \in Nat /\ r2 = 3 + 2 * n
      /\ q2 > 0 => m \in Nat /\ q2 = 3 + 2 * m
  BY <1>1, Zenon DEF Numbers
<1>3. TrakCells(n) = 3 + 2 * n /\ TrakCells(m) = 3 + 2 * m
  BY DEF TrakCells
<1>4. ASSUME NEW y \in Nat, y >= 1, y < z
      PROVE  /\ y < a /\ y > r1 /\ y <= r1 + r2 => d[y] = TrakCell(o, es, t, y - r1)
             /\ y >= a /\ y > q1 /\ y <= q1 + q2 => d[y] = TrakCell(o, fs, q2, y - q1)
  BY <1>4, MixtureCells DEF TrackCell
<1> HIDE DEF o, fs, es, m, n, z
<1>5. ASSUME q2 > 0, a <= 2 + q1 PROVE Body(d, 1 + q1, o, fs)
  <2>1. ASSUME NEW j \in 2..TrakCells(m) PROVE \E u : d[(1 + q1) + j - 1] = TrakCell(o, fs, u, j)
    <3> DEFINE y == (1 + q1) + j - 1
    <3>1. y \in Nat /\ y >= 1 /\ y < z /\ y >= a /\ y > q1 /\ y <= q1 + q2 /\ y - q1 = j
      BY <1>2, <1>3, <1>5, <2>1
    <3> HIDE DEF y
    <3>2. d[y] = TrakCell(o, fs, q2, j)
      BY <1>4, <3>1, Zenon
    <3> QED
      BY <3>2, Zenon DEF y
  <2> QED
    BY <2>1, BodyBy, Zenon DEF m
<1>6. ASSUME a >= 1 + r1 + r2 PROVE Body(d, 1 + r1, o, es)
  <2>1. ASSUME NEW j \in 2..TrakCells(n) PROVE \E u : d[(1 + r1) + j - 1] = TrakCell(o, es, u, j)
    <3> DEFINE y == (1 + r1) + j - 1
    <3>1. y \in Nat /\ y >= 1 /\ y < z /\ y < a /\ y > r1 /\ y <= r1 + r2 /\ y - r1 = j
      BY <1>2, <1>3, <1>6, <2>1
    <3> HIDE DEF y
    <3>2. d[y] = TrakCell(o, es, t, j)
      BY <1>4, <3>1, Zenon
    <3> QED
      BY <3>2, Zenon DEF y
  <2> QED
    BY <2>1, BodyBy, Zenon DEF n
<1>7. ASSUME q1 = r1, q2 > 0, fs = es PROVE Body(d, 1 + r1, o, es)
  <2>0. m = n
    BY <1>7, Zenon DEF m, n
  <2>1. ASSUME NEW j \in 2..TrakCells(n) PROVE \E u : d[(1 + r1) + j - 1] = TrakCell(o, es, u, j)
    <3> DEFINE y == (1 + r1) + j - 1
    <3>1. /\ y \in Nat /\ y >= 1 /\ y < z /\ y > r1 /\ y <= r1 + r2 /\ y > q1 /\ y <= q1 + q2
          /\ y - r1 = j /\ y - q1 = j /\ (y < a \/ y >= a)
      BY <1>2, <1>3, <1>7, <2>0, <2>1
    <3> HIDE DEF y
    <3>2. d[y] = TrakCell(o, es, t, j) \/ d[y] = TrakCell(o, es, q2, j)
      BY <1>4, <1>7, <3>1, Zenon
    <3> QED
      BY <3>2, Zenon DEF y
  <2> QED
    BY <2>1, BodyBy, Zenon DEF n
<1> QED
  BY <1>5, <1>6, <1>7, Zenon DEF o, fs, es

\* The track at the front of a mixture, if there is one that can be read.
LEMMA FirstTrack ==
  ASSUME NEW d, NEW ord, NEW tb0, NEW tb, NEW q1, NEW q2, NEW r1, NEW r2, NEW a, NEW s, NEW t,
         Mixture(d, ord, tb0, tb, q1, q2, r1, r2, a, s, t), Rooms(ord, tb0, tb, q1, q2, r1, r2),
         BoxIsTrack(d, 1)
  PROVE  /\ r1 > 0 /\ ord[1] \in Tracks /\ d[1][2] = ord[1]
         /\ TrackEntries(d, 1) \in {tb0[ord[1]], tb[ord[1]]}
         /\ a <= 1 => /\ q1 > 0 /\ After(d, 1) = 1 + q1
         /\ a > 1 /\ d[1][3] # 0 => /\ s = r1 /\ a >= 1 + r1 /\ After(d, 1) = 1 + r1
<1> DEFINE o == ord[1]
           fs == tb0[o]
           es == tb[o]
           gs == tb0[ord[2]]
           m == Len(fs)
           n == Len(es)
           m2 == Len(gs)
           z == MdatAt
<1>1. Numbers(q1, q2, r1, r2, m, n, m2, Len(tb[ord[2]]), a, z)
  BY NumbersAre, Zenon
<1>2. /\ q1 \in Nat /\ q2 \in Nat /\ r1 \in Nat /\ r2 \in Nat /\ a \in Nat /\ z \in Nat
      /\ a >= 1 /\ (1 + r1) + r2 < z
      /\ q1 <= r1 /\ q2 <= r2 /\ (r1 = 0 => r2 = 0) /\ (q1 = 0 => q2 = 0)
      /\ r1 > 0 => n \in Nat /\ n >= 1 /\ r1 = 3 + 2 * n
      /\ q1 > 0 => m \in Nat /\ m >= 1 /\ q1 = 3 + 2 * m
      /\ q2 > 0 => m2 \in Nat /\ m2 >= 1 /\ q2 = 3 + 2 * m2
  BY <1>1, Zenon DEF Numbers
<1>3. ASSUME NEW y \in Nat, y >= 1, y < z
      PROVE  /\ Kind(d, y) = d[y][1]
             /\ y < a /\ y <= r1 => TrackCell(d[y], o, es, s, y)
             /\ y < a /\ y > r1 + r2 => Kind(d, y) \in {"skip", "zero"}
             /\ y >= a /\ y <= q1 => TrackCell(d[y], o, fs, q1, y)
             /\ y >= a /\ y > q1 /\ y <= q1 + q2 => TrackCell(d[y], ord[2], gs, q2, y - q1)
             /\ y >= a /\ y > q1 + q2 => Kind(d, y) \in {"skip", "zero"}
  BY <1>3, MixtureCells
<1>4. /\ Kind(d, 1) = "trak" /\ TrackWhole(d, 1)
      /\ d[1][3] = 0 => Boundary(d, 1 + TrakCells(d[1 + 1][2]))
  BY Zenon DEF BoxIsTrack
<1>5. /\ r1 > 0 => o \in Tracks /\ o \in Nat /\ fs \in Seq(Entry) /\ es \in Seq(Entry) /\ (m = n => fs = es)
      /\ q1 > 0 => m <= n
  BY Zenon DEF Rooms
<1>6. d \in Contents /\ Stage(r1, r2, a, s, t)
  BY Zenon DEF Mixture
<1>7. /\ s \in {0, r1} /\ (s = r1 /\ r1 > 0 => a >= 1 + r1) /\ (s # r1 => a <= 1 + r1)
  BY <1>6, Zenon DEF Stage
<1>8. /\ Kind(d, 1 + 1) = "stsz"
      /\ Kind(d, 1 + 2 + d[1 + 1][2]) = "stco"
      /\ d[1 + 2 + d[1 + 1][2]][2] = d[1 + 1][2]
      /\ \A i \in 1..d[1 + 1][2] : Kind(d, 1 + 2 + d[1 + 1][2] + i) = "off"
  BY <1>4, Zenon DEF TrackWhole
<1>9. r1 > 0 =>
         /\ q1 > 0 /\ a <= 2 => Body(d, 1, o, fs)
         /\ a >= 1 + r1 => Body(d, 1, o, es)
         /\ q1 > 0 /\ fs = es => Body(d, 1, o, es)
  BY FirstBody, Zenon
<1>10. r1 > 0 => 1 + TrakCells(n) = 1 + r1 /\ 1 + TrakCells(n) <= z
  BY <1>2 DEF TrakCells
<1>11. q1 > 0 => 1 + TrakCells(m) = 1 + q1 /\ 1 + TrakCells(m) <= z
  BY <1>2 DEF TrakCells
<1> HIDE DEF o, fs, es, gs, m, n, m2, z
<1>12. r1 > 0
  <2> SUFFICES ASSUME r1 = 0 PROVE FALSE
    BY <1>2
  <2>1. 1 \in Nat /\ 1 >= 1 /\ 1 < z /\ 1 > r1 + r2 /\ 1 > q1 + q2 /\ (1 < a \/ 1 >= a)
    BY <1>2
  <2>2. Kind(d, 1) \in {"skip", "zero"}
    BY <1>3, <2>1
  <2> QED
    BY <1>4, <2>2, Kinds
<1>13. 1 \in Nat /\ 1 >= 1 /\ 1 < z /\ 1 <= r1 /\ 2 \in Nat /\ 2 >= 1 /\ 2 < z /\ 2 <= r1
  BY <1>2, <1>12
<1>14. a <= 1 => q1 > 0
  <2> SUFFICES ASSUME a <= 1, q1 = 0 PROVE FALSE
    BY <1>2
  <2>1. 1 >= a /\ 1 > q1 + q2
    BY <1>2
  <2>2. Kind(d, 1) \in {"skip", "zero"}
    BY <1>3, <1>13, <2>1
  <2> QED
    BY <1>4, <2>2, Kinds
<1>15. d[1][2] = o /\ (a > 1 => d[1][3] = s)
  <2>1. CASE a > 1
    <3>1. TrackCell(d[1], o, es, s, 1)
      BY <1>2, <1>3, <1>13, <2>1
    <3>2. TrakCellIs(d[1], o, es, s, 1)
      BY <3>1, Zenon DEF TrackCell
    <3> QED
      BY <3>2 DEF TrakCellIs
  <2>2. CASE a <= 1
    <3>0. 1 >= a /\ 1 <= q1 /\ ~(a > 1)
      BY <1>2, <1>14, <2>2
    <3>1. TrackCell(d[1], o, fs, q1, 1)
      BY <1>3, <1>13, <3>0
    <3>2. TrakCellIs(d[1], o, fs, q1, 1)
      BY <3>1, Zenon DEF TrackCell
    <3>3. d[1][2] = o
      BY <3>2 DEF TrakCellIs
    <3> QED
      BY <3>0, <3>3
  <2> QED
    BY <1>2, <2>1, <2>2
<1>16. o \in Nat /\ fs \in Seq(Entry) /\ es \in Seq(Entry) /\ 1 \in Nat
  BY <1>5, <1>12
<1>17. Body(d, 1, o, es) => TrackEntries(d, 1) = es /\ After(d, 1) = 1 + r1
  BY <1>6, <1>10, <1>12, <1>16, BodyRead, Zenon DEF n, z
<1>18. q1 > 0 /\ Body(d, 1, o, fs) => TrackEntries(d, 1) = fs /\ After(d, 1) = 1 + q1
  BY <1>6, <1>11, <1>16, BodyRead, Zenon DEF m, z
<1>19. TrackEntries(d, 1) \in {fs, es}
  <2>1. CASE a <= 2 /\ q1 > 0
    BY <1>9, <1>12, <1>18, <2>1
  <2>2. CASE a <= 2 /\ q1 = 0
    <3>1. 2 >= a /\ 2 > q1 + q2
      BY <1>2, <2>2
    <3>2. Kind(d, 2) \in {"skip", "zero"}
      BY <1>3, <1>13, <3>1
    <3>3. 1 + 1 = 2
      OBVIOUS
    <3>4. Kind(d, 2) = "stsz"
      BY <1>8, <3>3
    <3> QED
      BY <3>2, <3>4, Kinds
  <2>3. CASE a >= 1 + r1
    BY <1>9, <1>12, <1>17, <2>3
  <2>4. CASE a >= 3 /\ a <= r1
    <3>1. d[1 + 1][2] = n
      <4>1. 2 < a /\ 1 + 1 = 2
        BY <1>2, <2>4
      <4>2. TrackCell(d[2], o, es, s, 2)
        BY <1>3, <1>13, <4>1
      <4>3. TrakCellIs(d[2], o, es, s, 2)
        BY <4>2, Zenon DEF TrackCell
      <4>4. d[2][2] = Len(es)
        BY <4>3 DEF TrakCellIs
      <4> QED
        BY <4>1, <4>4 DEF n
    <3> DEFINE c == 3 + n
    <3>2. /\ n \in Nat /\ n >= 1 /\ r1 = 3 + 2 * n /\ c = 3 + n
          /\ c \in Nat /\ c >= 1 /\ c < z /\ r1 >= 1 /\ r1 < z /\ 1 + r1 \in Nat /\ 1 + r1 >= 1 /\ 1 + r1 < z
          /\ 1 + 2 + n = c /\ 1 + 2 + n + n = r1 /\ n \in 1..n
      BY <1>2, <1>12
    <3>3. Kind(d, c) = "stco" /\ d[c][2] = n /\ Kind(d, r1) = "off"
      BY <1>8, <3>1, <3>2
    <3>4. s = 0
      BY <1>2, <1>7, <1>12, <2>4
    <3>5. Kind(d, 1 + r1) \in {"trak", "skip", "zero", "mdat"}
      <4>1. d[1][3] = 0
        BY <1>2, <1>15, <2>4, <3>4
      <4>2. Boundary(d, 1 + TrakCells(n))
        BY <1>4, <3>1, <4>1
      <4> QED
        BY <1>10, <1>12, <4>2 DEF Boundary
    <3> HIDE DEF c
    <3>6. q1 > 0
      <4> SUFFICES ASSUME q1 = 0 PROVE FALSE
        BY <1>2
      <4>1. r1 >= a /\ r1 > q1 + q2
        BY <1>2, <1>12, <2>4
      <4>2. Kind(d, r1) \in {"skip", "zero"}
        BY <1>2, <1>3, <3>2, <4>1
      <4> QED
        BY <3>3, <4>2, Kinds
    <3>7. m \in Nat /\ m >= 1 /\ q1 = 3 + 2 * m /\ m <= n
      BY <1>2, <1>5, <3>6
    <3>8. CASE m = n
      BY <1>5, <1>9, <1>12, <1>17, <3>6, <3>8
    <3>9. CASE m < n /\ a <= c
      <4>1. Kind(d, c) = d[c][1] /\ d[c][1] = "stco"
        BY <1>3, <3>2, <3>3
      <4>2. c >= a
        BY <1>2, <3>2, <3>9
      <4>3. CASE c <= q1
        <5>1. TrackCell(d[c], o, fs, q1, c)
          BY <1>3, <3>2, <4>2, <4>3
        <5>2. TrakCellIs(d[c], o, fs, q1, c)
          BY <5>1, Zenon DEF TrackCell
        <5>3. d[c][1] = "stco" => c = 3 + Len(fs) /\ d[c][2] = Len(fs)
          BY <1>16, <3>2, <5>2, KindPlace
        <5>4. c = 3 + m
          BY <4>1, <5>3 DEF m
        <5> QED
          BY <3>2, <3>7, <3>9, <5>4
      <4>4. CASE c > q1 /\ c <= q1 + q2
        <5>0. q2 > 0 /\ c - q1 \in Nat /\ c - q1 >= 1
          BY <1>2, <3>2, <4>4
        <5>1. TrackCell(d[c], ord[2], gs, q2, c - q1)
          BY <1>3, <3>2, <4>2, <4>4
        <5>2. TrakCellIs(d[c], ord[2], gs, q2, c - q1)
          BY <5>1, Zenon DEF TrackCell
        <5>3. gs \in Seq(Entry)
          <6>1. r2 > 0 => tb0[ord[2]] \in Seq(Entry)
            BY Zenon DEF Rooms
          <6>2. r2 > 0
            BY <1>2, <5>0
          <6> QED
            BY <6>1, <6>2 DEF gs
        <5>4. d[c][1] = "stco" => c - q1 = 3 + Len(gs) /\ d[c][2] = Len(gs)
          BY <5>0, <5>2, <5>3, KindPlace
        <5>5. c - q1 = 3 + m2 /\ n = m2
          BY <3>3, <4>1, <5>4 DEF m2
        <5> QED
          BY <1>2, <3>2, <3>7, <3>9, <5>0, <5>5
      <4>5. CASE c > q1 + q2
        <5>1. Kind(d, c) \in {"skip", "zero"}
          BY <1>3, <3>2, <4>2, <4>5
        <5> QED
          BY <3>3, <5>1, Kinds
      <4> QED
        BY <1>2, <3>2, <4>3, <4>4, <4>5
    <3>10. CASE m < n /\ a > c
      <4>1. Kind(d, r1) = d[r1][1] /\ Kind(d, 1 + r1) = d[1 + r1][1] /\ r1 >= a /\ 1 + r1 >= a /\ r1 > q1
        BY <1>2, <1>3, <2>4, <3>2, <3>7, <3>10
      <4>2. r1 <= q1 + q2
        <5> SUFFICES ASSUME r1 > q1 + q2 PROVE FALSE
          BY <1>2
        <5>1. Kind(d, r1) \in {"skip", "zero"}
          BY <1>2, <1>3, <3>2, <4>1
        <5> QED
          BY <3>3, <5>1, Kinds
      <4>3. q2 > 0 /\ m2 \in Nat /\ q2 = 3 + 2 * m2 /\ r1 - q1 \in Nat /\ r1 - q1 >= 1
        BY <1>2, <4>1, <4>2
      <4>4. gs \in Seq(Entry)
        <5>1. r2 > 0 => tb0[ord[2]] \in Seq(Entry)
          BY Zenon DEF Rooms
        <5>2. r2 > 0
          BY <1>2, <4>3
        <5> QED
          BY <5>1, <5>2 DEF gs
      <4>5. r1 - q1 > 3 + m2
        <5>1. TrackCell(d[r1], ord[2], gs, q2, r1 - q1)
          BY <1>2, <1>3, <3>2, <4>1, <4>2
        <5>2. TrakCellIs(d[r1], ord[2], gs, q2, r1 - q1)
          BY <5>1, Zenon DEF TrackCell
        <5>3. d[r1][1] = "off" => r1 - q1 > 3 + Len(gs)
          BY <4>3, <4>4, <5>2, KindPlace
        <5> QED
          BY <3>3, <4>1, <5>3 DEF m2
      <4>6. 1 + r1 > q1 /\ 1 + r1 <= q1 + q2 /\ (1 + r1) - q1 > 3 + m2
        BY <1>2, <3>2, <3>7, <4>2, <4>3, <4>5
      <4>7. d[1 + r1][1] = "off"
        <5>1. TrackCell(d[1 + r1], ord[2], gs, q2, (1 + r1) - q1)
          BY <1>3, <3>2, <4>1, <4>6
        <5>2. TrakCellIs(d[1 + r1], ord[2], gs, q2, (1 + r1) - q1)
          BY <5>1, Zenon DEF TrackCell
        <5>3. (1 + r1) - q1 > 3 + Len(gs) => d[1 + r1][1] = "off"
          BY <5>2, Zenon DEF TrakCellIs
        <5> QED
          BY <4>6, <5>3 DEF m2
      <4> QED
        BY <3>5, <4>1, <4>7, Kinds
    <3> QED
      BY <1>2, <3>2, <3>7, <3>8, <3>9, <3>10
  <2> QED
    BY <1>2, <1>12, <2>1, <2>2, <2>3, <2>4
<1>20. a <= 1 => /\ q1 > 0 /\ After(d, 1) = 1 + q1
  <2>1. a <= 1 => a <= 2
    BY <1>2
  <2> QED
    BY <1>9, <1>12, <1>14, <1>18, <2>1, Zenon
<1>21. a > 1 /\ d[1][3] # 0 => /\ s = r1 /\ a >= 1 + r1 /\ After(d, 1) = 1 + r1
  BY <1>7, <1>9, <1>12, <1>15, <1>17
<1>22. o \in Tracks
  BY <1>5, <1>12
<1> QED
  BY <1>12, <1>15, <1>19, <1>20, <1>21, <1>22, Zenon DEF o, fs, es

\* The track behind it, if the reader goes on and finds one.
LEMMA SecondTrack ==
  ASSUME NEW d, NEW ord, NEW tb0, NEW tb, NEW q1, NEW q2, NEW r1, NEW r2, NEW a, NEW s, NEW t,
         Mixture(d, ord, tb0, tb, q1, q2, r1, r2, a, s, t), Rooms(ord, tb0, tb, q1, q2, r1, r2),
         GoesOn(d, 1), BoxIsTrack(d, After(d, 1))
  PROVE  LET x == After(d, 1) IN
         /\ r2 > 0 /\ ord[2] \in Tracks /\ d[x][2] = ord[2]
         /\ TrackEntries(d, x) \in {tb0[ord[2]], tb[ord[2]]}
<1> DEFINE o == ord[2]
           fs == tb0[o]
           es == tb[o]
           m == Len(fs)
           n == Len(es)
           z == MdatAt
           x == After(d, 1)
<1>1. Numbers(q1, q2, r1, r2, Len(tb0[ord[1]]), Len(tb[ord[1]]), m, n, a, z)
  BY NumbersAre, Zenon
<1>2. /\ q1 \in Nat /\ q2 \in Nat /\ r1 \in Nat /\ r2 \in Nat /\ a \in Nat /\ z \in Nat
      /\ a >= 1 /\ a <= 2 + r1 + r2 /\ (1 + r1) + r2 < z
      /\ q1 <= r1 /\ q2 <= r2 /\ (r1 = 0 => r2 = 0) /\ (q1 = 0 => q2 = 0)
      /\ r2 > 0 => n \in Nat /\ n >= 1 /\ r2 = 3 + 2 * n
      /\ q2 > 0 => m \in Nat /\ m >= 1 /\ q2 = 3 + 2 * m
  BY <1>1, Zenon DEF Numbers
<1>3. ASSUME NEW y \in Nat, y >= 1, y < z
      PROVE  /\ Kind(d, y) = d[y][1]
             /\ y < a /\ y > r1 /\ y <= r1 + r2 => TrackCell(d[y], o, es, t, y - r1)
             /\ y < a /\ y > r1 + r2 => Kind(d, y) \in {"skip", "zero"}
             /\ y >= a /\ y > q1 /\ y <= q1 + q2 => TrackCell(d[y], o, fs, q2, y - q1)
             /\ y >= a /\ y > q1 + q2 => Kind(d, y) \in {"skip", "zero"}
  BY <1>3, MixtureCells
<1>4. Kind(d, x) = "trak" /\ TrackWhole(d, x)
  BY Zenon DEF BoxIsTrack
<1>5. /\ BoxIsTrack(d, 1) /\ d[1][3] # 0
  BY Zenon DEF GoesOn
<1>6. /\ r1 > 0
      /\ a <= 1 => q1 > 0 /\ x = 1 + q1
      /\ a > 1 => a >= 1 + r1 /\ x = 1 + r1
  BY <1>5, FirstTrack
<1>7. /\ r2 > 0 => o \in Tracks /\ o \in Nat /\ fs \in Seq(Entry) /\ es \in Seq(Entry) /\ (m = n => fs = es)
  BY Zenon DEF Rooms
<1>8. d \in Contents
  BY Zenon DEF Mixture
<1>9. /\ Kind(d, x + 1) = "stsz"
      /\ \A i \in 1..d[x + 1][2] : Kind(d, x + 2 + d[x + 1][2] + i) = "off"
  BY <1>4, Zenon DEF TrackWhole
<1>10. r2 > 0 =>
         /\ q2 > 0 /\ a <= 2 + q1 => Body(d, 1 + q1, o, fs)
         /\ a >= 1 + r1 + r2 => Body(d, 1 + r1, o, es)
         /\ q1 = r1 /\ q2 > 0 /\ fs = es => Body(d, 1 + r1, o, es)
  BY SecondBody, Zenon
<1>0. TrakCells(n) = 3 + 2 * n /\ TrakCells(m) = 3 + 2 * m
  BY DEF TrakCells
<1> HIDE DEF o, fs, es, m, n, z, x
<1>11. r2 > 0 => (1 + r1) + TrakCells(n) <= z /\ 1 + r1 \in Nat
  BY <1>0, <1>2
<1>12. q2 > 0 => (1 + q1) + TrakCells(m) <= z /\ 1 + q1 \in Nat
  BY <1>0, <1>2
<1>13. x \in Nat /\ x >= 1 /\ x < z /\ (x = 1 + r1 \/ x = 1 + q1) /\ (a <= 1 \/ a > 1)
  BY <1>2, <1>6
<1>14. r2 > 0
  <2> SUFFICES ASSUME r2 = 0 PROVE FALSE
    BY <1>2
  <2>1. (x < a => x > r1 + r2) /\ (x >= a => x > q1 + q2) /\ (x < a \/ x >= a)
    BY <1>2, <1>6, <1>13
  <2>2. Kind(d, x) \in {"skip", "zero"}
    BY <1>3, <1>13, <2>1
  <2> QED
    BY <1>4, <2>2, Kinds
<1>15. o \in Tracks /\ o \in Nat /\ fs \in Seq(Entry) /\ es \in Seq(Entry) /\ (m = n => fs = es)
  BY <1>7, <1>14
<1>16. Body(d, 1 + r1, o, es) => TrackEntries(d, 1 + r1) = es
  BY <1>8, <1>11, <1>14, <1>15, BodyRead, Zenon DEF n, z
<1>17. q2 > 0 /\ Body(d, 1 + q1, o, fs) => TrackEntries(d, 1 + q1) = fs
  BY <1>8, <1>12, <1>15, BodyRead, Zenon DEF m, z
<1> DEFINE G == d[x][2] = o /\ TrackEntries(d, x) \in {fs, es}
<1> HIDE DEF G
\* A header that has not been written over is at the old index's place.
<1>18. ASSUME x >= a PROVE q2 > 0 /\ x = 1 + q1 /\ d[x][2] = o
  <2>1. x > q1
    BY <1>2, <1>13
  <2>2. x <= q1 + q2
    <3> SUFFICES ASSUME x > q1 + q2 PROVE FALSE
      BY <1>2, <1>13
    <3>1. Kind(d, x) \in {"skip", "zero"}
      BY <1>3, <1>13, <1>18
    <3> QED
      BY <1>4, <3>1, Kinds
  <2>3. TrakCellIs(d[x], o, fs, q2, x - q1)
    <3>1. TrackCell(d[x], o, fs, q2, x - q1)
      BY <1>3, <1>13, <1>18, <2>1, <2>2
    <3> QED
      BY <3>1, Zenon DEF TrackCell
  <2>4. x - q1 \in Nat /\ x - q1 >= 1
    BY <1>2, <1>13, <2>1
  <2>5. d[x][1] = "trak"
    BY <1>3, <1>4, <1>13
  <2>6. x - q1 = 1
    BY <1>15, <2>3, <2>4, <2>5, KindPlace
  <2>7. d[x][2] = o
    BY <2>3, <2>6, Zenon DEF TrakCellIs
  <2> QED
    BY <1>2, <1>13, <2>2, <2>6, <2>7
<1>19. ASSUME x >= a PROVE G
  <2>1. q2 > 0 /\ x = 1 + q1 /\ d[x][2] = o
    BY <1>18, <1>19
  <2>2. a <= 2 + q1
    BY <1>2, <1>19, <2>1
  <2>3. TrackEntries(d, x) = fs
    BY <1>10, <1>14, <1>17, <2>1, <2>2
  <2> QED
    BY <2>1, <2>3 DEF G
<1>20. ASSUME x < a PROVE G
  <2>1. x = 1 + r1 /\ a >= 1 + x /\ x > r1 /\ x <= r1 + r2
    BY <1>2, <1>6, <1>13, <1>14, <1>20
  <2>2. d[x][2] = o
    <3>1. TrackCell(d[x], o, es, t, x - r1)
      BY <1>3, <1>13, <1>20, <2>1
    <3>2. x - r1 = 1
      BY <1>2, <2>1
    <3>3. TrakCellIs(d[x], o, es, t, 1)
      BY <3>1, <3>2, Zenon DEF TrackCell
    <3> QED
      BY <3>3 DEF TrakCellIs
  <2>3. n \in Nat /\ n >= 1 /\ r2 = 3 + 2 * n
    BY <1>2, <1>14
  <2>4. x + 1 \in Nat /\ x + 1 >= 1 /\ x + 1 < z
    BY <1>2, <1>13, <2>1, <2>3
  <2>5. CASE a = x + 1
    <3>1. x + 1 >= a /\ x + 1 > q1
      BY <1>2, <1>13, <2>1, <2>5
    <3>2. x + 1 <= q1 + q2
      <4> SUFFICES ASSUME x + 1 > q1 + q2 PROVE FALSE
        BY <1>2, <1>13
      <4>1. Kind(d, x + 1) \in {"skip", "zero"}
        BY <1>3, <2>4, <3>1
      <4> QED
        BY <1>9, <4>1, Kinds
    <3>3. TrakCellIs(d[x + 1], o, fs, q2, (x + 1) - q1)
      <4>1. TrackCell(d[x + 1], o, fs, q2, (x + 1) - q1)
        BY <1>3, <2>4, <3>1, <3>2
      <4> QED
        BY <4>1, Zenon DEF TrackCell
    <3>4. (x + 1) - q1 \in Nat /\ (x + 1) - q1 >= 1
      BY <1>2, <1>13, <3>1
    <3>5. d[x + 1][1] = "stsz"
      BY <1>3, <1>9, <2>4
    <3>6. (x + 1) - q1 = 2
      BY <1>15, <3>3, <3>4, <3>5, KindPlace
    <3>7. q2 > 0 /\ x = 1 + q1 /\ a <= 2 + q1
      BY <1>2, <2>1, <2>5, <3>2, <3>6
    <3>8. TrackEntries(d, x) = fs
      BY <1>10, <1>14, <1>17, <3>7
    <3> QED
      BY <2>2, <3>8 DEF G
  <2>6. CASE a >= 1 + r1 + r2
    <3>1. TrackEntries(d, x) = es
      BY <1>10, <1>14, <1>16, <2>1, <2>6
    <3> QED
      BY <2>2, <3>1 DEF G
  <2>7. CASE a >= x + 2 /\ a < 1 + r1 + r2
    <3>1. x + 1 < a /\ x + 1 > r1 /\ x + 1 <= r1 + r2 /\ (x + 1) - r1 = 2
      BY <1>2, <2>1, <2>3, <2>7
    <3>2. d[x + 1][2] = n
      <4>1. TrackCell(d[x + 1], o, es, t, (x + 1) - r1)
        BY <1>3, <2>4, <3>1
      <4>2. TrakCellIs(d[x + 1], o, es, t, 2)
        BY <3>1, <4>1, Zenon DEF TrackCell
      <4>3. d[x + 1][2] = Len(es)
        BY <4>2 DEF TrakCellIs
      <4> QED
        BY <4>3 DEF n
    <3> DEFINE l == r1 + r2
    <3>3. /\ n \in 1..n /\ x + 2 + n + n = l /\ l \in Nat /\ l >= 1 /\ l < z /\ l >= a
          /\ l > q1 /\ l = r1 + r2
      BY <1>2, <1>14, <2>1, <2>3, <2>7
    <3> HIDE DEF l
    <3>4. Kind(d, l) = "off"
      BY <1>9, <3>2, <3>3
    <3>5. l <= q1 + q2
      <4> SUFFICES ASSUME l > q1 + q2 PROVE FALSE
        BY <1>2, <3>3
      <4>1. Kind(d, l) \in {"skip", "zero"}
        BY <1>3, <3>3
      <4> QED
        BY <3>4, <4>1, Kinds
    <3>6. q1 = r1 /\ q2 = r2 /\ q2 > 0
      BY <1>2, <1>14, <3>3, <3>5
    <3>7. m = n
      BY <1>2, <2>3, <3>6
    <3>8. TrackEntries(d, x) = es
      BY <1>10, <1>14, <1>15, <1>16, <2>1, <3>6, <3>7
    <3> QED
      BY <2>2, <3>8 DEF G
  <2> QED
    BY <1>2, <1>13, <1>20, <2>1, <2>5, <2>6, <2>7
<1>21. G
  BY <1>2, <1>13, <1>19, <1>20
<1> QED
  BY <1>14, <1>15, <1>21, Zenon DEF G, o, fs, es, x

-----------------------------------------------------------------------------
(* What is read of a mixture, and of an index.                             *)

\* A track that is read goes to its place in the tables.
LEMMA WithIs ==
  ASSUME NEW tbl, DOMAIN tbl = Tracks, NEW d, NEW x, NEW u \in Tracks
  PROVE  /\ DOMAIN With(tbl, d, x) = Tracks
         /\ With(tbl, d, x)[u] = IF u = d[x][2] THEN TrackEntries(d, x) ELSE tbl[u]
  BY DEF With

\* The tables a reader makes of what it finds.
LEMMA RootTables ==
  ASSUME NEW d
  PROVE  LET one == BoxIsTrack(d, 1)
             two == GoesOn(d, 1) /\ BoxIsTrack(d, After(d, 1))
             x == After(d, 1)
             T == mov_reader_root(d).tab
         IN \A u \in Tracks :
              T[u] = IF two /\ u = d[x][2] THEN TrackEntries(d, x)
                     ELSE IF one /\ u = d[1][2] THEN TrackEntries(d, 1)
                     ELSE <<>>
<1> DEFINE one == BoxIsTrack(d, 1)
           two == GoesOn(d, 1) /\ BoxIsTrack(d, After(d, 1))
           x == After(d, 1)
           T == mov_reader_root(d).tab
           W1 == With(NoTrack, d, 1)
           W2 == With(W1, d, x)
<1>1. T = IF two THEN W2 ELSE IF one THEN W1 ELSE NoTrack
  BY DEF mov_reader_root
<1>2. two => one
  BY Zenon DEF GoesOn
<1>3. DOMAIN NoTrack = Tracks /\ \A u \in Tracks : NoTrack[u] = <<>>
  BY DEF NoTrack
<1>4. \A u \in Tracks : W1[u] = IF u = d[1][2] THEN TrackEntries(d, 1) ELSE <<>>
  BY <1>3, WithIs
<1>5. DOMAIN W1 = Tracks
  BY <1>3 DEF With
<1>6. \A u \in Tracks : W2[u] = IF u = d[x][2] THEN TrackEntries(d, x) ELSE W1[u]
  <2> HIDE DEF W1, x
  <2> QED
    BY <1>5, WithIs
<1> HIDE DEF one, two, x, T, W1, W2
<1>7. \A u \in Tracks :
              T[u] = IF two /\ u = d[x][2] THEN TrackEntries(d, x)
                     ELSE IF one /\ u = d[1][2] THEN TrackEntries(d, 1)
                     ELSE <<>>
  BY <1>1, <1>2, <1>3, <1>4, <1>6
<1> QED
  BY <1>7, Zenon DEF one, two, x, T

\* Whatever index a reader meets half written over another, the tracks it gets
\* through are each of one of the two.
LEMMA MixtureReads ==
  ASSUME NEW d, NEW ord, NEW tb0, NEW tb, NEW q1, NEW q2, NEW r1, NEW r2, NEW a, NEW s, NEW t,
         Mixture(d, ord, tb0, tb, q1, q2, r1, r2, a, s, t), Rooms(ord, tb0, tb, q1, q2, r1, r2),
         NEW u \in Tracks
  PROVE  mov_reader_root(d).tab[u] \in {<<>>, tb0[u], tb[u]}
<1> DEFINE one == BoxIsTrack(d, 1)
           two == GoesOn(d, 1) /\ BoxIsTrack(d, After(d, 1))
           x == After(d, 1)
           T == mov_reader_root(d).tab
<1>1. T[u] = IF two /\ u = d[x][2] THEN TrackEntries(d, x)
             ELSE IF one /\ u = d[1][2] THEN TrackEntries(d, 1)
             ELSE <<>>
  BY RootTables
<1>2. two => d[x][2] = ord[2] /\ TrackEntries(d, x) \in {tb0[ord[2]], tb[ord[2]]}
  BY SecondTrack
<1>3. one => d[1][2] = ord[1] /\ TrackEntries(d, 1) \in {tb0[ord[1]], tb[ord[1]]}
  BY FirstTrack
<1> HIDE DEF one, two, x, T
<1>4. T[u] \in {<<>>, tb0[u], tb[u]}
  <2>1. CASE two /\ u = d[x][2]
    <3>1. T[u] = TrackEntries(d, x) /\ u = ord[2]
      BY <1>1, <1>2, <2>1, Zenon
    <3> QED
      BY <1>2, <2>1, <3>1, Zenon
  <2>2. CASE ~(two /\ u = d[x][2]) /\ one /\ u = d[1][2]
    <3>1. T[u] = TrackEntries(d, 1) /\ u = ord[1]
      BY <1>1, <1>3, <2>2, Zenon
    <3> QED
      BY <1>3, <2>2, <3>1, Zenon
  <2>3. CASE ~(two /\ u = d[x][2]) /\ ~(one /\ u = d[1][2])
    <3>1. T[u] = <<>>
      BY <1>1, <2>3, Zenon
    <3> QED
      BY <3>1, Zenon
  <2> QED
    BY <2>1, <2>2, <2>3, Zenon
<1> QED
  BY <1>4, Zenon DEF T

\* An index that is all there is a mixture with itself.
LEMMA IndexIsMixture ==
  ASSUME NEW d \in Contents, NEW ord, NEW tb \in [Tracks -> Seq(Entry)],
         NEW r1, NEW r2, Shape(ord, tb, r1, r2), (1 + r1) + r2 < MdatAt, Indexes(d, ord, tb)
  PROVE  Mixture(d, ord, tb, tb, r1, r2, r1, r2, 1, 0, 0)
<1>1. Grown(tb, tb)
  <2> SUFFICES ASSUME NEW u \in Tracks PROVE Len(tb[u]) <= Len(tb[u])
    BY DEF Grown
  <2>1. Len(tb[u]) \in Nat
    BY LenProperties
  <2> QED
    BY <2>1
<1>2. Stage(r1, r2, 1, 0, 0)
  <2>1. r1 \in Nat /\ r2 \in Nat
    BY Zenon DEF Shape
  <2> QED
    BY <2>1 DEF Stage
<1>3. Mixed(d, ord, tb, tb, 1, 0, 0)
  <2> SUFFICES ASSUME NEW y \in 1..(MdatAt - 1)
               PROVE  ~(y < 1) /\ Old(d, ord, tb, y)
    BY DEF Mixed
  <2>1. Old(d, ord, tb, y)
    BY Zenon DEF Indexes
  <2>2. y \in Nat /\ y >= 1
    BY FrontAddr
  <2> QED
    BY <2>1, <2>2
<1> DEFINE a == 1
           s == 0
<1>4. Stage(r1, r2, a, s, s) /\ Mixed(d, ord, tb, tb, a, s, s)
  BY <1>2, <1>3
<1> HIDE DEF a, s
<1>5. Mixture(d, ord, tb, tb, r1, r2, r1, r2, a, s, s)
  BY <1>1, <1>4, MixtureIs, Zenon
<1> QED
  BY <1>5 DEF a, s

\* All tracks that have samples are among those that were added.
Full(ord, tb) == \A u \in Tracks : tb[u] # <<>> => \E i \in {1, 2} : Room(ord, tb, i) > 0 /\ ord[i] = u

\* A track of such an index, where it is.
LEMMA TrackThere ==
  ASSUME NEW d \in Contents, NEW x \in Nat, NEW t \in Nat, NEW es \in Seq(Entry), NEW r,
         r = TrakCells(Len(es)), x + r <= MdatAt, Body(d, x, t, es),
         Kind(d, x) = "trak", d[x][3] # 0
  PROVE  GoesOn(d, x) /\ BoxIsTrack(d, x) /\ TrackEntries(d, x) = es /\ After(d, x) = x + r
<1>1. TrackWhole(d, x) /\ TrackEntries(d, x) = es /\ After(d, x) = x + r
  BY BodyRead
<1> QED
  BY <1>1, Zenon DEF GoesOn, BoxIsTrack

\* The index that was written is the index that is read.
LEMMA IndexReads ==
  ASSUME NEW d \in Contents, NEW ord \in Orders, NEW tb \in [Tracks -> Seq(Entry)],
         NEW r1, NEW r2, Shape(ord, tb, r1, r2), Full(ord, tb),
         (1 + r1) + r2 < MdatAt, Indexes(d, ord, tb)
  PROVE  mov_reader_root(d) = [tab |-> tb, whole |-> TRUE]
<1> DEFINE o == ord[1]
           p == ord[2]
           es == tb[o]
           fs == tb[p]
           z == MdatAt
           x == 1 + r1
           y == (1 + r1) + r2
           T == mov_reader_root(d).tab
<1>1. Mixture(d, ord, tb, tb, r1, r2, r1, r2, 1, 0, 0)
  BY IndexIsMixture, Zenon
<1>2. Rooms(ord, tb, tb, r1, r2, r1, r2)
  <2>1. Grown(tb, tb)
    BY <1>1, Zenon DEF Mixture
  <2> QED
    BY <2>1, RoomsAre, Zenon
<1>3. /\ r1 = Room(ord, tb, 1) /\ r2 = Room(ord, tb, 2)
      /\ r1 \in Nat /\ r2 \in Nat /\ (r1 = 0 => r2 = 0)
      /\ r1 > 0 => /\ o \in Tracks /\ Len(es) \in Nat /\ Len(es) >= 1 /\ r1 = 3 + 2 * Len(es)
      /\ r2 > 0 => /\ p \in Tracks /\ Len(fs) \in Nat /\ Len(fs) >= 1 /\ r2 = 3 + 2 * Len(fs)
  BY Zenon DEF Shape
<1>4. ASSUME NEW i \in Nat, i >= 1, i < z
      PROVE  /\ Kind(d, i) = d[i][1]
             /\ i <= r1 => TrackCell(d[i], o, es, r1, i)
             /\ i > r1 /\ i <= r1 + r2 => TrackCell(d[i], p, fs, r2, i - r1)
             /\ i > r1 + r2 => Kind(d, i) \in {"skip", "zero"}
  <2>1. /\ Kind(d, i) = d[i][1]
        /\ i >= 1 /\ i <= r1 => TrackCell(d[i], o, es, r1, i)
        /\ i >= 1 /\ i > r1 /\ i <= r1 + r2 => TrackCell(d[i], p, fs, r2, i - r1)
        /\ i >= 1 /\ i > r1 + r2 => Kind(d, i) \in {"skip", "zero"}
    BY <1>1, <1>4, MixtureCells
  <2> QED
    BY <1>4, <2>1, Zenon
<1>5. MdatAt \in Nat
  BY FrontAddr
<1>6. r1 > 0 => Body(d, 1, o, es)
  <2>1. r1 > 0 => 1 <= 2
    OBVIOUS
  <2> QED
    BY <1>1, <1>2, <2>1, FirstBody
<1>7. r2 > 0 => Body(d, x, p, fs)
  <2>1. 1 <= 2 + r1
    BY <1>3
  <2>2. r2 > 0 => r1 > 0
    BY <1>3
  <2> QED
    BY <1>1, <1>2, <2>1, <2>2, SecondBody
<1>8. /\ r1 > 0 => o \in Nat /\ es \in Seq(Entry)
      /\ r2 > 0 => p \in Nat /\ fs \in Seq(Entry)
  BY <1>2, Zenon DEF Rooms
<1>9. \A u \in Tracks :
        T[u] = IF (GoesOn(d, 1) /\ BoxIsTrack(d, After(d, 1))) /\ u = d[After(d, 1)][2]
                 THEN TrackEntries(d, After(d, 1))
               ELSE IF BoxIsTrack(d, 1) /\ u = d[1][2] THEN TrackEntries(d, 1)
               ELSE <<>>
  BY RootTables
<1>10. Full(ord, tb) /\ \A u \in Tracks : tb[u] # <<>> => (r1 > 0 /\ o = u) \/ (r2 > 0 /\ p = u)
  <2>1. \A u \in Tracks : tb[u] # <<>> => \E i \in {1, 2} : Room(ord, tb, i) > 0 /\ ord[i] = u
    BY Zenon DEF Full
  <2> QED
    BY <1>3, <2>1
<1>11. r2 > 0 => o # p
  <2>1. r2 > 0 => Present(ord, tb, 2)
    <3>1. 2 \in {1, 2}
      OBVIOUS
    <3> QED
      BY <1>3, <3>1, RoomIs
  <2> QED
    BY <2>1 DEF Present, Orders, Video, Audio
<1>12. x + r2 = y /\ x \in Nat /\ y \in Nat /\ y < z /\ y >= 1 /\ x >= 1 /\ x < z /\ y > r1 + r2
  BY <1>3, <1>5
<1>13. TrakCells(Len(es)) = 3 + 2 * Len(es) /\ TrakCells(Len(fs)) = 3 + 2 * Len(fs)
  BY DEF TrakCells
<1>14. T = [u \in Tracks |-> T[u]]
  <2> DEFINE Tables == {w : w \in [Tracks -> Seq(Entry) \cup {TrackEntries(d, 1), TrackEntries(d, After(d, 1))}]}
  <2>1. \A w \in Tables : \A i \in {1, After(d, 1)} : With(w, d, i) \in Tables
    BY DEF With
  <2>2. NoTrack \in Tables
    BY EmptySeq DEF NoTrack
  <2>3. \/ T = With(With(NoTrack, d, 1), d, After(d, 1))
        \/ T = With(NoTrack, d, 1)
        \/ T = NoTrack
    BY DEF mov_reader_root
  <2>4. \A w \in Tables : w = [u \in Tracks |-> w[u]]
    OBVIOUS
  <2> HIDE DEF T, Tables
  <2>5. With(NoTrack, d, 1) \in Tables
    BY <2>1, <2>2
  <2>6. With(With(NoTrack, d, 1), d, After(d, 1)) \in Tables
    BY <2>1, <2>5
  <2> QED
    BY <2>2, <2>3, <2>4, <2>5, <2>6, Zenon
<1> DEFINE R == mov_reader_root(d)
<1>15. R.whole = IF GoesOn(d, 1) /\ BoxIsTrack(d, After(d, 1))
                   THEN d[After(d, 1)][3] = 0
                        \/ (Boundary(d, After(d, After(d, 1))) /\ Kind(d, After(d, After(d, 1))) # "trak")
                 ELSE IF BoxIsTrack(d, 1)
                   THEN d[1][3] = 0 \/ (Boundary(d, After(d, 1)) /\ Kind(d, After(d, 1)) # "trak")
                 ELSE Boundary(d, 1) /\ Kind(d, 1) # "trak"
  BY DEF mov_reader_root
<1>16. R = [tab |-> T, whole |-> R.whole]
  BY DEF mov_reader_root
<1> HIDE DEF o, p, es, fs, z, x, y, T, R
\* Behind the last track the reader ends.
<1>17. Kind(d, y) \in {"skip", "zero"}
  BY <1>4, <1>12
<1>18. Boundary(d, y) /\ Kind(d, y) # "trak" /\ ~BoxIsTrack(d, y)
  <2>1. Kind(d, y) # "trak"
    BY <1>17, Kinds
  <2> QED
    BY <1>17, <2>1 DEF Boundary, BoxIsTrack
<1>19. r1 > 0 => /\ GoesOn(d, 1) /\ BoxIsTrack(d, 1) /\ TrackEntries(d, 1) = es /\ After(d, 1) = x
                 /\ d[1][2] = o
  <2> SUFFICES ASSUME r1 > 0
               PROVE  /\ GoesOn(d, 1) /\ BoxIsTrack(d, 1) /\ TrackEntries(d, 1) = es /\ After(d, 1) = x
                      /\ d[1][2] = o
    OBVIOUS
  <2>1. 1 \in Nat /\ 1 >= 1 /\ 1 < z /\ 1 <= r1 /\ 1 + r1 <= z /\ r1 # 0
    <3>1. r1 \in Nat /\ x = 1 + r1
      BY <1>3 DEF x
    <3>2. x \in Nat /\ x < z /\ z \in Nat
      BY <1>5, <1>12 DEF z
    <3> QED
      BY <3>1, <3>2
  <2>2. TrakCellIs(d[1], o, es, r1, 1)
    <3>1. TrackCell(d[1], o, es, r1, 1)
      BY <1>4, <2>1
    <3> QED
      BY <3>1, Zenon DEF TrackCell
  <2>3. Kind(d, 1) = "trak" /\ d[1][2] = o /\ d[1][3] # 0
    BY <1>4, <2>1, <2>2 DEF TrakCellIs
  <2>4. r1 = TrakCells(Len(es))
    BY <1>3, <1>13
  <2>5. 1 + r1 <= MdatAt
    BY <2>1 DEF z
  <2> QED
    BY <1>6, <1>8, <2>1, <2>3, <2>4, <2>5, TrackThere DEF x
<1>20. r2 > 0 => /\ GoesOn(d, x) /\ BoxIsTrack(d, x) /\ TrackEntries(d, x) = fs /\ After(d, x) = y
                 /\ d[x][2] = p /\ d[x][3] # 0
  <2> SUFFICES ASSUME r2 > 0
               PROVE  /\ GoesOn(d, x) /\ BoxIsTrack(d, x) /\ TrackEntries(d, x) = fs /\ After(d, x) = y
                      /\ d[x][2] = p /\ d[x][3] # 0
    OBVIOUS
  <2>1. x > r1 /\ x <= r1 + r2 /\ x - r1 = 1 /\ x + r2 <= z /\ r2 # 0
    <3>1. r1 \in Nat /\ r2 \in Nat /\ x = 1 + r1
      BY <1>3 DEF x
    <3>2. x + r2 = y /\ y \in Nat /\ y < z /\ z \in Nat
      BY <1>5, <1>12 DEF z
    <3> QED
      BY <3>1, <3>2
  <2>2. TrakCellIs(d[x], p, fs, r2, 1)
    <3>1. TrackCell(d[x], p, fs, r2, x - r1)
      BY <1>4, <1>12, <2>1
    <3> QED
      BY <2>1, <3>1, Zenon DEF TrackCell
  <2>3. Kind(d, x) = "trak" /\ d[x][2] = p /\ d[x][3] # 0
    BY <1>4, <1>12, <2>1, <2>2 DEF TrakCellIs
  <2>4. r2 = TrakCells(Len(fs))
    BY <1>3, <1>13
  <2>5. x + r2 <= MdatAt
    BY <2>1 DEF z
  <2>6. GoesOn(d, x) /\ BoxIsTrack(d, x) /\ TrackEntries(d, x) = fs /\ After(d, x) = x + r2
    BY <1>7, <1>8, <1>12, <2>3, <2>4, <2>5, TrackThere
  <2> QED
    BY <1>12, <2>3, <2>6
<1>21. r2 = 0 => y = x
  BY <1>3 DEF x, y
<1>22. r1 = 0 => r2 = 0 /\ y = 1
  BY <1>3 DEF y
<1>23. r1 = 0 \/ (r1 > 0 /\ r2 = 0) \/ (r1 > 0 /\ r2 > 0)
  BY <1>3
<1>24. R.whole = TRUE
  <2>1. CASE r1 = 0
    <3>1. y = 1
      BY <1>22, <2>1, Zenon
    <3>2. ~BoxIsTrack(d, 1) /\ Boundary(d, 1) /\ Kind(d, 1) # "trak"
      BY <1>18, <3>1
    <3>3. ~GoesOn(d, 1)
      BY <3>2, Zenon DEF GoesOn
    <3> QED
      BY <1>15, <3>2, <3>3
  <2>2. CASE r1 > 0 /\ r2 = 0
    BY <1>15, <1>18, <1>19, <1>21, <2>2
  <2>3. CASE r1 > 0 /\ r2 > 0
    BY <1>15, <1>18, <1>19, <1>20, <2>3
  <2> QED
    BY <1>23, <2>1, <2>2, <2>3
<1>25. ASSUME NEW u \in Tracks PROVE T[u] = tb[u]
  <2>1. CASE r1 = 0
    <3>1. y = 1 /\ r2 = 0
      BY <1>22, <2>1, Zenon
    <3>2. ~BoxIsTrack(d, 1)
      BY <1>18, <3>1
    <3>3. ~GoesOn(d, 1)
      BY <3>2, Zenon DEF GoesOn
    <3>4. T[u] = <<>>
      BY <1>9, <3>2, <3>3, Zenon
    <3>5. ~(r1 > 0) /\ ~(r2 > 0)
      BY <2>1, <3>1
    <3> QED
      BY <1>10, <3>4, <3>5, Zenon
  <2>2. CASE r1 > 0 /\ r2 = 0
    <3>1. T[u] = IF u = o THEN es ELSE <<>>
      BY <1>9, <1>18, <1>19, <1>21, <2>2
    <3>2. ~(r2 > 0)
      BY <2>2
    <3>3. tb[u] = IF u = o THEN es ELSE <<>>
      BY <1>10, <3>2, Zenon DEF es
    <3> QED
      BY <3>1, <3>3
  <2>3. CASE r1 > 0 /\ r2 > 0
    <3>1. T[u] = IF u = p THEN fs ELSE IF u = o THEN es ELSE <<>>
      BY <1>9, <1>19, <1>20, <2>3
    <3>2. tb[u] = IF u = p THEN fs ELSE IF u = o THEN es ELSE <<>>
      BY <1>10, Zenon DEF es, fs
    <3> QED
      BY <3>1, <3>2
  <2> QED
    BY <1>23, <2>1, <2>2, <2>3
<1>26. T = tb
  BY <1>14, <1>25
<1>27. R = [tab |-> tb, whole |-> TRUE]
  BY <1>16, <1>24, <1>26
<1> QED
  BY <1>27 DEF R

-----------------------------------------------------------------------------
(* The tables of a recording.                                              *)

\* What the lemmas take for granted of the recorder's state.
Recs(g, ord, ss, ind) ==
  /\ GoodFile(g) /\ ord \in Orders
  /\ ss \in [Tracks -> Seq(Sample)] /\ ind \in [Tracks -> Seq(Entry)]
  /\ Len(ss[Video]) + Len(ss[Audio]) <= MaxSamples

\* A reader's tables are a function on the tracks.
LEMMA RootFunction ==
  ASSUME NEW d
  PROVE  mov_reader_root(d).tab = [u \in Tracks |-> mov_reader_root(d).tab[u]]
<1> DEFINE T == mov_reader_root(d).tab
           Tables == {w : w \in [Tracks -> Seq(Entry) \cup {TrackEntries(d, 1), TrackEntries(d, After(d, 1))}]}
<1>1. \A w \in Tables : \A i \in {1, After(d, 1)} : With(w, d, i) \in Tables
  BY DEF With
<1>2. NoTrack \in Tables
  BY EmptySeq DEF NoTrack
<1>3. \/ T = With(With(NoTrack, d, 1), d, After(d, 1))
      \/ T = With(NoTrack, d, 1)
      \/ T = NoTrack
  BY DEF mov_reader_root
<1>4. \A w \in Tables : w = [u \in Tracks |-> w[u]]
  OBVIOUS
<1> HIDE DEF T, Tables
<1>5. With(NoTrack, d, 1) \in Tables
  BY <1>1, <1>2
<1>6. With(With(NoTrack, d, 1), d, After(d, 1)) \in Tables
  BY <1>1, <1>5
<1>7. T = [u \in Tracks |-> T[u]]
  BY <1>2, <1>3, <1>4, <1>5, <1>6, Zenon
<1> QED
  BY <1>7 DEF T

\* A sample, and its data.
LEMMA SampleFields ==
  ASSUME NEW s \in Sample
  PROVE  /\ s.off \in Nat /\ s.len \in Nat /\ s.len <= MaxLen /\ s.id \in Nat
         /\ s.id \in 1..MaxSamples
         /\ DOMAIN DataOf(s) = 1..s.len
         /\ \A j \in 1..s.len : DataOf(s)[j] = Data(s.id, j)
         /\ EntryOf(s) \in Entry
         /\ EntryOf(s).off = s.off /\ EntryOf(s).len = s.len
<1>1. s.off \in Nat /\ s.len \in 0..MaxLen /\ s.id \in 1..MaxSamples /\ s.key \in {0, 1}
  BY DEF Sample
<1>2. MaxLen \in Nat /\ MaxSamples \in Nat
  BY IndexAssumption
<1>3. s.len \in Nat /\ s.len <= MaxLen /\ s.id \in Nat
  BY <1>1, <1>2
<1>4. EntryOf(s) \in Entry /\ EntryOf(s).off = s.off /\ EntryOf(s).len = s.len
  BY <1>1, <1>3 DEF EntryOf, Entry
<1>5. /\ DOMAIN DataOf(s) = 1..s.len
      /\ \A j \in 1..s.len : DataOf(s)[j] = Data(s.id, j)
  BY DEF DataOf, FrameData
<1> QED
  BY <1>1, <1>3, <1>4, <1>5

\* The samples of a track.
LEMMA SamplesOf ==
  ASSUME NEW ss \in [Tracks -> Seq(Sample)], NEW t \in Tracks
  PROVE  /\ ss[t] \in Seq(Sample) /\ Len(ss[t]) \in Nat /\ DOMAIN ss[t] = 1..Len(ss[t])
         /\ \A i \in DOMAIN ss[t] : ss[t][i] \in Sample
<1>1. ss[t] \in Seq(Sample)
  OBVIOUS
<1>2. Len(ss[t]) \in Nat /\ DOMAIN ss[t] = 1..Len(ss[t])
  BY <1>1, LenProperties
<1>3. \A i \in 1..Len(ss[t]) : ss[t][i] \in Sample
  BY <1>1, ElementOfSeq
<1> QED
  BY <1>1, <1>2, <1>3

\* The table of a track's samples names them all.
LEMMA TableNames ==
  ASSUME NEW ss \in [Tracks -> Seq(Sample)], NEW t \in Tracks
  PROVE  Names(Table(ss)[t], ss[t]) /\ Len(Table(ss)[t]) = Len(ss[t])
<1>1. Table(ss)[t] \in Seq(Entry) /\ Len(Table(ss)[t]) = Len(ss[t])
  BY TableType
<1>2. Len(ss[t]) \in Nat /\ DOMAIN ss[t] = 1..Len(ss[t])
  BY SamplesOf
<1>3. \A i \in 1..Len(ss[t]) : Table(ss)[t][i] = EntryOf(ss[t][i])
  BY <1>2 DEF Table, Entries
<1> QED
  BY <1>1, <1>2, <1>3 DEF Names

\* Tables that name samples have grown to the table of all of them.
LEMMA NamesGrown ==
  ASSUME NEW ss \in [Tracks -> Seq(Sample)], NEW ind \in [Tracks -> Seq(Entry)],
         \A t \in Tracks : Names(ind[t], ss[t])
  PROVE  Grown(ind, Table(ss))
<1> SUFFICES ASSUME NEW t \in Tracks
             PROVE  /\ Len(ind[t]) <= Len(Table(ss)[t])
                    /\ \A i \in 1..Len(ind[t]) : ind[t][i] = Table(ss)[t][i]
  BY DEF Grown
<1>1. /\ Len(ind[t]) <= Len(ss[t])
      /\ \A i \in 1..Len(ind[t]) : ind[t][i] = EntryOf(ss[t][i])
  BY Zenon DEF Names
<1>2. /\ Len(Table(ss)[t]) = Len(ss[t])
      /\ \A i \in 1..Len(Table(ss)[t]) : Table(ss)[t][i] = EntryOf(ss[t][i])
  BY TableNames, Zenon DEF Names
<1>3. Len(ind[t]) \in Nat /\ Len(ss[t]) \in Nat
  BY LenProperties, SamplesOf
<1>4. \A i \in 1..Len(ind[t]) : i \in 1..Len(ss[t])
  <2> DEFINE m == Len(ind[t])
             n == Len(ss[t])
  <2>1. m \in Nat /\ n \in Nat /\ m <= n
    BY <1>1, <1>3
  <2> HIDE DEF m, n
  <2>2. \A i \in 1..m : i \in 1..n
    BY <2>1
  <2> QED
    BY <2>2 DEF m, n
<1> QED
  BY <1>1, <1>2, <1>4

\* The room an index takes, and its tracks.
LEMMA IndexFits ==
  ASSUME NEW ord \in Orders, NEW ss \in [Tracks -> Seq(Sample)], NEW ind \in [Tracks -> Seq(Entry)],
         Len(ss[Video]) + Len(ss[Audio]) <= MaxSamples,
         \A t \in Tracks : Names(ind[t], ss[t]), TracksHaveSamples(ord, ss),
         NEW q1, q1 = Room(ord, ind, 1), NEW q2, q2 = Room(ord, ind, 2),
         Present(ord, ind, 2) => Present(ord, ind, 1)
  PROVE  Shape(ord, ind, q1, q2) /\ (1 + q1) + q2 < MdatAt /\ Full(ord, ind)
<1>1. Shape(ord, ind, q1, q2)
  BY ShapeIs
<1>2. Video \in Tracks /\ Audio \in Tracks
  BY DEF Tracks
<1>3. \A t \in Tracks : Len(ind[t]) <= Len(ss[t]) /\ Len(ind[t]) \in Nat /\ Len(ss[t]) \in Nat
  BY LenProperties DEF Names
<1>4. MoovCap \in Nat /\ MaxSamples \in Nat /\ 8 + 2 * MaxSamples <= MoovCap
  BY IndexAssumption DEF TrakCells
<1>5. Len(ind[Video]) + Len(ind[Audio]) <= MaxSamples
  <2> DEFINE a == Len(ind[Video])
             b == Len(ind[Audio])
             x == Len(ss[Video])
             y == Len(ss[Audio])
             m == MaxSamples
  <2>1. a \in Nat /\ b \in Nat /\ x \in Nat /\ y \in Nat /\ a <= x /\ b <= y /\ x + y <= m /\ m \in Nat
    BY <1>2, <1>3, <1>4
  <2> HIDE DEF a, b, x, y, m
  <2>2. a + b <= m
    BY <2>1
  <2> QED
    BY <2>2 DEF a, b, m
<1>6. q1 \in Nat /\ q2 \in Nat /\ q1 + q2 <= 6 + 2 * MaxSamples
  BY <1>5, RoomBound
<1>7. (1 + q1) + q2 < MdatAt
  <2>1. MoovCap = MdatAt
    BY DEF MdatAt
  <2> DEFINE z == MdatAt
             m == MaxSamples
  <2>2. z \in Nat /\ m \in Nat /\ 8 + 2 * m <= z /\ q1 + q2 <= 6 + 2 * m
    BY <1>4, <1>6, <2>1
  <2> HIDE DEF z, m
  <2>3. (1 + q1) + q2 < z
    BY <1>6, <2>2
  <2> QED
    BY <2>3 DEF z
<1>8. Full(ord, ind)
  <2> SUFFICES ASSUME NEW u \in Tracks, ind[u] # <<>>
               PROVE  \E i \in {1, 2} : Room(ord, ind, i) > 0 /\ ord[i] = u
    BY DEF Full
  <2>1. ss[u] # <<>>
    <3>1. Len(ind[u]) # 0
      BY EmptySeq
    <3>2. Len(ss[u]) # 0
      <4> DEFINE m == Len(ind[u])
                 n == Len(ss[u])
      <4>1. m \in Nat /\ n \in Nat /\ m <= n /\ m # 0
        BY <1>3, <3>1
      <4> HIDE DEF m, n
      <4>2. n # 0
        BY <4>1
      <4> QED
        BY <4>2 DEF n
    <3> QED
      BY <3>2, EmptySeq
  <2>2. PICK i \in DOMAIN ord : ord[i] = u
    BY <2>1, Zenon DEF TracksHaveSamples
  <2>3. i \in {1, 2}
    BY DEF Orders
  <2>4. Present(ord, ind, i)
    BY <2>2 DEF Present
  <2>5. Room(ord, ind, i) > 0
    BY <2>3, <2>4, RoomIs
  <2> QED
    BY <2>2, <2>3, <2>5
<1> QED
  BY <1>1, <1>7, <1>8

\* The index of all samples: a second track only behind a first.
LEMMA TableInOrder ==
  ASSUME NEW ord \in Orders, NEW ss \in [Tracks -> Seq(Sample)], TracksHaveSamples(ord, ss),
         Present(ord, Table(ss), 2)
  PROVE  Present(ord, Table(ss), 1)
<1>1. 1 \in DOMAIN ord /\ ord[1] \in Tracks
  BY DEF Present, Orders, Tracks
<1>2. ss[ord[1]] # <<>>
  BY <1>1, Zenon DEF TracksHaveSamples
<1>3. Len(ss[ord[1]]) # 0
  BY <1>1, <1>2, SamplesOf, EmptySeq
<1>4. Len(Table(ss)[ord[1]]) # 0
  BY <1>1, <1>3, TableNames
<1>5. Table(ss)[ord[1]] # <<>>
  BY <1>4, EmptySeq
<1> QED
  BY <1>1, <1>5 DEF Present

-----------------------------------------------------------------------------
(* A write into the front of the file.                                     *)

\* A write somewhere else.
LEMMA PutElsewhere ==
  ASSUME NEW d, NEW p \in Nat, NEW u \in Seq(Cell), NEW y \in Addr, y < p \/ y >= p + Len(u)
  PROVE  Put(d, p, u)[y] = d[y]
<1>1. y \in Nat /\ Len(u) \in Nat
  BY FileAssumption, LenProperties
<1>2. ~(p <= y /\ y < p + Len(u))
  <2> DEFINE n == Len(u)
  <2>1. n \in Nat /\ (y < p \/ y >= p + n)
    BY <1>1
  <2> HIDE DEF n
  <2>2. ~(p <= y /\ y < p + n)
    BY <1>1, <2>1
  <2> QED
    BY <2>2 DEF n
<1> QED
  BY <1>2, PutAt

\* leaves the data where it is.
LEMMA HoldsStays ==
  ASSUME NEW d, NEW p \in Nat, NEW u \in Seq(Cell), NEW x \in Nat, NEW n \in Nat,
         NEW c, DOMAIN c = 1..n, x + n <= p \/ x >= p + Len(u), Holds(d, x, c)
  PROVE  Holds(Put(d, p, u), x, c)
<1> SUFFICES ASSUME NEW i \in 1..n
             PROVE  x + i - 1 \in Addr /\ Put(d, p, u)[x + i - 1] = c[i]
  BY DEF Holds
<1>1. x + i - 1 \in Addr /\ d[x + i - 1] = c[i]
  BY Zenon DEF Holds
<1> DEFINE y == x + i - 1
           m == Len(u)
<1>2. m \in Nat /\ (x + n <= p \/ x >= p + m)
  BY LenProperties
<1>3. y < p \/ y >= p + m
  <2> HIDE DEF m
  <2> QED
    BY <1>2
<1>4. Put(d, p, u)[y] = d[y]
  BY <1>1, <1>3, PutElsewhere
<1> QED
  BY <1>1, <1>4

\* Every content that has all the data, and of whose tables each is the last
\* finished one or the new one, is sound.
LEMMA SoundFrom ==
  ASSUME NEW d, NEW ss \in [Tracks -> Seq(Sample)], NEW ind \in [Tracks -> Seq(Entry)],
         \A u \in Tracks : Names(ind[u], ss[u]),
         \A u \in Tracks : mov_reader_root(d).tab[u] \in {<<>>, ind[u], Table(ss)[u]},
         AllWritten(d, ss)
  PROVE  Sound(d, ss)
<1> DEFINE T == mov_reader_root(d).tab
<1> SUFFICES ASSUME NEW t \in Tracks
             PROVE  /\ Names(T[t], ss[t])
                    /\ \A i \in 1..Len(T[t]) : Holds(d, ss[t][i].off, DataOf(ss[t][i]))
  BY DEF Sound
<1>1. T[t] \in {<<>>, ind[t], Table(ss)[t]}
  OBVIOUS
<1> HIDE DEF T
<1>2. ss[t] \in Seq(Sample) /\ Len(ss[t]) \in Nat /\ DOMAIN ss[t] = 1..Len(ss[t])
  BY SamplesOf
<1>3. Names(<<>>, ss[t])
  <2>1. <<>> \in Seq(Entry) /\ Len(<<>>) = 0
    BY EmptySeq
  <2> QED
    BY <1>2, <2>1 DEF Names
<1>4. Names(T[t], ss[t])
  BY <1>1, <1>3, TableNames
<1>5. \A i \in 1..Len(T[t]) : i \in DOMAIN ss[t]
  <2> DEFINE m == Len(T[t])
             n == Len(ss[t])
  <2>1. T[t] \in Seq(Entry) /\ m <= n
    BY <1>4, Zenon DEF Names
  <2>2. m \in Nat /\ n \in Nat
    BY <1>2, <2>1, LenProperties
  <2> HIDE DEF m, n
  <2>3. \A i \in 1..m : i \in 1..n
    BY <2>1, <2>2
  <2> QED
    BY <1>2, <2>3 DEF m, n
<1> QED
  BY <1>4, <1>5, Zenon DEF AllWritten

\* Nothing in front of the media data touches it.
LEMMA FrontWrite ==
  ASSUME NEW d \in Contents, NEW ss \in [Tracks -> Seq(Sample)], NEW e \in Nat, e >= DataAt,
         SamplesLie(ss, e), AllWritten(d, ss), DataOrHole(d, ss, e),
         NEW p \in Nat, p <= MdatAt, NEW v \in Cell
  PROVE  /\ Put(d, p, <<v>>) \in Contents
         /\ AllWritten(Put(d, p, <<v>>), ss) /\ DataOrHole(Put(d, p, <<v>>), ss, e)
<1> DEFINE u == <<v>>
           w == Put(d, p, u)
<1>1. u \in Seq(Cell) /\ Len(u) = 1
  OBVIOUS
<1>2. MdatAt \in Nat /\ DataAt = MdatAt + 1 /\ DataAt \in Nat
  BY IndexAssumption DEF MdatAt, DataAt
<1> HIDE DEF u
<1>3. w \in Contents
  BY <1>1, PutType
<1>4. \A y \in Addr : y >= DataAt => w[y] = d[y]
  <2> SUFFICES ASSUME NEW y \in Addr, y >= DataAt PROVE w[y] = d[y]
    OBVIOUS
  <2>1. y \in Nat
    BY FileAssumption
  <2>2. y >= p + 1
    <3> DEFINE m == MdatAt
               n == DataAt
    <3>1. m \in Nat /\ n = m + 1 /\ y >= n /\ p <= m
      BY <1>2
    <3> HIDE DEF m, n
    <3> QED
      BY <2>1, <3>1
  <2> QED
    BY <1>1, <2>2, PutElsewhere
<1>5. ASSUME NEW t \in Tracks, NEW i \in DOMAIN ss[t]
      PROVE  /\ ss[t][i] \in Sample
             /\ ss[t][i].off >= DataAt
             /\ \A j \in 1..ss[t][i].len : ss[t][i].off + j - 1 >= DataAt
  <2>1. ss[t][i] \in Sample
    BY SamplesOf
  <2>2. ss[t][i].off >= DataAt
    BY Zenon DEF SamplesLie
  <2> DEFINE x == ss[t][i].off
             n == ss[t][i].len
             m == DataAt
  <2>3. x \in Nat /\ n \in Nat /\ x >= m /\ m \in Nat
    BY <1>2, <2>1, <2>2, SampleFields
  <2> HIDE DEF x, n, m
  <2>4. \A j \in 1..n : x + j - 1 >= m
    BY <2>3
  <2> QED
    BY <2>1, <2>2, <2>4 DEF x, n, m
<1>6. AllWritten(w, ss)
  <2> SUFFICES ASSUME NEW t \in Tracks, NEW i \in DOMAIN ss[t]
               PROVE  Holds(w, ss[t][i].off, DataOf(ss[t][i]))
    BY DEF AllWritten
  <2>1. Holds(d, ss[t][i].off, DataOf(ss[t][i]))
    BY Zenon DEF AllWritten
  <2>2. DOMAIN DataOf(ss[t][i]) = 1..ss[t][i].len
    BY <1>5, SampleFields
  <2> HIDE DEF w
  <2> QED
    BY <1>4, <1>5, <2>1, <2>2 DEF Holds
<1>7. DataOrHole(w, ss, e)
  <2>1. ASSUME NEW t \in Tracks, NEW i \in DOMAIN ss[t], NEW j \in 1..ss[t][i].len,
               ss[t][i].off + j - 1 \in Addr
        PROVE  w[ss[t][i].off + j - 1] \in {Hole, Data(ss[t][i].id, j)}
    <3>1. d[ss[t][i].off + j - 1] \in {Hole, Data(ss[t][i].id, j)}
      BY <2>1, Zenon DEF DataOrHole
    <3> HIDE DEF w
    <3> QED
      BY <1>4, <1>5, <2>1, <3>1
  <2>2. ASSUME NEW x \in Addr, x >= e PROVE w[x] = Hole
    <3>1. d[x] = Hole
      BY <2>2, Zenon DEF DataOrHole
    <3>2. x >= DataAt
      <4> DEFINE m == DataAt
      <4>1. x \in Nat /\ x >= e /\ e >= m /\ m \in Nat
        BY <1>2, <2>2, FileAssumption
      <4> HIDE DEF m
      <4>2. x >= m
        BY <4>1
      <4> QED
        BY <4>2 DEF m
    <3> HIDE DEF w
    <3> QED
      BY <1>4, <3>1, <3>2
  <2> HIDE DEF w
  <2> QED
    BY <2>1, <2>2, Zenon DEF DataOrHole
<1> QED
  BY <1>3, <1>6, <1>7 DEF u

-----------------------------------------------------------------------------
(* A call of a rewriting keeps the invariant.                              *)

\* A move that seeks, and one that writes.
LEMMA MoveKinds ==
  ASSUME NEW ord, NEW tb, NEW r1 \in Nat, NEW r2 \in Nat, (1 + r1) + r2 < MdatAt,
         NEW c, NEW p, NEW p1, NEW a, NEW a1, NEW s, NEW s1, NEW t, NEW t1,
         Move(ord, tb, r1, r2, c, p, p1, a, a1, s, s1, t, t1)
  PROVE  /\ c.op = "seek" => c.at = p1 /\ a1 = a /\ s1 = s /\ t1 = t
         /\ c.op = "write" => c = Wr(c.cell) /\ p \in Nat /\ p <= MdatAt /\ p1 = p + 1
<1> DEFINE z == MdatAt
<1>1. z \in Nat /\ (1 + r1) + r2 < z
  BY FrontAddr
<1>2. \A v : Wr(v).op = "write" /\ Wr(v).cell = v
  BY DEF Wr
<1>3. Sk(p1).op = "seek" /\ Sk(p1).at = p1
  BY DEF Sk
<1>4. "seek" # "write"
  OBVIOUS
<1> DEFINE Seeks == c = Sk(p1) /\ a1 = a /\ s1 = s /\ t1 = t
           Writes == (\E v : c = Wr(v)) /\ p1 = p + 1 /\ p \in Nat /\ p <= z
<1> DEFINE G == Seeks \/ Writes
<1> HIDE DEF z
<1>5. ASSUME c = Sk(p1) /\ a1 = a /\ s1 = s /\ t1 = t
      PROVE  G
  BY <1>5, Zenon
<1>6. ASSUME /\ \E v \in Cell : c = Wr(v)
             /\ p \in {0, z} /\ p1 = p + 1 /\ a1 = a /\ s1 = s /\ t1 = t
      PROVE  G
  <2>1. p \in Nat /\ p <= z
    BY <1>1, <1>6
  <2>2. \E v : c = Wr(v)
    BY <1>6, Zenon
  <2>3. Writes
    BY <1>6, <2>1, <2>2, Zenon
  <2> QED
    BY <2>3
<1>7. ASSUME /\ p \in 1..r1 /\ c = Wr(TrakAt(ord, tb, 1, 0, p)) /\ p1 = p + 1
      PROVE  G
  <2>1. p \in Nat /\ p <= z
    BY <1>1, <1>7
  <2>2. Writes
    BY <1>7, <2>1, Zenon
  <2> QED
    BY <2>2
<1>8. ASSUME /\ r1 > 0 /\ p = 1 /\ c = Wr(TrakAt(ord, tb, 1, r1, 1)) /\ p1 = p + 1
      PROVE  G
  <2>1. p \in Nat /\ p <= z
    BY <1>1, <1>8
  <2>2. Writes
    BY <1>8, <2>1, Zenon
  <2> QED
    BY <2>2
<1>9. ASSUME /\ \E j \in 1..r2 : p = r1 + j /\ c = Wr(TrakAt(ord, tb, 2, 0, j))
             /\ p1 = p + 1
      PROVE  G
  <2>0. PICK j \in 1..r2 : p = r1 + j /\ c = Wr(TrakAt(ord, tb, 2, 0, j))
    BY <1>9, Zenon
  <2>1. p \in Nat /\ p <= z
    BY <1>1, <2>0
  <2>2. Writes
    BY <1>9, <2>0, <2>1, Zenon
  <2> QED
    BY <2>2
<1>10. ASSUME /\ r2 > 0 /\ p = 1 + r1 /\ c = Wr(TrakAt(ord, tb, 2, r2, 1)) /\ p1 = p + 1
      PROVE  G
  <2>1. p \in Nat /\ p <= z
    BY <1>1, <1>10
  <2>2. Writes
    BY <1>10, <2>1, Zenon
  <2> QED
    BY <2>2
<1>11. ASSUME /\ p = 1 + r1 + r2 /\ c = Wr(Skip) /\ p1 = p + 1
      PROVE  G
  <2>1. p \in Nat /\ p <= z
    BY <1>1, <1>11
  <2>2. Writes
    BY <1>11, <2>1, Zenon
  <2> QED
    BY <2>2
<1> HIDE DEF Seeks, Writes
<1> HIDE DEF G
<1>12. G
  BY <1>5, <1>6, <1>7, <1>8, <1>9, <1>10, <1>11, Zenon DEF Move, z
<1> QED
  BY <1>2, <1>3, <1>4, <1>12, Zenon DEF G, Seeks, Writes, z

\* A rewriting, in parts.
LEMMA RewritingParts ==
  ASSUME NEW g, NEW ord, NEW ss, NEW ind, NEW e, NEW td, Rewriting(g, ord, ss, ind, e, td),
         NEW tb, tb = Table(ss), NEW q, q = mov_writer_update_moov(ord, tb, e - DataAt, e),
         NEW k, k = Len(q) - Len(td), NEW r1, r1 = Room(ord, tb, 1), NEW r2, r2 = Room(ord, tb, 2)
  PROVE  /\ k \in 0..Len(q)
         /\ \A i \in 1..Len(td) : td[i] = q[k + i]
         /\ g.tell = PosAfter(r1, r2, e, k)
         /\ Mixed(View(g), ord, ind, tb, EdgeAfter(r1, r2, k), Size1After(r1, k), Size2After(r1, r2, k))
         /\ td = <<>> => \A d \in Futures(g) : d = View(g)
  BY Zenon DEF Rewriting

\* A rewriting, from its parts.
LEMMA RewritingFrom ==
  ASSUME NEW g, NEW ord, NEW ss, NEW ind, NEW e, NEW td,
         NEW tb, tb = Table(ss), NEW q, q = mov_writer_update_moov(ord, tb, e - DataAt, e),
         NEW k, k = Len(q) - Len(td), NEW r1, r1 = Room(ord, tb, 1), NEW r2, r2 = Room(ord, tb, 2),
         /\ k \in 0..Len(q)
         /\ \A i \in 1..Len(td) : td[i] = q[k + i]
         /\ g.tell = PosAfter(r1, r2, e, k)
         /\ Mixed(View(g), ord, ind, tb, EdgeAfter(r1, r2, k), Size1After(r1, k), Size2After(r1, r2, k))
         /\ td = <<>> => \A d \in Futures(g) : d = View(g)
  PROVE  Rewriting(g, ord, ss, ind, e, td)
  BY Zenon DEF Rewriting

\* What is kept, of the contents alone.
LEMMA KeptParts ==
  ASSUME NEW g, NEW ord, NEW ss, NEW ind, NEW e, Kept(g, ord, ss, ind, e)
  PROVE  /\ TracksHaveSamples(ord, ss) /\ SamplesLie(ss, e) /\ Reach(ss, e)
         /\ AllWritten(View(g), ss)
         /\ \A d \in Futures(g) : Sound(d, ss) /\ DataOrHole(d, ss, e)
         /\ \A t \in Tracks : Names(ind[t], ss[t])
         /\ Present(ord, ind, 2) => Present(ord, ind, 1)
  BY Zenon DEF Kept

\* A content that a rewriting comes through is sound.
LEMMA MixedSound ==
  ASSUME NEW d \in Contents, NEW ord \in Orders, NEW ss \in [Tracks -> Seq(Sample)],
         NEW ind \in [Tracks -> Seq(Entry)],
         Len(ss[Video]) + Len(ss[Audio]) <= MaxSamples,
         \A t \in Tracks : Names(ind[t], ss[t]), TracksHaveSamples(ord, ss),
         Present(ord, ind, 2) => Present(ord, ind, 1),
         NEW tb, tb = Table(ss), NEW r1, r1 = Room(ord, tb, 1), NEW r2, r2 = Room(ord, tb, 2),
         NEW k \in Nat,
         Mixed(d, ord, ind, tb, EdgeAfter(r1, r2, k), Size1After(r1, k), Size2After(r1, r2, k)),
         AllWritten(d, ss)
  PROVE  Sound(d, ss)
<1> DEFINE q1 == Room(ord, ind, 1)
           q2 == Room(ord, ind, 2)
           a == EdgeAfter(r1, r2, k)
           s == Size1After(r1, k)
           t == Size2After(r1, r2, k)
<1>1. tb \in [Tracks -> Seq(Entry)] /\ \A u \in Tracks : Names(tb[u], ss[u])
  BY TableType, TableNames
<1>2. Shape(ord, ind, q1, q2)
  BY IndexFits
<1>3. Present(ord, tb, 2) => Present(ord, tb, 1)
  BY TableInOrder
<1>4. Shape(ord, tb, r1, r2) /\ (1 + r1) + r2 < MdatAt
  BY <1>1, <1>3, IndexFits
<1>5. Grown(ind, tb)
  BY NamesGrown
<1>6. r1 \in Nat /\ r2 \in Nat
  BY <1>4, Zenon DEF Shape
<1>7. Stage(r1, r2, a, s, t)
  BY <1>6, StageIs
<1> HIDE DEF q1, q2, a, s, t
<1>8. Mixed(d, ord, ind, tb, a, s, t)
  BY Zenon DEF a, s, t
<1>9. Mixture(d, ord, ind, tb, q1, q2, r1, r2, a, s, t)
  BY <1>1, <1>2, <1>4, <1>5, <1>7, <1>8, MixtureIs, Zenon
<1>10. Rooms(ord, ind, tb, q1, q2, r1, r2)
  BY <1>1, <1>2, <1>4, <1>5, RoomsAre, Zenon
<1>11. \A u \in Tracks : mov_reader_root(d).tab[u] \in {<<>>, ind[u], Table(ss)[u]}
  BY <1>9, <1>10, MixtureReads
<1> QED
  BY <1>11, SoundFrom, Zenon

\* A file with no contents to come but such as were, and one that is as good.
LEMMA KeptOn ==
  ASSUME NEW g, NEW h, NEW ord, NEW ss, NEW ind, NEW e, Kept(g, ord, ss, ind, e),
         AllWritten(View(h), ss),
         \A d \in Futures(h) : d \in Futures(g) \/ (Sound(d, ss) /\ DataOrHole(d, ss, e))
  PROVE  Kept(h, ord, ss, ind, e)
  BY Zenon DEF Kept

\* A call that seeks.
LEMMA SeekOn ==
  ASSUME NEW g, GoodFile(g), NEW ord, NEW ss, NEW ind, NEW e, Kept(g, ord, ss, ind, e),
         NEW x \in Nat, NEW h, h = mov_file_cache_seek(g, x)
  PROVE  /\ GoodFile(h) /\ Kept(h, ord, ss, ind, e) /\ View(h) = View(g) /\ h.tell = x
         /\ x # g.tell => \A d \in Futures(h) : d = View(h)
<1>1. GoodFile(h) /\ View(h) = View(g) /\ h.tell = x
  BY SeekKeeps
<1>2. /\ Futures(h) \subseteq Futures(g)
      /\ x # g.tell => \A d \in Futures(h) : d = View(h)
  BY SeekFutures
<1>3. AllWritten(View(h), ss)
  BY <1>1, KeptParts
<1>4. Kept(h, ord, ss, ind, e)
  BY <1>2, <1>3, KeptOn
<1> QED
  BY <1>1, <1>2, <1>4

\* One cell that comes to wait makes one content more.
LEMMA BehindOne ==
  ASSUME NEW g, NEW h, NEW u \in Seq(Cell), Len(u) = 1, Behind(h, g, u)
  PROVE  \A d \in Futures(h) : d \in Futures(g) \/ d = Put(View(g), ftell(g) + Len(g.cache), u)
<1>0. Futures(h) \subseteq Futures(g) \cup Newer(g, u)
  BY BehindFutures
<1>1. \A d \in Futures(h) :
        \/ d \in Futures(g)
        \/ \E j \in 1..Len(u) : d = Put(View(g), ftell(g) + Len(g.cache), SubSeq(u, 1, j))
  BY <1>0 DEF Newer
<1>2. 1 \in 0..Len(u) /\ \A j \in 1..Len(u) : j = 1
  OBVIOUS
<1>3. SubSeq(u, 1, 1) = u
  <2>1. /\ SubSeq(u, 1, 1) \in Seq(Cell) /\ Len(SubSeq(u, 1, 1)) = 1
        /\ \A i \in 1..1 : SubSeq(u, 1, 1)[i] = u[i]
    BY <1>2, FirstOnes
  <2> QED
    BY <2>1, SeqEqual
<1> QED
  BY <1>1, <1>2, <1>3, Zenon

\* A call that writes a cell in front of the media data.
LEMMA WriteOn ==
  ASSUME NEW g, NEW ord, NEW ss, NEW ind, NEW e \in Nat, Recs(g, ord, ss, ind),
         Kept(g, ord, ss, ind, e), g.tell <= MdatAt,
         NEW v \in Cell, NEW h, h = mov_file_cache_write(g, <<v>>),
         NEW tb, tb = Table(ss), NEW r1, r1 = Room(ord, tb, 1), NEW r2, r2 = Room(ord, tb, 2),
         NEW k \in Nat,
         Mixed(Put(View(g), g.tell, <<v>>), ord, ind, tb,
               EdgeAfter(r1, r2, k), Size1After(r1, k), Size2After(r1, r2, k))
  PROVE  /\ GoodFile(h) /\ Kept(h, ord, ss, ind, e)
         /\ View(h) = Put(View(g), g.tell, <<v>>) /\ h.tell = g.tell + 1
<1> DEFINE u == <<v>>
<1>1. u \in Seq(Cell) /\ Len(u) = 1
  OBVIOUS
<1>2. GoodFile(g) /\ g \in File /\ g.tell \in Nat /\ View(g) \in Contents
      /\ TellHolds(g)
  BY FileFields DEF Recs, GoodFile
<1> HIDE DEF u
<1>4. /\ GoodFile(h) /\ View(h) = Put(View(g), g.tell, u) /\ h.tell = g.tell + 1
  BY <1>1, <1>2, WriteKeeps DEF u
<1>5. Behind(h, g, u)
  BY <1>1, <1>2, WriteBehind DEF u
<1>6. \A d \in Futures(h) : d \in Futures(g) \/ d = View(h)
  <2>1. \A d \in Futures(h) : d \in Futures(g) \/ d = Put(View(g), ftell(g) + Len(g.cache), u)
    BY <1>1, <1>5, BehindOne
  <2>2. ftell(g) + Len(g.cache) = g.tell
    BY <1>2 DEF TellHolds
  <2> QED
    BY <1>4, <2>1, <2>2, Zenon
<1>7. e >= DataAt /\ SamplesLie(ss, e) /\ AllWritten(View(g), ss) /\ TracksHaveSamples(ord, ss)
      /\ (\A t \in Tracks : Names(ind[t], ss[t])) /\ (Present(ord, ind, 2) => Present(ord, ind, 1))
      /\ \A d \in Futures(g) : DataOrHole(d, ss, e)
  BY KeptParts DEF Reach
<1>8. View(g) \in Futures(g)
  BY <1>2, FuturesHave
<1>9. /\ View(h) \in Contents
      /\ AllWritten(View(h), ss) /\ DataOrHole(View(h), ss, e)
  BY <1>2, <1>4, <1>7, <1>8, FrontWrite DEF Recs, u
<1>10. Sound(View(h), ss)
  <2>1. Mixed(View(h), ord, ind, tb, EdgeAfter(r1, r2, k), Size1After(r1, k), Size2After(r1, r2, k))
    BY <1>4 DEF u
  <2>2. /\ ord \in Orders /\ ss \in [Tracks -> Seq(Sample)] /\ ind \in [Tracks -> Seq(Entry)]
        /\ Len(ss[Video]) + Len(ss[Audio]) <= MaxSamples
    BY Zenon DEF Recs
  <2> QED
    BY <1>7, <1>9, <2>1, <2>2, MixedSound
<1>11. Kept(h, ord, ss, ind, e)
  BY <1>6, <1>9, <1>10, KeptOn, Zenon
<1> QED
  BY <1>4, <1>11 DEF u

\* What is known of the samples' tables.
LEMMA TablesFit ==
  ASSUME NEW g, NEW ord, NEW ss, NEW ind, NEW e, Recs(g, ord, ss, ind), Kept(g, ord, ss, ind, e),
         NEW tb, tb = Table(ss), NEW r1, r1 = Room(ord, tb, 1), NEW r2, r2 = Room(ord, tb, 2)
  PROVE  /\ tb \in [Tracks -> Seq(Entry)] /\ Len(tb[Video]) + Len(tb[Audio]) <= MaxSamples
         /\ Shape(ord, tb, r1, r2) /\ (1 + r1) + r2 < MdatAt /\ Full(ord, tb)
         /\ r1 \in Nat /\ r2 \in Nat
         /\ Shape(ord, ind, Room(ord, ind, 1), Room(ord, ind, 2)) /\ Full(ord, ind)
         /\ (1 + Room(ord, ind, 1)) + Room(ord, ind, 2) < MdatAt
         /\ Grown(ind, tb)
<1>1. /\ ord \in Orders /\ ss \in [Tracks -> Seq(Sample)] /\ ind \in [Tracks -> Seq(Entry)]
      /\ Len(ss[Video]) + Len(ss[Audio]) <= MaxSamples
  BY Zenon DEF Recs
<1>2. /\ TracksHaveSamples(ord, ss)
      /\ \A t \in Tracks : Names(ind[t], ss[t])
      /\ Present(ord, ind, 2) => Present(ord, ind, 1)
  BY KeptParts, Zenon
<1>3. tb \in [Tracks -> Seq(Entry)] /\ (\A t \in Tracks : Len(tb[t]) = Len(ss[t]))
      /\ \A t \in Tracks : Names(tb[t], ss[t])
  BY <1>1, TableType, TableNames
<1>4. Len(tb[Video]) + Len(tb[Audio]) <= MaxSamples
  <2>1. Video \in Tracks /\ Audio \in Tracks
    BY DEF Tracks
  <2>2. Len(tb[Video]) = Len(ss[Video]) /\ Len(tb[Audio]) = Len(ss[Audio])
    BY <1>3, <2>1
  <2> QED
    BY <1>1, <2>2, Zenon
<1>5. Present(ord, tb, 2) => Present(ord, tb, 1)
  BY <1>1, <1>2, TableInOrder
<1>6. Shape(ord, tb, r1, r2) /\ (1 + r1) + r2 < MdatAt /\ Full(ord, tb)
  BY <1>1, <1>2, <1>3, <1>5, IndexFits
<1>7. /\ Shape(ord, ind, Room(ord, ind, 1), Room(ord, ind, 2)) /\ Full(ord, ind)
      /\ (1 + Room(ord, ind, 1)) + Room(ord, ind, 2) < MdatAt
  <2> DEFINE q1 == Room(ord, ind, 1)
             q2 == Room(ord, ind, 2)
  <2>1. q1 = Room(ord, ind, 1) /\ q2 = Room(ord, ind, 2)
    OBVIOUS
  <2> HIDE DEF q1, q2
  <2>2. Shape(ord, ind, q1, q2) /\ (1 + q1) + q2 < MdatAt /\ Full(ord, ind)
    BY <1>1, <1>2, <2>1, IndexFits
  <2> QED
    BY <2>2 DEF q1, q2
<1>8. Grown(ind, tb)
  BY <1>1, <1>2, NamesGrown
<1>9. r1 \in Nat /\ r2 \in Nat
  BY <1>6, Zenon DEF Shape
<1> QED
  BY <1>3, <1>4, <1>6, <1>7, <1>8, <1>9, Zenon

\* The length of a file's media data.
LEMMA DataLength ==
  ASSUME NEW e \in Nat, e >= DataAt
  PROVE  e - DataAt \in Nat
<1> DEFINE m == DataAt
<1>1. m \in Nat /\ e >= m
  BY IndexAssumption DEF DataAt
<1> HIDE DEF m
<1>2. e - m \in Nat
  BY <1>1
<1> QED
  BY <1>2 DEF m

\* A call of a rewriting.
LEMMA CallKeeps ==
  ASSUME NEW g, NEW ord, NEW ss, NEW ind, NEW e \in Nat, Recs(g, ord, ss, ind),
         Kept(g, ord, ss, ind, e), NEW td \in Seq(Step), td # <<>>,
         Rewriting(g, ord, ss, ind, e, td), EndsWell(td, g.tell),
         NEW h, h = IF Head(td).op = "seek" THEN mov_file_cache_seek(g, Head(td).at)
                    ELSE mov_file_cache_write(g, <<Head(td).cell>>)
  PROVE  Kept(h, ord, ss, ind, e) /\ Rewriting(h, ord, ss, ind, e, Tail(td))
<1> DEFINE tb == Table(ss)
           r1 == Room(ord, tb, 1)
           r2 == Room(ord, tb, 2)
           n == e - DataAt
           q == mov_writer_update_moov(ord, tb, n, e)
           l == Len(td)
           k == Len(q) - l
           k1 == k + 1
           c == Head(td)
           p == PosAfter(r1, r2, e, k)
           p1 == PosAfter(r1, r2, e, k1)
           a == EdgeAfter(r1, r2, k)
           a1 == EdgeAfter(r1, r2, k1)
           s == Size1After(r1, k)
           s1 == Size1After(r1, k1)
           t == Size2After(r1, r2, k)
           t1 == Size2After(r1, r2, k1)
<1>1. /\ k \in 0..Len(q)
      /\ \A i \in 1..l : td[i] = q[k + i]
      /\ g.tell = p
      /\ Mixed(View(g), ord, ind, tb, a, s, t)
  BY RewritingParts
<1>2. /\ l \in Nat /\ l >= 1 /\ c = td[1] /\ c \in Step
      /\ Len(Tail(td)) = l - 1 /\ \A i \in 1..(l - 1) : Tail(td)[i] = td[i + 1]
  BY HeadTailProperties, EmptySeq
<1>3. c.op \in {"seek", "write"} /\ c.at \in Nat /\ c.cell \in Cell
  BY <1>2 DEF Step
<1>4. /\ GoodFile(g) /\ ord \in Orders /\ g \in File /\ View(g) \in Contents /\ e >= DataAt
  BY KeptParts, FileFields DEF Recs, GoodFile, Reach
<1>5. n \in Nat
  BY <1>4, DataLength
<1>6. /\ tb \in [Tracks -> Seq(Entry)] /\ Len(tb[Video]) + Len(tb[Audio]) <= MaxSamples
      /\ (1 + r1) + r2 < MdatAt /\ r1 \in Nat /\ r2 \in Nat
  BY TablesFit
<1> HIDE DEF tb, n, r1, r2
<1>7. Len(q) \in Nat
  <2>1. q \in Seq(Step)
    BY <1>4, <1>5, <1>6, UpdateCalls
  <2> QED
    BY <2>1, LenProperties
<1> HIDE DEF q, l, c
<1>8. k \in Nat /\ k < Len(q) /\ k1 = Len(q) - (l - 1) /\ k1 \in 0..Len(q) /\ k1 \in Nat
  BY <1>1, <1>2, <1>7
<1>9. c = q[k1] /\ \A i \in 1..(l - 1) : Tail(td)[i] = q[k1 + i]
  <2>1. 1 \in 1..l /\ \A i \in 1..(l - 1) : i + 1 \in 1..l /\ k + (i + 1) = k1 + i
    BY <1>2, <1>8
  <2> HIDE DEF k1
  <2>2. \A i \in 1..(l - 1) : Tail(td)[i] = q[k1 + i]
    BY <1>1, <1>2, <2>1
  <2>3. c = q[k1]
    BY <1>1, <1>2, <2>1 DEF k1
  <2> QED
    BY <2>2, <2>3
<1>10. Move(ord, tb, r1, r2, c, p, p1, a, a1, s, s1, t, t1)
  BY <1>4, <1>5, <1>6, <1>8, <1>9, CallMoves DEF q, r1, r2
<1> HIDE DEF k, k1, p, p1, a, a1, s, s1, t, t1
<1>11. /\ c.op = "seek" => c.at = p1 /\ a1 = a /\ s1 = s /\ t1 = t
       /\ c.op = "write" => c = Wr(c.cell) /\ p \in Nat /\ p <= MdatAt /\ p1 = p + 1
  BY <1>6, <1>10, MoveKinds
<1>12. /\ GoodFile(h) /\ Kept(h, ord, ss, ind, e) /\ h.tell = p1
       /\ Mixed(View(h), ord, ind, tb, a1, s1, t1)
       /\ l = 1 => \A d \in Futures(h) : d = View(h)
  <2>1. CASE c.op = "seek"
    <3>1. h = mov_file_cache_seek(g, c.at)
      BY <2>1 DEF c
    <3>2. /\ GoodFile(h) /\ Kept(h, ord, ss, ind, e) /\ View(h) = View(g) /\ h.tell = c.at
          /\ c.at # g.tell => \A d \in Futures(h) : d = View(h)
      <4> DEFINE x == c.at
      <4>1. x \in Nat /\ h = mov_file_cache_seek(g, x)
        BY <1>3, <3>1
      <4> HIDE DEF x
      <4>2. /\ GoodFile(h) /\ Kept(h, ord, ss, ind, e) /\ View(h) = View(g) /\ h.tell = x
            /\ x # g.tell => \A d \in Futures(h) : d = View(h)
        BY <1>4, <4>1, SeekOn
      <4> QED
        BY <4>2 DEF x
    <3>3. l = 1 => c.at # g.tell
      <4> DEFINE x == g.tell
      <4>1. x \in Nat
        BY <1>4, FileFields
      <4>2. l = 1 => x < c.at
        BY <1>2 DEF EndsWell, l
      <4> HIDE DEF x
      <4>3. l = 1 => c.at # x
        BY <1>3, <4>1, <4>2
      <4> QED
        BY <4>3 DEF x
    <3>4. Mixed(View(h), ord, ind, tb, a1, s1, t1)
      BY <1>1, <1>11, <2>1, <3>2, Zenon
    <3> QED
      BY <1>11, <2>1, <3>2, <3>3, <3>4, Zenon
  <2>2. CASE c.op = "write"
    <3>0. "seek" # "write"
      OBVIOUS
    <3>1. h = mov_file_cache_write(g, <<c.cell>>)
      BY <2>2, <3>0 DEF c
    <3>2. Mixed(Put(View(g), p, <<c.cell>>), ord, ind, tb, a1, s1, t1)
      BY <1>1, <1>3, <1>4, <1>6, <1>10, <1>11, <2>2, MixedStep DEF r1, r2
    <3>3. /\ GoodFile(h) /\ Kept(h, ord, ss, ind, e)
          /\ View(h) = Put(View(g), g.tell, <<c.cell>>) /\ h.tell = g.tell + 1
      BY <1>1, <1>3, <1>8, <1>11, <2>2, <3>1, <3>2, WriteOn DEF tb, r1, r2, a1, s1, t1
    <3>4. l # 1
      <4>1. l = 1 => c.op = "seek"
        <5>1. l = 1 => td[l].op = "seek"
          BY <1>2 DEF EndsWell, l
        <5> QED
          BY <1>2, <5>1
      <4> QED
        BY <2>2, <3>0, <4>1
    <3> QED
      BY <1>1, <1>11, <2>2, <3>2, <3>3, <3>4
  <2> QED
    BY <1>3, <2>1, <2>2
<1>13. Tail(td) = <<>> => l = 1
  <2>1. Tail(td) = <<>> => Len(Tail(td)) = 0
    BY EmptySeq
  <2> QED
    BY <1>2, <2>1
<1>14. Rewriting(h, ord, ss, ind, e, Tail(td))
  <2>1. k1 = Len(q) - Len(Tail(td))
    BY <1>2, <1>8
  <2>2. \A i \in 1..Len(Tail(td)) : Tail(td)[i] = q[k1 + i]
    BY <1>2, <1>9
  <2> QED
    BY <1>8, <1>12, <1>13, <2>1, <2>2, RewritingFrom DEF q, n, tb, r1, r2, p1, a1, s1, t1
<1> QED
  BY <1>12, <1>14

-----------------------------------------------------------------------------
(* A rewriting begins, and ends.                                           *)

\* Before its first call a rewriting has not moved.
LEMMA FirstPosition ==
  ASSUME NEW r1 \in Nat, NEW r2 \in Nat, NEW e
  PROVE  PosAfter(r1, r2, e, 0) = e
<1> DEFINE c1 == Calls(r1)
           c2 == Calls(r2)
<1>1. c1 \in Nat /\ c2 \in Nat
  BY DEF Calls
<1> DEFINE b2 == 5 + c1
           b3 == b2 + c2
           y == PosAfter(r1, r2, e, 0)
           n == MdatAt
<1>2. y = CASE 0 = 0 -> e
            [] 0 = 1 -> n
            [] 0 = 2 -> n + 1
            [] 0 = 3 -> e
            [] 0 = 4 -> 0
            [] 0 >= 5 /\ 0 <= 5 + r1 -> 0 - 4
            [] 0 = 5 + r1 + 1 /\ r1 > 0 -> 1
            [] 0 = 5 + r1 + 2 /\ r1 > 0 -> 2
            [] 0 = 5 + r1 + 3 /\ r1 > 0 -> 1 + r1
            [] 0 > b2 /\ 0 <= b2 + r2 -> 1 + r1 + (0 - b2)
            [] 0 = b2 + r2 + 1 /\ r2 > 0 -> 1 + r1
            [] 0 = b2 + r2 + 2 /\ r2 > 0 -> 2 + r1
            [] 0 = b2 + r2 + 3 /\ r2 > 0 -> 1 + r1 + r2
            [] 0 = b3 + 1 -> 0
            [] 0 = b3 + 2 -> 1
            [] 0 = b3 + 3 -> 1 + r1 + r2
            [] 0 = b3 + 4 -> 2 + r1 + r2
            [] OTHER -> e
  BY DEF PosAfter
<1> HIDE DEF y, n, c1, c2
<1>3. y = e
  BY <1>1, <1>2
<1> QED
  BY <1>3 DEF y

\* A rewriting that begins has the old index at the front.
LEMMA BeginKeeps ==
  ASSUME NEW g, NEW ord, NEW ss, NEW ind, NEW e \in Nat, Recs(g, ord, ss, ind),
         Kept(g, ord, ss, ind, e), Durable(g, ord, ind), e = g.tell,
         NEW q, q = mov_writer_update_moov(ord, Table(ss), e - DataAt, e)
  PROVE  Rewriting(g, ord, ss, ind, e, q)
<1> DEFINE tb == Table(ss)
           r1 == Room(ord, tb, 1)
           r2 == Room(ord, tb, 2)
           n == e - DataAt
           k == Len(q) - Len(q)
           z == 0
<1>1. /\ GoodFile(g) /\ ord \in Orders /\ g \in File /\ View(g) \in Contents /\ e >= DataAt
      /\ g.tell \in Nat
  BY KeptParts, FileFields DEF Recs, GoodFile, Reach
<1>2. n \in Nat
  BY <1>1, DataLength
<1>3. /\ tb \in [Tracks -> Seq(Entry)] /\ Len(tb[Video]) + Len(tb[Audio]) <= MaxSamples
      /\ r1 \in Nat /\ r2 \in Nat
  BY TablesFit
<1> HIDE DEF tb, n, r1, r2
<1>4. q \in Seq(Step) /\ Len(q) >= 3 /\ Len(q) \in Nat
  <2>1. q \in Seq(Step) /\ Len(q) >= 3
    BY <1>1, <1>2, <1>3, UpdateCalls DEF tb, n
  <2> QED
    BY <2>1, LenProperties
<1>5. k = z /\ z \in 0..Len(q) /\ z \in Nat /\ q # <<>>
  BY <1>4, EmptySeq
<1>6. \A i \in 1..Len(q) : q[i] = q[z + i]
  BY <1>4
<1>7. /\ PosAfter(r1, r2, e, z) = e
      /\ EdgeAfter(r1, r2, z) = 1
  <2>1. PosAfter(r1, r2, e, 0) = e
    BY <1>3, FirstPosition
  <2> DEFINE b2 == 5 + Calls(r1)
             b3 == b2 + Calls(r2)
  <2>2. b2 = 5 + Calls(r1) /\ b3 = b2 + Calls(r2)
    OBVIOUS
  <2> HIDE DEF b2, b3
  <2>3. 0 \in Nat /\ 0 <= 5
    OBVIOUS
  <2>4. EdgeAfter(r1, r2, 0) = 1
    BY <1>3, <2>2, <2>3, EdgeIs
  <2> QED
    BY <2>1, <2>4
<1>8. Indexes(View(g), ord, ind)
  <2>1. View(g) \in Futures(g)
    BY <1>1, FuturesHave
  <2> QED
    BY <2>1, Zenon DEF Durable
<1> HIDE DEF z, k
<1>9. \A s, t : Mixed(View(g), ord, ind, tb, 1, s, t)
  <2>1. MdatAt \in Nat
    BY FrontAddr
  <2>2. \A y \in 1..(MdatAt - 1) : ~(y < 1)
    <3> DEFINE m == MdatAt - 1
    <3> HIDE DEF m
    <3>1. \A y \in 1..m : ~(y < 1)
      OBVIOUS
    <3> QED
      BY <3>1 DEF m
  <2> QED
    BY <1>8, <2>2, Zenon DEF Mixed, Indexes
<1>10. Mixed(View(g), ord, ind, tb, EdgeAfter(r1, r2, z), Size1After(r1, z), Size2After(r1, r2, z))
  BY <1>7, <1>9, Zenon
<1> QED
  BY <1>5, <1>6, <1>7, <1>10, RewritingFrom DEF k, n, tb, r1, r2

\* Of two mixed indexes nothing but the new one is left.
LEMMA MixedWhole ==
  ASSUME NEW d, NEW ord, NEW ind, NEW tb, NEW q1, NEW q2, NEW r1, NEW r2,
         Rooms(ord, ind, tb, q1, q2, r1, r2), (1 + r1) + r2 < MdatAt,
         q1 = Room(ord, ind, 1), q2 = Room(ord, ind, 2),
         r1 = Room(ord, tb, 1), r2 = Room(ord, tb, 2),
         NEW a, a = (2 + r1) + r2, Mixed(d, ord, ind, tb, a, r1, r2)
  PROVE  Indexes(d, ord, tb)
<1> SUFFICES ASSUME NEW y \in 1..(MdatAt - 1)
             PROVE  Old(d, ord, tb, y)
  BY DEF Indexes
<1>1. /\ y < a => IsCell(d, ord, tb, r1, r2, y)
      /\ y >= a => IsCell(d, ord, ind, q1, q2, y)
  BY Zenon DEF Mixed, Old
<1>2. y \in Nat
  <2> DEFINE m == MdatAt - 1
  <2>1. y \in 1..m
    OBVIOUS
  <2> HIDE DEF m
  <2> QED
    BY <2>1
<1>3. q1 \in Nat /\ q2 \in Nat /\ r1 \in Nat /\ r2 \in Nat /\ q1 <= r1 /\ q2 <= r2
  BY Zenon DEF Rooms
<1>4. CASE y < a
  BY <1>1, <1>4 DEF Old
<1>5. CASE y >= a
  <2>1. IsCell(d, ord, ind, q1, q2, y)
    BY <1>1, <1>5
  <2>2. End(ord, ind) = (1 + q1) + q2 /\ Second(ord, tb) = 1 + r1 /\ End(ord, tb) = (1 + r1) + r2
    BY DEF End, Second
  <2>3. y >= (1 + q1) + q2 /\ ~(y < 1 + r1) /\ ~(y < (1 + r1) + r2) /\ y >= (1 + r1) + r2
    BY <1>2, <1>3, <1>5
  <2>4. Blank(d[y])
    BY <2>1, <2>2, <2>3 DEF IsCell
  <2> QED
    BY <2>2, <2>3, <2>4 DEF Old, IsCell
<1>6. y < a \/ y >= a
  BY <1>2, <1>3
<1> QED
  BY <1>4, <1>5, <1>6

\* The stage a rewriting is at when all its calls are made.
LEMMA LastStage ==
  ASSUME NEW r1 \in Nat, NEW r2 \in Nat, NEW k, k = ((5 + Calls(r1)) + Calls(r2)) + 5
  PROVE  /\ EdgeAfter(r1, r2, k) = (2 + r1) + r2
         /\ Size1After(r1, k) = r1 /\ Size2After(r1, r2, k) = r2
<1> DEFINE c1 == Calls(r1)
           c2 == Calls(r2)
           b2 == 5 + c1
           b3 == b2 + c2
<1>1. /\ c1 \in Nat /\ c2 \in Nat /\ k = b3 + 5
      /\ (r1 > 0 => c1 = r1 + 3) /\ (r2 > 0 => c2 = r2 + 3)
  BY DEF Calls
<1>2. /\ b2 \in Nat /\ b3 \in Nat /\ k \in Nat /\ k >= b3 + 4
      /\ k >= 5 + r1 + 2 /\ k >= 5 + c1 + r2 + 2
  <2> HIDE DEF c1, c2
  <2> QED
    BY <1>1
<1>3. EdgeAfter(r1, r2, k) = 2 + r1 + r2
  <2> HIDE DEF b2, b3
  <2>1. b2 = 5 + Calls(r1) /\ b3 = b2 + Calls(r2)
    BY DEF b2, b3
  <2> QED
    BY <1>2, <2>1, EdgeIs
<1>4. Size1After(r1, k) = r1 /\ Size2After(r1, r2, k) = r2
  BY <1>2 DEF Size1After, Size2After
<1> QED
  BY <1>3, <1>4

\* A rewriting whose calls are all made has made the new index the last
\* finished one.
LEMMA DoneKeeps ==
  ASSUME NEW g, NEW ord, NEW ss, NEW ind, NEW e \in Nat, Recs(g, ord, ss, ind),
         Kept(g, ord, ss, ind, e), Rewriting(g, ord, ss, ind, e, <<>>)
  PROVE  /\ Kept(g, ord, ss, Table(ss), e) /\ Durable(g, ord, Table(ss))
         /\ \A d \in Futures(g) : d = View(g)
<1> DEFINE tb == Table(ss)
           q1 == Room(ord, ind, 1)
           q2 == Room(ord, ind, 2)
           r1 == Room(ord, tb, 1)
           r2 == Room(ord, tb, 2)
           n == e - DataAt
           q == mov_writer_update_moov(ord, tb, n, e)
           k == Len(q) - Len(<<>>)
<1>1. /\ Mixed(View(g), ord, ind, tb, EdgeAfter(r1, r2, k), Size1After(r1, k), Size2After(r1, r2, k))
      /\ \A d \in Futures(g) : d = View(g)
  BY RewritingParts
<1>2. /\ GoodFile(g) /\ ord \in Orders /\ e >= DataAt
      /\ ss \in [Tracks -> Seq(Sample)] /\ ind \in [Tracks -> Seq(Entry)]
  BY KeptParts DEF Recs, GoodFile, Reach
<1>3. n \in Nat
  BY <1>2, DataLength
<1>4. /\ tb \in [Tracks -> Seq(Entry)] /\ Len(tb[Video]) + Len(tb[Audio]) <= MaxSamples
      /\ Shape(ord, tb, r1, r2) /\ (1 + r1) + r2 < MdatAt /\ r1 \in Nat /\ r2 \in Nat
      /\ Shape(ord, ind, q1, q2) /\ Grown(ind, tb)
  BY TablesFit
<1> HIDE DEF tb, n, r1, r2, q1, q2
<1>5. Len(q) = ((5 + Calls(r1)) + Calls(r2)) + 5
  <2> DEFINE c1 == Calls(r1)
             c2 == Calls(r2)
             b2 == 5 + c1
             b3 == b2 + c2
  <2>1. AreCalls(ord, tb, n, e, q, r1, r2, c1, c2, b2, b3)
    BY <1>2, <1>3, <1>4, CallsAre DEF r1, r2
  <2> HIDE DEF q, c1, c2, b2, b3
  <2>2. Len(q) = b3 + 5
    BY <2>1, Zenon DEF AreCalls
  <2> QED
    BY <2>2 DEF b2, b3, c1, c2
<1>6. k = ((5 + Calls(r1)) + Calls(r2)) + 5
  <2>1. Len(<<>>) = 0 /\ Calls(r1) \in Nat /\ Calls(r2) \in Nat
    BY <1>4 DEF Calls
  <2> DEFINE c1 == Calls(r1)
             c2 == Calls(r2)
             m == Len(q)
  <2>2. k = m - 0 /\ m = ((5 + c1) + c2) + 5 /\ c1 \in Nat /\ c2 \in Nat
    BY <1>5, <2>1
  <2> HIDE DEF k, m, c1, c2
  <2>3. k = ((5 + c1) + c2) + 5
    BY <2>2
  <2> QED
    BY <2>3 DEF c1, c2
<1> HIDE DEF k
<1>7. /\ EdgeAfter(r1, r2, k) = (2 + r1) + r2
      /\ Size1After(r1, k) = r1 /\ Size2After(r1, r2, k) = r2
  BY <1>4, <1>6, LastStage
<1>8. Mixed(View(g), ord, ind, tb, (2 + r1) + r2, r1, r2)
  BY <1>1, <1>7, Zenon
<1>9. Rooms(ord, ind, tb, q1, q2, r1, r2)
  BY <1>2, <1>4, RoomsAre, Zenon
<1>10. Indexes(View(g), ord, tb)
  BY <1>4, <1>8, <1>9, MixedWhole DEF q1, q2, r1, r2
<1>11. Durable(g, ord, tb)
  BY <1>1, <1>10, Zenon DEF Durable
<1>12. /\ \A t \in Tracks : Names(tb[t], ss[t])
       /\ Present(ord, tb, 2) => Present(ord, tb, 1)
  <2>1. TracksHaveSamples(ord, ss)
    BY KeptParts, Zenon
  <2> QED
    BY <1>2, <2>1, TableNames, TableInOrder DEF tb
<1>13. Kept(g, ord, ss, tb, e)
  BY <1>12, Zenon DEF Kept
<1> QED
  BY <1>1, <1>11, <1>13 DEF tb

-----------------------------------------------------------------------------
(* A frame behind the others.                                              *)

\* One sample s more, of track t.
OneMore(ss, ss2, t, s) ==
  /\ ss2 \in [Tracks -> Seq(Sample)] /\ s \in Sample
  /\ \A v \in Tracks :
       /\ Len(ss[v]) <= Len(ss2[v])
       /\ \A i \in 1..Len(ss[v]) : i \in DOMAIN ss2[v] /\ ss2[v][i] = ss[v][i]
       /\ \A i \in DOMAIN ss2[v] : i \in 1..Len(ss[v]) \/ ss2[v][i] = s
  /\ \A v \in Tracks : v # t => ss2[v] = ss[v]
  /\ ss2[t] # <<>>
  /\ Len(ss2[Video]) + Len(ss2[Audio]) = (Len(ss[Video]) + Len(ss[Audio])) + 1

\* That is what mov_writer_write leaves.
LEMMA OneMoreIs ==
  ASSUME NEW ss \in [Tracks -> Seq(Sample)], NEW t \in Tracks, NEW s \in Sample,
         NEW ss2, ss2 = [ss EXCEPT ![t] = Append(@, s)]
  PROVE  OneMore(ss, ss2, t, s)
<1> DEFINE q == Append(ss[t], s)
           n == Len(ss[t])
<1>1. ss[t] \in Seq(Sample) /\ n \in Nat
  BY SamplesOf
<1>2. /\ q \in Seq(Sample) /\ Len(q) = n + 1 /\ DOMAIN q = 1..(n + 1)
      /\ \A i \in 1..n : q[i] = ss[t][i]
      /\ q[n + 1] = s
  BY <1>1, AppendProperties, LenProperties
<1> HIDE DEF q, n
<1>3. /\ ss2 \in [Tracks -> Seq(Sample)] /\ ss2[t] = q
      /\ \A v \in Tracks : v # t => ss2[v] = ss[v]
  BY <1>2 DEF q
<1>4. n <= n + 1 /\ \A i \in 1..n : i \in 1..(n + 1)
  BY <1>1
<1>5. \A i \in 1..(n + 1) : i \in 1..n \/ i = n + 1
  BY <1>1
<1>6. ASSUME NEW v \in Tracks
      PROVE  /\ Len(ss[v]) <= Len(ss2[v])
             /\ \A i \in 1..Len(ss[v]) : i \in DOMAIN ss2[v] /\ ss2[v][i] = ss[v][i]
             /\ \A i \in DOMAIN ss2[v] : i \in 1..Len(ss[v]) \/ ss2[v][i] = s
  <2>1. CASE v = t
    BY <1>2, <1>3, <1>4, <1>5, <2>1 DEF n
  <2>2. CASE v # t
    <3>1. ss2[v] = ss[v] /\ Len(ss[v]) \in Nat /\ DOMAIN ss[v] = 1..Len(ss[v])
      BY <1>3, <2>2, SamplesOf
    <3>2. Len(ss[v]) <= Len(ss[v])
      <4> DEFINE m == Len(ss[v])
      <4>1. m \in Nat
        BY <3>1
      <4> HIDE DEF m
      <4>2. m <= m
        BY <4>1
      <4> QED
        BY <4>2 DEF m
    <3> QED
      BY <3>1, <3>2
  <2> QED
    BY <2>1, <2>2
<1>7. ss2[t] # <<>>
  <2>1. n + 1 # 0
    BY <1>1
  <2> QED
    BY <1>2, <1>3, <2>1, EmptySeq
<1>8. Len(ss2[Video]) + Len(ss2[Audio]) = (Len(ss[Video]) + Len(ss[Audio])) + 1
  <2> DEFINE a == Len(ss[Video])
             b == Len(ss[Audio])
             c == Len(ss2[Video])
             d == Len(ss2[Audio])
  <2>1. Video \in Tracks /\ Audio \in Tracks /\ Video # Audio /\ t \in {Video, Audio}
    BY DEF Tracks, Video, Audio
  <2>2. a \in Nat /\ b \in Nat
    BY <2>1, SamplesOf
  <2>3. \/ c = a + 1 /\ d = b
        \/ c = a /\ d = b + 1
    BY <1>2, <1>3, <2>1 DEF n
  <2> HIDE DEF a, b, c, d
  <2>4. c + d = (a + b) + 1
    <3>1. CASE c = a + 1 /\ d = b
      <4>1. (a + 1) + b = (a + b) + 1
        BY <2>2
      <4> QED
        BY <3>1, <4>1
    <3>2. CASE c = a /\ d = b + 1
      <4>1. a + (b + 1) = (a + b) + 1
        BY <2>2
      <4> QED
        BY <3>2, <4>1
    <3> QED
      BY <2>3, <3>1, <3>2
  <2> QED
    BY <2>4 DEF a, b, c, d
<1> QED
  BY <1>3, <1>6, <1>7, <1>8, Zenon DEF OneMore

\* The tracks, t among them.
OrderGrows(ord, ord2, t) ==
  /\ \A i \in DOMAIN ord : i \in DOMAIN ord2 /\ ord2[i] = ord[i]
  /\ \A i \in DOMAIN ord2 : i \in DOMAIN ord \/ (ord2[i] = t /\ ~\E j \in DOMAIN ord : ord[j] = t)
  /\ \E i \in DOMAIN ord2 : ord2[i] = t

\* add_video, add_audio: a track is added behind the others, once.
LEMMA OrderGrowsBy ==
  ASSUME NEW ord \in Orders, NEW t \in Tracks,
         NEW ord2, ord2 = IF \E i \in DOMAIN ord : ord[i] = t THEN ord ELSE Append(ord, t)
  PROVE  OrderGrows(ord, ord2, t)
<1>1. CASE \E i \in DOMAIN ord : ord[i] = t
  BY <1>1 DEF OrderGrows
<1>2. CASE ~\E i \in DOMAIN ord : ord[i] = t
  <2> DEFINE n == Len(ord)
  <2>1. ord \in Seq(Tracks)
    <3>1. Video \in Tracks /\ Audio \in Tracks
      BY DEF Tracks
    <3>2. <<>> \in Seq(Tracks)
      BY EmptySeq
    <3>3. \A x, y \in Tracks : <<x>> \in Seq(Tracks) /\ <<x, y>> \in Seq(Tracks)
      OBVIOUS
    <3> QED
      BY <3>1, <3>2, <3>3 DEF Orders
  <2>2. n \in Nat /\ DOMAIN ord = 1..n
    BY <2>1, LenProperties
  <2>3. /\ ord2 \in Seq(Tracks) /\ Len(ord2) = n + 1 /\ DOMAIN ord2 = 1..(n + 1)
        /\ \A i \in 1..n : ord2[i] = ord[i]
        /\ ord2[n + 1] = t
    BY <1>2, <2>1, AppendProperties, LenProperties
  <2> HIDE DEF n
  <2>4. (\A i \in 1..n : i \in 1..(n + 1)) /\ (\A i \in 1..(n + 1) : i \in 1..n \/ i = n + 1)
        /\ n + 1 \in 1..(n + 1)
    BY <2>2
  <2> QED
    BY <1>2, <2>2, <2>3, <2>4 DEF OrderGrows
<1> QED
  BY <1>1, <1>2

\* A track that is added with no entries yet has no place in the index.
LEMMA SameTracks ==
  ASSUME NEW ord, NEW ord2, NEW t, OrderGrows(ord, ord2, t), NEW ind,
         (~\E j \in DOMAIN ord : ord[j] = t) => ind[t] = <<>>, NEW i
  PROVE  /\ Present(ord2, ind, i) <=> Present(ord, ind, i)
         /\ Present(ord, ind, i) => ord2[i] = ord[i]
         /\ Room(ord2, ind, i) = Room(ord, ind, i)
<1>1. i \in DOMAIN ord => i \in DOMAIN ord2 /\ ord2[i] = ord[i]
  BY Zenon DEF OrderGrows
<1>2. i \in DOMAIN ord2 => i \in DOMAIN ord \/ ind[ord2[i]] = <<>>
  BY Zenon DEF OrderGrows
<1>3. Present(ord2, ind, i) <=> Present(ord, ind, i)
  BY <1>1, <1>2, Zenon DEF Present
<1>4. Present(ord, ind, i) => ord2[i] = ord[i]
  BY <1>1, Zenon DEF Present
<1>5. Room(ord2, ind, i) = Room(ord, ind, i)
  BY <1>3, <1>4, Zenon DEF Room
<1> QED
  BY <1>3, <1>4, <1>5

\* The index on disk is not touched by it.
LEMMA SameIndex ==
  ASSUME NEW ord \in Orders, NEW ord2, NEW t, OrderGrows(ord, ord2, t),
         NEW ind \in [Tracks -> Seq(Entry)],
         (~\E j \in DOMAIN ord : ord[j] = t) => ind[t] = <<>>,
         NEW d, Indexes(d, ord, ind)
  PROVE  Indexes(d, ord2, ind)
<1> SUFFICES ASSUME NEW y \in 1..(MdatAt - 1)
             PROVE  Old(d, ord2, ind, y)
  BY DEF Indexes
<1>1. Old(d, ord, ind, y)
  BY Zenon DEF Indexes
<1> DEFINE r1 == Room(ord, ind, 1)
           r2 == Room(ord, ind, 2)
<1>2. Room(ord2, ind, 1) = r1 /\ Room(ord2, ind, 2) = r2
  BY SameTracks
<1>3. /\ r1 \in Nat /\ r2 \in Nat
      /\ r1 > 0 => Present(ord, ind, 1)
      /\ r2 > 0 => Present(ord, ind, 2)
  BY RoomIs
<1>4. /\ r1 > 0 => ord2[1] = ord[1]
      /\ r2 > 0 => ord2[2] = ord[2]
  BY <1>3, SameTracks
<1>5. y \in Nat /\ y >= 1
  <2> DEFINE m == MdatAt - 1
  <2>1. y \in 1..m
    OBVIOUS
  <2> HIDE DEF m
  <2> QED
    BY <2>1
<1>6. /\ Second(ord, ind) = 1 + r1 /\ Second(ord2, ind) = 1 + r1
      /\ End(ord, ind) = (1 + r1) + r2 /\ End(ord2, ind) = (1 + r1) + r2
  BY <1>2 DEF Second, End
<1>7. /\ y < 1 + r1 => d[y] = TrakAt(ord, ind, 1, r1, y)
      /\ y >= 1 + r1 /\ y < (1 + r1) + r2 => d[y] = TrakAt(ord, ind, 2, r2, y - (1 + r1) + 1)
      /\ y >= (1 + r1) + r2 => Blank(d[y])
  BY <1>1, <1>6, Zenon DEF Old, IsCell
<1>8. /\ y < 1 + r1 => r1 > 0
      /\ y >= 1 + r1 /\ y < (1 + r1) + r2 => r2 > 0
  <2> HIDE DEF r1, r2
  <2> QED
    BY <1>3, <1>5
<1>9. /\ r1 > 0 => \A s, j : TrakAt(ord2, ind, 1, s, j) = TrakAt(ord, ind, 1, s, j)
      /\ r2 > 0 => \A s, j : TrakAt(ord2, ind, 2, s, j) = TrakAt(ord, ind, 2, s, j)
  BY <1>4, Zenon DEF TrakAt
<1>10. /\ y < 1 + r1 => d[y] = TrakAt(ord2, ind, 1, r1, y)
       /\ y >= 1 + r1 /\ y < (1 + r1) + r2 => d[y] = TrakAt(ord2, ind, 2, r2, y - (1 + r1) + 1)
  BY <1>7, <1>8, <1>9, Zenon
<1> QED
  BY <1>2, <1>6, <1>7, <1>10, Zenon DEF Old, IsCell

\* Names of a track's first samples stay so.
LEMMA NamesMore ==
  ASSUME NEW ss \in [Tracks -> Seq(Sample)], NEW ss2, NEW t \in Tracks, NEW s,
         OneMore(ss, ss2, t, s), NEW v \in Tracks, NEW es, Names(es, ss[v])
  PROVE  /\ Names(es, ss2[v])
         /\ \A i \in 1..Len(es) : i \in DOMAIN ss[v] /\ ss2[v][i] = ss[v][i]
<1> DEFINE l == Len(es)
           m == Len(ss[v])
           n == Len(ss2[v])
<1>1. /\ es \in Seq(Entry) /\ l <= m
      /\ \A i \in 1..l : es[i] = EntryOf(ss[v][i])
  BY Zenon DEF Names
<1>2. /\ m <= n /\ \A i \in 1..m : ss2[v][i] = ss[v][i]
  BY Zenon DEF OneMore
<1>3. l \in Nat /\ m \in Nat /\ n \in Nat /\ DOMAIN ss[v] = 1..m
  BY <1>1, SamplesOf, LenProperties DEF OneMore
<1> HIDE DEF l, m, n
<1>4. l <= n /\ \A i \in 1..l : i \in 1..m
  BY <1>1, <1>2, <1>3
<1>5. \A i \in 1..l : i \in DOMAIN ss[v] /\ ss2[v][i] = ss[v][i]
  BY <1>2, <1>3, <1>4
<1>6. \A i \in 1..l : es[i] = EntryOf(ss2[v][i])
  BY <1>1, <1>5
<1> QED
  BY <1>1, <1>4, <1>5, <1>6, Zenon DEF Names, l, n

\* A content that was sound is so with a sample more.
LEMMA SoundMore ==
  ASSUME NEW ss \in [Tracks -> Seq(Sample)], NEW ss2, NEW t \in Tracks, NEW s,
         OneMore(ss, ss2, t, s), NEW d, Sound(d, ss)
  PROVE  Sound(d, ss2)
<1> DEFINE T == mov_reader_root(d).tab
<1> SUFFICES ASSUME NEW v \in Tracks
             PROVE  /\ Names(T[v], ss2[v])
                    /\ \A i \in 1..Len(T[v]) : Holds(d, ss2[v][i].off, DataOf(ss2[v][i]))
  BY DEF Sound
<1>1. /\ Names(T[v], ss[v])
      /\ \A i \in 1..Len(T[v]) : Holds(d, ss[v][i].off, DataOf(ss[v][i]))
  BY Zenon DEF Sound
<1> HIDE DEF T
<1>2. /\ Names(T[v], ss2[v])
      /\ \A i \in 1..Len(T[v]) : i \in DOMAIN ss[v] /\ ss2[v][i] = ss[v][i]
  BY <1>1, NamesMore
<1> QED
  BY <1>1, <1>2

\* A content that has all samples' data and a sound index of names is sound.
LEMMA SoundBy ==
  ASSUME NEW d, NEW ss \in [Tracks -> Seq(Sample)], NEW ind \in [Tracks -> Seq(Entry)],
         mov_reader_root(d).tab = ind,
         \A v \in Tracks : Names(ind[v], ss[v])
                           /\ \A i \in 1..Len(ind[v]) : Holds(d, ss[v][i].off, DataOf(ss[v][i]))
  PROVE  Sound(d, ss)
  BY Zenon DEF Sound

\* Samples lie in front of the place e, with every cell.
LEMMA SampleBefore ==
  ASSUME NEW ss \in [Tracks -> Seq(Sample)], NEW e \in Nat, SamplesLie(ss, e),
         NEW v \in Tracks, NEW i \in DOMAIN ss[v]
  PROVE  /\ ss[v][i] \in Sample /\ ss[v][i].off \in Nat /\ ss[v][i].len \in Nat
         /\ ss[v][i].off + ss[v][i].len <= e
         /\ \A j \in 1..ss[v][i].len : ss[v][i].off + j - 1 < e /\ ss[v][i].off + j - 1 \in Nat
<1>1. ss[v][i] \in Sample
  BY SamplesOf
<1> DEFINE x == ss[v][i].off
           n == ss[v][i].len
<1>2. x \in Nat /\ n \in Nat
  BY <1>1, SampleFields
<1>3. x + n <= e
  BY Zenon DEF SamplesLie
<1> HIDE DEF x, n
<1>4. \A j \in 1..n : x + j - 1 < e /\ x + j - 1 \in Nat
  BY <1>2, <1>3
<1> QED
  BY <1>1, <1>2, <1>3, <1>4 DEF x, n

\* With a sample more, a content without it has nothing in its place.
LEMMA HoleMore ==
  ASSUME NEW ss \in [Tracks -> Seq(Sample)], NEW ss2, NEW t \in Tracks, NEW s,
         OneMore(ss, ss2, t, s), NEW e \in Nat, s.off = e, NEW e2 \in Nat, e2 >= e,
         NEW d, DataOrHole(d, ss, e)
  PROVE  DataOrHole(d, ss2, e2)
<1>1. s \in Sample
  BY Zenon DEF OneMore
<1>2. \A x \in Addr : x >= e => d[x] = Hole
  BY Zenon DEF DataOrHole
<1>3. ASSUME NEW v \in Tracks, NEW i \in DOMAIN ss2[v], NEW j \in 1..ss2[v][i].len,
             ss2[v][i].off + j - 1 \in Addr
      PROVE  d[ss2[v][i].off + j - 1] \in {Hole, Data(ss2[v][i].id, j)}
  <2>1. CASE i \in 1..Len(ss[v])
    <3>1. ss2[v][i] = ss[v][i] /\ i \in DOMAIN ss[v]
      BY <2>1, SamplesOf DEF OneMore
    <3> QED
      BY <1>3, <3>1, Zenon DEF DataOrHole
  <2>2. CASE ss2[v][i] = s
    <3> DEFINE n == s.len
               x == e + j - 1
    <3>1. n \in Nat /\ j \in 1..n
      BY <1>1, <2>2, SampleFields
    <3> HIDE DEF n
    <3>2. x >= e
      BY <3>1
    <3>3. x \in Addr
      BY <1>3, <2>2
    <3> HIDE DEF x
    <3>4. d[x] = Hole
      BY <1>2, <3>2, <3>3
    <3> QED
      BY <2>2, <3>4 DEF x
  <2> QED
    BY <2>1, <2>2, Zenon DEF OneMore
<1>4. ASSUME NEW x \in Addr, x >= e2
      PROVE  d[x] = Hole
  <2>1. x \in Nat
    BY FileAssumption
  <2>2. x >= e
    BY <1>4, <2>1
  <2> QED
    BY <1>2, <2>2
<1> QED
  BY <1>3, <1>4, Zenon DEF DataOrHole

\* Cells written behind the media data leave it where it is.
LEMMA OldStay ==
  ASSUME NEW ss \in [Tracks -> Seq(Sample)], NEW e \in Nat, SamplesLie(ss, e),
         NEW d, NEW u \in Seq(Cell), NEW v \in Tracks, NEW i \in DOMAIN ss[v],
         Holds(d, ss[v][i].off, DataOf(ss[v][i]))
  PROVE  Holds(Put(d, e, u), ss[v][i].off, DataOf(ss[v][i]))
<1> DEFINE x == ss[v][i].off
           n == ss[v][i].len
           c == DataOf(ss[v][i])
<1>1. ss[v][i] \in Sample /\ x \in Nat /\ n \in Nat /\ x + n <= e
  BY SampleBefore
<1>2. DOMAIN c = 1..n
  BY <1>1, SampleFields
<1>3. Holds(d, x, c)
  OBVIOUS
<1> HIDE DEF x, n, c
<1>4. Holds(Put(d, e, u), x, c)
  BY <1>1, <1>2, <1>3, HoldsStays
<1> QED
  BY <1>4 DEF x, c

\* The cells of a sample that is being written come to lie in its place.
LEMMA HoleFilled ==
  ASSUME NEW ss \in [Tracks -> Seq(Sample)], NEW ss2, NEW t \in Tracks, NEW s,
         OneMore(ss, ss2, t, s), NEW e \in Nat, s.off = e, SamplesLie(ss, e),
         NEW d, DataOrHole(d, ss, e),
         NEW u \in Seq(Cell), NEW n \in Nat, n = Len(u), n <= s.len,
         \A i \in 1..n : u[i] = Data(s.id, i)
  PROVE  DataOrHole(Put(d, e, u), ss2, e + s.len)
<1> DEFINE w == Put(d, e, u)
           m == s.len
<1>1. s \in Sample /\ m \in Nat /\ n <= m
  BY SampleFields, Zenon DEF OneMore
<1>2. \A x \in Addr : x >= e => d[x] = Hole
  BY Zenon DEF DataOrHole
<1>3. \A x \in Addr : w[x] = IF e <= x /\ x < e + n THEN u[x - e + 1] ELSE d[x]
  BY DEF Put
<1> HIDE DEF w, m
<1>4. \A x \in Addr : x < e \/ x >= e + n => w[x] = d[x]
  <2> SUFFICES ASSUME NEW x \in Addr, x < e \/ x >= e + n PROVE w[x] = d[x]
    OBVIOUS
  <2>1. x \in Nat
    BY FileAssumption
  <2>2. ~(e <= x /\ x < e + n)
    BY <2>1
  <2> QED
    BY <1>3, <2>2
<1>5. ASSUME NEW v \in Tracks, NEW i \in DOMAIN ss2[v], NEW j \in 1..ss2[v][i].len,
             ss2[v][i].off + j - 1 \in Addr
      PROVE  w[ss2[v][i].off + j - 1] \in {Hole, Data(ss2[v][i].id, j)}
  <2>1. CASE i \in 1..Len(ss[v])
    <3>1. ss2[v][i] = ss[v][i] /\ i \in DOMAIN ss[v]
      BY <2>1, SamplesOf DEF OneMore
    <3> DEFINE x == ss[v][i].off + j - 1
    <3>2. x \in Addr /\ d[x] \in {Hole, Data(ss[v][i].id, j)}
      BY <1>5, <3>1, Zenon DEF DataOrHole
    <3>3. x < e
      BY <1>5, <3>1, SampleBefore
    <3> HIDE DEF x
    <3>4. w[x] = d[x]
      BY <1>4, <3>2, <3>3
    <3> QED
      BY <3>1, <3>2, <3>4 DEF x
  <2>2. CASE ss2[v][i] = s
    <3> DEFINE x == e + j - 1
    <3>1. j \in 1..m
      BY <2>2 DEF m
    <3>2. x >= e /\ x \in Nat /\ j \in Nat /\ (x < e + n => j \in 1..n /\ x - e + 1 = j)
      BY <1>1, <3>1
    <3>3. x \in Addr
      BY <1>5, <2>2
    <3> HIDE DEF x
    <3>4. CASE x < e + n
      <4>1. w[x] = u[x - e + 1]
        BY <1>3, <3>2, <3>3, <3>4
      <4>2. u[j] = Data(s.id, j)
        BY <3>2, <3>4
      <4>3. w[x] = Data(s.id, j)
        BY <3>2, <3>4, <4>1, <4>2
      <4> QED
        BY <2>2, <4>3 DEF x
    <3>5. CASE x >= e + n
      <4>1. w[x] = Hole
        BY <1>2, <1>4, <3>2, <3>3, <3>5
      <4> QED
        BY <2>2, <4>1 DEF x
    <3> QED
      BY <3>2, <3>4, <3>5
  <2> QED
    BY <2>1, <2>2, Zenon DEF OneMore
<1>6. ASSUME NEW x \in Addr, x >= e + m
      PROVE  w[x] = Hole
  <2>1. x \in Nat
    BY FileAssumption
  <2>2. x >= e /\ x >= e + n
    BY <1>1, <1>6, <2>1
  <2> QED
    BY <1>2, <1>4, <2>2
<1> QED
  BY <1>5, <1>6, Zenon DEF DataOrHole, w, m

\* The front of the file is left alone by what is written behind it.
LEMMA FrontStays ==
  ASSUME NEW d, NEW ord, NEW tb, Indexes(d, ord, tb), NEW e \in Nat, e >= DataAt, NEW u \in Seq(Cell)
  PROVE  Indexes(Put(d, e, u), ord, tb)
<1> SUFFICES ASSUME NEW y \in 1..(MdatAt - 1)
             PROVE  Old(Put(d, e, u), ord, tb, y)
  BY DEF Indexes
<1>1. Old(d, ord, tb, y)
  BY Zenon DEF Indexes
<1>2. y \in Addr /\ y < e
  <2> DEFINE m == MdatAt
  <2>1. m \in Nat /\ DataAt = m + 1
    BY FrontAddr DEF DataAt, MdatAt
  <2>2. y \in 1..(m - 1) /\ e >= m + 1
    BY <2>1
  <2> HIDE DEF m
  <2>3. y \in Nat /\ y <= m /\ y < e
    BY <2>1, <2>2
  <2> QED
    BY <2>3, FrontAddr DEF m
<1>3. Put(d, e, u)[y] = d[y]
  BY <1>2, PutElsewhere
<1> QED
  BY <1>1, <1>3, Zenon DEF Old, IsCell

\* What write_data does to a file, whether it takes the frame or not.
LEMMA FrameIs ==
  ASSUME NEW g, GoodFile(g), NEW u \in Seq(Cell), NEW h, h = write_data(g, u)
  PROVE  \E c \in Seq(Cell) :
           /\ Len(c) = wrote_len(g, u) /\ \A i \in 1..Len(c) : c[i] = u[i]
           /\ GoodFile(h) /\ View(h) = Put(View(g), g.tell, c) /\ h.tell = g.tell + Len(c)
           /\ Futures(h) \subseteq Futures(g) \cup Newer(g, c)
<1>1. /\ GoodFile(h)
      /\ View(h) = IF Refused(g, u) THEN View(g) ELSE Put(View(g), g.tell, u)
      /\ h.tell = g.tell + wrote_len(g, u)
  BY FrameKeeps
<1>2. g \in File /\ CacheFits(g) /\ View(g) \in Contents /\ g.tell \in Nat
  BY FileFields DEF GoodFile
<1>3. IF Refused(g, u) THEN Like(h, g) ELSE Behind(h, g, u)
  BY <1>2, FrameBehind
<1>4. CASE Refused(g, u)
  <2> DEFINE c == <<>>
  <2>1. c \in Seq(Cell) /\ Len(c) = 0
    BY EmptySeq
  <2>2. Put(View(g), g.tell, c) = View(g)
    BY <1>2, PutNothing
  <2>3. wrote_len(g, u) = 0
    BY <1>4 DEF wrote_len
  <2>4. Futures(h) = Futures(g)
    BY <1>3, <1>4, LikeFutures
  <2> HIDE DEF c
  <2>5. \A i \in 1..Len(c) : c[i] = u[i]
    BY <2>1
  <2>6. h.tell = g.tell + Len(c) /\ View(h) = Put(View(g), g.tell, c) /\ Len(c) = wrote_len(g, u)
    BY <1>1, <1>4, <2>1, <2>2, <2>3
  <2>7. Futures(h) \subseteq Futures(g) \cup Newer(g, c)
    BY <2>4
  <2> QED
    BY <1>1, <2>1, <2>5, <2>6, <2>7, Zenon
<1>5. CASE ~Refused(g, u)
  <2>1. wrote_len(g, u) = Len(u)
    BY <1>5 DEF wrote_len
  <2>2. Futures(h) \subseteq Futures(g) \cup Newer(g, u)
    BY <1>3, <1>5, BehindFutures
  <2>3. h.tell = g.tell + Len(u) /\ View(h) = Put(View(g), g.tell, u)
    BY <1>1, <1>5, <2>1
  <2> QED
    BY <1>1, <2>1, <2>2, <2>3, Zenon
<1> QED
  BY <1>4, <1>5

\* The sample written last is there too.
LEMMA WrittenMore ==
  ASSUME NEW ss \in [Tracks -> Seq(Sample)], NEW ss2, NEW t \in Tracks, NEW s,
         OneMore(ss, ss2, t, s), NEW e \in Nat, s.off = e, SamplesLie(ss, e),
         NEW d, AllWritten(d, ss),
         NEW u \in Seq(Cell), NEW n \in Nat, n = Len(u), n = s.len,
         \A i \in 1..n : u[i] = Data(s.id, i), \A i \in 1..n : e + i - 1 \in Addr
  PROVE  AllWritten(Put(d, e, u), ss2)
<1> DEFINE w == Put(d, e, u)
<1>1. s \in Sample
  BY Zenon DEF OneMore
<1>2. Holds(w, e, DataOf(s))
  <2>1. DOMAIN DataOf(s) = 1..n /\ \A i \in 1..n : DataOf(s)[i] = Data(s.id, i)
    BY <1>1, SampleFields
  <2>2. \A x \in Addr : w[x] = IF e <= x /\ x < e + n THEN u[x - e + 1] ELSE d[x]
    BY DEF Put
  <2> HIDE DEF w
  <2>3. ASSUME NEW i \in 1..n
        PROVE  w[e + i - 1] = Data(s.id, i)
    <3> DEFINE x == e + i - 1
    <3>1. x \in Addr /\ e <= x /\ x < e + n /\ x - e + 1 = i
      OBVIOUS
    <3> HIDE DEF x
    <3>2. w[x] = u[i]
      BY <2>2, <3>1
    <3> QED
      BY <3>2 DEF x
  <2> QED
    BY <2>1, <2>3 DEF Holds
<1> SUFFICES ASSUME NEW v \in Tracks, NEW i \in DOMAIN ss2[v]
             PROVE  Holds(w, ss2[v][i].off, DataOf(ss2[v][i]))
  BY DEF AllWritten
<1>3. CASE i \in 1..Len(ss[v])
  <2>1. ss2[v][i] = ss[v][i] /\ i \in DOMAIN ss[v]
    BY <1>3, SamplesOf DEF OneMore
  <2>2. Holds(d, ss[v][i].off, DataOf(ss[v][i]))
    BY <2>1, Zenon DEF AllWritten
  <2>3. Holds(w, ss[v][i].off, DataOf(ss[v][i]))
    BY <2>1, <2>2, OldStay
  <2> QED
    BY <2>1, <2>3
<1>4. CASE ss2[v][i] = s
  BY <1>2, <1>4
<1> QED
  BY <1>3, <1>4, Zenon DEF OneMore

\* Media data behind a finished index: the index stays, and is sound.
LEMMA BehindIndex ==
  ASSUME NEW d \in Contents, NEW ord \in Orders, NEW ss \in [Tracks -> Seq(Sample)],
         NEW ind \in [Tracks -> Seq(Entry)],
         NEW q1, NEW q2, Shape(ord, ind, q1, q2), Full(ord, ind), (1 + q1) + q2 < MdatAt,
         Indexes(d, ord, ind), AllWritten(d, ss),
         \A v \in Tracks : Names(ind[v], ss[v]),
         NEW e \in Nat, e >= DataAt, SamplesLie(ss, e), NEW u \in Seq(Cell)
  PROVE  Indexes(Put(d, e, u), ord, ind) /\ Sound(Put(d, e, u), ss)
<1> DEFINE w == Put(d, e, u)
<1>1. Indexes(w, ord, ind)
  BY FrontStays
<1>2. w \in Contents
  BY PutType
<1>3. mov_reader_root(w).tab = ind
  <2>1. mov_reader_root(w) = [tab |-> ind, whole |-> TRUE]
    BY <1>1, <1>2, IndexReads
  <2> QED
    BY <2>1
<1>4. ASSUME NEW v \in Tracks, NEW i \in 1..Len(ind[v])
      PROVE  Holds(w, ss[v][i].off, DataOf(ss[v][i]))
  <2>1. i \in DOMAIN ss[v]
    <3> DEFINE m == Len(ind[v])
               n == Len(ss[v])
    <3>1. Names(ind[v], ss[v])
      OBVIOUS
    <3>2. m <= n /\ m \in Nat /\ n \in Nat /\ DOMAIN ss[v] = 1..n /\ i \in 1..m
      BY <3>1, SamplesOf, LenProperties DEF Names
    <3> HIDE DEF m, n
    <3> QED
      BY <3>2
  <2>2. Holds(d, ss[v][i].off, DataOf(ss[v][i]))
    BY <2>1, Zenon DEF AllWritten
  <2> QED
    BY <2>1, <2>2, OldStay
<1> HIDE DEF w
<1>5. Sound(w, ss)
  BY <1>3, <1>4, SoundBy
<1> QED
  BY <1>1, <1>5 DEF w

\* One sample more is at most MaxLen cells more.
LEMMA RoomForData ==
  ASSUME NEW n \in Nat, n + 1 <= MaxSamples, NEW e \in Nat, e <= DataAt + n * MaxLen,
         NEW w \in Nat, w <= MaxLen
  PROVE  /\ e + w <= DataAt + (n + 1) * MaxLen
         /\ e >= DataAt => \A i \in 1..w : e + i - 1 \in Addr
<1> DEFINE l == MaxLen
           m == MaxSamples
           c == MoovCap
<1>1. l \in Nat /\ m \in Nat /\ c \in Nat /\ DataAt = c + 1 /\ Addr = 0..(c + m * l) /\ n + 1 <= m
      /\ w <= l
  BY IndexAssumption DEF DataAt
<1> DEFINE a == DataAt
           p == n * l
           p1 == (n + 1) * l
           pm == m * l
<1> HIDE DEF l, m, c
<1>2. p \in Nat /\ p1 = p + l
  BY <1>1
<1>3. pm >= p1 /\ pm \in Nat
  <2> DEFINE k == m - (n + 1)
  <2>1. k \in Nat /\ m = (n + 1) + k
    BY <1>1
  <2> HIDE DEF k
  <2>2. m * l = (n + 1) * l + k * l /\ k * l \in Nat
    BY <1>1, <2>1
  <2> DEFINE y == k * l
  <2>3. pm = p1 + y /\ y \in Nat /\ p1 \in Nat
    BY <1>1, <1>2, <2>2
  <2> HIDE DEF y, p1, pm
  <2> QED
    BY <2>3
<1>4. e <= a + p
  BY DEF l
<1> HIDE DEF p, p1, pm, a
<1>5. a = c + 1
  BY <1>1 DEF a
<1>6. e + w <= a + p1
  BY <1>1, <1>2, <1>4, <1>5
<1>7. e >= a => \A i \in 1..w : e + i - 1 \in 0..(c + pm)
  BY <1>1, <1>2, <1>3, <1>5, <1>6
<1>8. Addr = 0..(c + pm)
  BY <1>1 DEF pm
<1> QED
  BY <1>6, <1>7, <1>8 DEF a, p1, l

\* The frame n + 1, of track t: the place and the length it is entered with,
\* the samples, the tracks and the file it leaves.
Frame(g, ord, ss, n, t, len, key, s, ss2, ord2, h) ==
  LET u == FrameData(n + 1, len) IN
  /\ t \in Tracks /\ len \in 1..MaxLen /\ key \in {0, 1} /\ n \in Nat /\ n + 1 <= MaxSamples
  /\ n = Len(ss[Video]) + Len(ss[Audio])
  /\ s = [off |-> g.tell, len |-> wrote_len(g, u), key |-> key, id |-> n + 1, size |-> len]
  /\ ss2 = [ss EXCEPT ![t] = Append(@, s)]
  /\ ord2 = IF \E i \in DOMAIN ord : ord[i] = t THEN ord ELSE Append(ord, t)
  /\ h = write_data(g, u)

\* A frame, written while the index on disk is a finished one.
LEMMA FrameOn ==
  ASSUME NEW g, NEW ord, NEW ss, NEW ind, NEW e \in Nat, Recs(g, ord, ss, ind),
         Kept(g, ord, ss, ind, e), Durable(g, ord, ind), e = g.tell,
         NEW n, NEW t, NEW len, NEW key, NEW s, NEW ss2, NEW ord2, NEW h,
         Frame(g, ord, ss, n, t, len, key, s, ss2, ord2, h)
  PROVE  Kept(h, ord2, ss2, ind, h.tell) /\ Durable(h, ord2, ind)
<1> DEFINE u == FrameData(n + 1, len)
<1>0. /\ t \in Tracks /\ len \in 1..MaxLen /\ key \in {0, 1} /\ n \in Nat /\ n + 1 <= MaxSamples
      /\ h = write_data(g, u)
  BY Zenon DEF Frame
<1> DEFINE q1 == Room(ord, ind, 1)
           q2 == Room(ord, ind, 2)
           e2 == h.tell
           w == s.len
<1>1. /\ GoodFile(g) /\ g \in File /\ ord \in Orders /\ View(g) \in Contents
      /\ ss \in [Tracks -> Seq(Sample)] /\ ind \in [Tracks -> Seq(Entry)]
  BY FileFields DEF Recs, GoodFile
<1>2. /\ TracksHaveSamples(ord, ss) /\ SamplesLie(ss, e) /\ Reach(ss, e)
      /\ AllWritten(View(g), ss)
      /\ \A d \in Futures(g) : Sound(d, ss) /\ DataOrHole(d, ss, e)
      /\ \A v \in Tracks : Names(ind[v], ss[v])
      /\ Present(ord, ind, 2) => Present(ord, ind, 1)
  BY KeptParts
<1>3. Shape(ord, ind, q1, q2) /\ Full(ord, ind) /\ (1 + q1) + q2 < MdatAt
  BY TablesFit
<1>4. n + 1 \in 1..MaxSamples /\ n + 1 \in Nat /\ len \in Nat /\ len <= MaxLen /\ MaxLen \in Nat
  <2>1. MaxSamples \in Nat /\ MaxLen \in Nat
    BY IndexAssumption
  <2> QED
    BY <1>0, <2>1
<1>5. u \in Seq(Cell) /\ Len(u) = len
  BY <1>4, FrameCells
<1> HIDE DEF u
<1>6. PICK c \in Seq(Cell) :
        /\ Len(c) = wrote_len(g, u) /\ \A i \in 1..Len(c) : c[i] = u[i]
        /\ GoodFile(h) /\ View(h) = Put(View(g), e, c) /\ e2 = e + Len(c)
        /\ Futures(h) \subseteq Futures(g) \cup Newer(g, c)
  BY <1>0, <1>1, <1>5, FrameIs
<1>7. wrote_len(g, u) \in 0..len /\ wrote_len(g, u) \in Nat
  <2>1. wrote_len(g, u) = 0 \/ wrote_len(g, u) = len
    BY <1>5 DEF wrote_len
  <2> QED
    BY <1>4, <2>1
<1>8. /\ s \in Sample /\ s.off = e /\ s.id = n + 1 /\ w = wrote_len(g, u)
      /\ w \in Nat /\ w <= len /\ w <= MaxLen
  <2>1. s = [off |-> e, len |-> wrote_len(g, u), key |-> key, id |-> n + 1, size |-> len]
    BY DEF Frame, u
  <2> DEFINE y == wrote_len(g, u)
  <2>2. y \in 0..MaxLen /\ y \in Nat /\ y <= len /\ y <= MaxLen
    <3>1. y \in 0..len /\ y \in Nat
      BY <1>7
    <3> HIDE DEF y
    <3> QED
      BY <1>4, <3>1
  <2>3. w = y /\ s.off = e /\ s.id = n + 1
    BY <2>1
  <2> HIDE DEF y, w
  <2>4. s \in Sample
    BY <1>0, <1>4, <2>1, <2>2 DEF Sample, y
  <2> QED
    BY <2>2, <2>3, <2>4 DEF y
<1>9. OneMore(ss, ss2, t, s)
  <2>1. ss2 = [ss EXCEPT ![t] = Append(@, s)]
    BY Zenon DEF Frame
  <2> QED
    BY <1>0, <1>1, <1>8, <2>1, OneMoreIs
<1>10. OrderGrows(ord, ord2, t)
  <2>1. ord2 = IF \E i \in DOMAIN ord : ord[i] = t THEN ord ELSE Append(ord, t)
    BY Zenon DEF Frame
  <2> QED
    BY <1>0, <1>1, <2>1, OrderGrowsBy
<1>11. Len(c) = w /\ e2 = e + w /\ \A i \in 1..w : c[i] = Data(s.id, i)
  <2>1. Len(c) = w /\ e2 = e + w
    BY <1>6, <1>8
  <2>2. \A i \in 1..w : u[i] = Data(n + 1, i)
    <3>1. \A i \in 1..w : i \in 1..len
      <4>1. w \in Nat /\ w <= len
        BY <1>8
      <4> HIDE DEF w
      <4> QED
        BY <1>4, <4>1
    <3> QED
      BY <3>1 DEF FrameData, u
  <2>3. \A i \in 1..w : c[i] = u[i]
    BY <1>6, <2>1
  <2> QED
    BY <1>8, <2>1, <2>2, <2>3
<1> HIDE DEF w, e2, q1, q2
<1>12. e2 \in Nat /\ e2 >= e /\ e >= DataAt /\ e2 >= DataAt
  <2>1. e >= DataAt
    BY <1>2 DEF Reach
  <2> DEFINE m == DataAt
  <2>2. m \in Nat /\ e >= m
    BY <2>1, IndexAssumption DEF DataAt
  <2> HIDE DEF m
  <2>3. e2 \in Nat /\ e2 >= e /\ e2 >= m
    BY <1>8, <1>11, <2>2
  <2> QED
    BY <2>1, <2>3 DEF m
<1>13. Len(ss2[Video]) + Len(ss2[Audio]) = n + 1
  <2>1. n = Len(ss[Video]) + Len(ss[Audio])
    BY Zenon DEF Frame
  <2> QED
    BY <1>9, <2>1, Zenon DEF OneMore
<1>14. e2 <= DataAt + (n + 1) * MaxLen /\ \A i \in 1..w : e + i - 1 \in Addr
  <2>1. e <= DataAt + n * MaxLen
    <3>1. n = Len(ss[Video]) + Len(ss[Audio])
      BY Zenon DEF Frame
    <3>2. e <= DataAt + (Len(ss[Video]) + Len(ss[Audio])) * MaxLen
      BY <1>2, Zenon DEF Reach
    <3> QED
      BY <3>1, <3>2, Zenon
  <2>2. e + w <= DataAt + (n + 1) * MaxLen /\ \A i \in 1..w : e + i - 1 \in Addr
    BY <1>0, <1>4, <1>8, <1>12, <2>1, RoomForData
  <2> QED
    BY <1>11, <2>2
<1>15. Reach(ss2, e2)
  BY <1>12, <1>13, <1>14 DEF Reach
<1>16. TracksHaveSamples(ord2, ss2)
  <2> SUFFICES ASSUME NEW v \in Tracks
               PROVE  (\E i \in DOMAIN ord2 : ord2[i] = v) <=> ss2[v] # <<>>
    BY DEF TracksHaveSamples
  <2>1. CASE v = t
    BY <1>0, <1>9, <1>10, <2>1, Zenon DEF OneMore, OrderGrows
  <2>2. CASE v # t
    <3>1. ss2[v] = ss[v]
      BY <1>9, <2>2, Zenon DEF OneMore
    <3>2. (\E i \in DOMAIN ord2 : ord2[i] = v) <=> \E i \in DOMAIN ord : ord[i] = v
      BY <1>10, <2>2, Zenon DEF OrderGrows
    <3> QED
      BY <1>2, <3>1, <3>2, Zenon DEF TracksHaveSamples
  <2> QED
    BY <2>1, <2>2
<1>17. SamplesLie(ss2, e2)
  <2> SUFFICES ASSUME NEW v \in Tracks, NEW i \in DOMAIN ss2[v]
               PROVE  ss2[v][i].off >= DataAt /\ ss2[v][i].off + ss2[v][i].len <= e2
    BY DEF SamplesLie
  <2>1. CASE i \in 1..Len(ss[v])
    <3>1. ss2[v][i] = ss[v][i] /\ i \in DOMAIN ss[v]
      BY <1>1, <1>9, <2>1, SamplesOf DEF OneMore
    <3> DEFINE x == ss[v][i].off
               m == ss[v][i].len
    <3>2. x \in Nat /\ m \in Nat /\ x + m <= e
      BY <1>1, <1>2, <3>1, SampleBefore
    <3>3. x >= DataAt
      BY <1>2, <3>1, Zenon DEF SamplesLie
    <3> HIDE DEF x, m
    <3>4. x + m <= e2
      BY <1>12, <3>2
    <3> QED
      BY <3>1, <3>3, <3>4 DEF x, m
  <2>2. CASE ss2[v][i] = s
    <3>1. e + w <= e2
      BY <1>8, <1>11, <1>12
    <3> QED
      BY <1>8, <1>12, <2>2, <3>1 DEF w
  <2> QED
    BY <1>9, <2>1, <2>2, Zenon DEF OneMore
<1>18. AllWritten(View(h), ss2)
  <2>1. AllWritten(Put(View(g), e, c), ss2)
    <3>1. c \in Seq(Cell) /\ w = Len(c) /\ w = s.len /\ w \in Nat
      BY <1>8, <1>11 DEF w
    <3> QED
      BY <1>0, <1>1, <1>2, <1>8, <1>9, <1>11, <1>14, <3>1, WrittenMore
  <2> QED
    BY <1>6, <2>1
<1>19. ftell(g) + Len(g.cache) = e
  BY <1>1 DEF GoodFile, TellHolds
<1>20. Indexes(View(g), ord, ind) /\ View(g) \in Futures(g)
  <2>1. View(g) \in Futures(g)
    BY <1>1, FuturesHave
  <2> QED
    BY <2>1, Zenon DEF Durable
<1>21. ASSUME NEW d \in Futures(h)
       PROVE  Sound(d, ss2) /\ DataOrHole(d, ss2, e2) /\ Indexes(d, ord, ind)
  <2>1. CASE d \in Futures(g)
    <3>1. Sound(d, ss) /\ DataOrHole(d, ss, e) /\ Indexes(d, ord, ind)
      BY <1>2, <2>1, Zenon DEF Durable
    <3>2. Sound(d, ss2)
      BY <1>0, <1>1, <1>9, <3>1, SoundMore
    <3>3. DataOrHole(d, ss2, e2)
      BY <1>0, <1>1, <1>8, <1>9, <1>12, <3>1, HoleMore
    <3> QED
      BY <3>1, <3>2, <3>3
  <2>2. CASE d \in Newer(g, c)
    <3>1. PICK j \in 1..Len(c) : d = Put(View(g), ftell(g) + Len(g.cache), SubSeq(c, 1, j))
      BY <2>2 DEF Newer
    <3> DEFINE a == SubSeq(c, 1, j)
    <3>2. j \in 0..Len(c) /\ j \in Nat /\ j <= w
      <4> DEFINE m == Len(c)
      <4>1. j \in 1..m /\ m = w /\ w \in Nat
        BY <1>8, <1>11
      <4> HIDE DEF m
      <4>2. j \in 0..m /\ j \in Nat /\ j <= w
        BY <4>1
      <4> QED
        BY <4>2 DEF m
    <3>3. a \in Seq(Cell) /\ Len(a) = j /\ \A i \in 1..j : a[i] = c[i]
      BY <3>2, FirstOnes
    <3>4. d = Put(View(g), e, a)
      BY <1>19, <3>1
    <3> HIDE DEF a
    <3>5. Indexes(d, ord, ind) /\ Sound(d, ss)
      BY <1>1, <1>2, <1>3, <1>12, <1>20, <3>3, <3>4, BehindIndex
    <3>6. Sound(d, ss2)
      BY <1>0, <1>1, <1>9, <3>5, SoundMore
    <3>7. \A i \in 1..j : a[i] = Data(s.id, i)
      <4>1. \A i \in 1..j : i \in 1..w
        BY <1>8, <3>2
      <4> QED
        BY <1>11, <3>3, <4>1
    <3>8. DataOrHole(Put(View(g), e, a), ss2, e + s.len)
      <4>1. DataOrHole(View(g), ss, e)
        BY <1>2, <1>20
      <4>2. j <= s.len
        BY <3>2 DEF w
      <4> QED
        BY <1>0, <1>1, <1>2, <1>8, <1>9, <3>2, <3>3, <3>7, <4>1, <4>2, HoleFilled
    <3>9. DataOrHole(d, ss2, e2)
      BY <1>11, <3>4, <3>8 DEF w
    <3> QED
      BY <3>5, <3>6, <3>9
  <2> QED
    BY <1>6, <2>1, <2>2
<1>22. (~\E j \in DOMAIN ord : ord[j] = t) => ind[t] = <<>>
  <2> HAVE ~\E j \in DOMAIN ord : ord[j] = t
  <2>1. ss[t] = <<>>
    BY <1>0, <1>2, Zenon DEF TracksHaveSamples
  <2>2. Names(ind[t], ss[t])
    BY <1>0, <1>2
  <2>3. Len(ind[t]) \in Nat /\ Len(ind[t]) <= 0
    BY <2>1, <2>2, EmptySeq, LenProperties DEF Names
  <2>4. Len(ind[t]) = 0
    BY <2>3
  <2> QED
    BY <1>0, <1>1, <2>4, EmptySeq
<1>23. Durable(h, ord2, ind)
  <2> SUFFICES ASSUME NEW d \in Futures(h) PROVE Indexes(d, ord2, ind)
    BY DEF Durable
  <2>1. Indexes(d, ord, ind)
    BY <1>21
  <2> QED
    BY <1>1, <1>10, <1>22, <2>1, SameIndex
<1>24. \A v \in Tracks : Names(ind[v], ss2[v])
  <2> SUFFICES ASSUME NEW v \in Tracks PROVE Names(ind[v], ss2[v])
    OBVIOUS
  <2>1. Names(ind[v], ss[v])
    BY <1>2
  <2> QED
    BY <1>0, <1>1, <1>9, <2>1, NamesMore
<1>25. Present(ord2, ind, 2) => Present(ord2, ind, 1)
  BY <1>2, <1>10, <1>22, SameTracks
<1>26. Kept(h, ord2, ss2, ind, e2)
  BY <1>15, <1>16, <1>17, <1>18, <1>21, <1>24, <1>25, Zenon DEF Kept
<1> QED
  BY <1>23, <1>26 DEF e2

-----------------------------------------------------------------------------
(* The steps of the recorder.                                              *)

\* What the recorder's invariant says of its state.
LEMMA InvRecs ==
  ASSUME Inv
  PROVE  /\ Recs(f, order, samples, indexed) /\ f.tell \in Nat
         /\ GoodFile(f) /\ f \in File /\ order \in Orders /\ samples \in [Tracks -> Seq(Sample)]
         /\ indexed \in [Tracks -> Seq(Entry)]
         /\ todo \in Seq(Step) /\ EndsWell(todo, f.tell)
         /\ phase \in {"record", "update", "close", "closed"}
         /\ phase \in {"record", "closed"} => todo = <<>>
         /\ phase = "close" /\ todo = <<>> => f.cache = <<>>
         /\ todo = <<>> => f.tell >= DataAt
         /\ Written \in Nat
<1>1. /\ f \in File /\ TellHolds(f) /\ CacheFits(f) /\ order \in Orders
      /\ samples \in [Tracks -> Seq(Sample)] /\ indexed \in [Tracks -> Seq(Entry)]
      /\ todo \in Seq(Step) /\ phase \in {"record", "update", "close", "closed"}
      /\ Written <= MaxSamples
  BY DEF Inv, RecTypeOK, CacheKept, Orders
<1>2. Places
  BY DEF Inv
<1>3. f.tell \in Nat
  BY <1>1, FileFields
<1>4. GoodFile(f)
  BY <1>1 DEF GoodFile
<1>5. Recs(f, order, samples, indexed)
  BY <1>1, <1>4, Zenon DEF Recs, Written
<1>6. Written \in Nat
  <2>1. Video \in Tracks /\ Audio \in Tracks
    BY DEF Tracks
  <2>2. Len(samples[Video]) \in Nat /\ Len(samples[Audio]) \in Nat
    BY <1>1, <2>1, SamplesOf
  <2> QED
    <3> DEFINE a == Len(samples[Video])
               b == Len(samples[Audio])
    <3>1. a \in Nat /\ b \in Nat /\ Written = a + b
      BY <2>2 DEF Written
    <3> HIDE DEF a, b
    <3> QED
      BY <3>1
<1> QED
  BY <1>1, <1>2, <1>3, <1>4, <1>5, <1>6, Zenon DEF Places

\* The file and the index between two rewritings.
Settled(g, ord, ss, ind) ==
  Kept(g, ord, ss, ind, g.tell) /\ Durable(g, ord, ind)

\* Between two rewritings.
LEMMA SettledIs ==
  ASSUME Inv, CrashInv, phase \in {"record", "closed"}
  PROVE  Settled(f, order, samples, indexed) /\ todo = <<>> /\ DataEnd = f.tell
<1>1. todo = <<>>
  BY InvRecs
<1>2. DataEnd = f.tell
  BY <1>1 DEF DataEnd
<1> QED
  BY <1>1, <1>2 DEF CrashInv, Settled

\* A frame leaves file and index in order, and names name what they did.
LEMMA FrameSettles ==
  ASSUME Inv, CrashInv, Recording, NEW t \in Tracks, NEW len \in Lens, NEW key \in {0, 1},
         mov_writer_write(t, len, key), order' = Added(t)
  PROVE  /\ Settled(f', order', samples', indexed)
         /\ \A v \in Tracks : \A es : Names(es, samples[v]) => Names(es, samples'[v])
<1> DEFINE n == Written
           u == FrameData(n + 1, len)
           s == [off |-> f.tell, len |-> wrote_len(f, u), key |-> key, id |-> n + 1, size |-> len]
<1>1. /\ Recs(f, order, samples, indexed) /\ f.tell \in Nat /\ order \in Orders
      /\ samples \in [Tracks -> Seq(Sample)] /\ n \in Nat
  BY InvRecs
<1>2. /\ Kept(f, order, samples, indexed, f.tell) /\ Durable(f, order, indexed)
  BY SettledIs DEF Settled, Recording
<1>3. n + 1 <= MaxSamples /\ len \in 1..MaxLen
  <2>1. n < MaxSamples /\ MaxSamples \in Nat /\ len \in 1..MaxLen
    BY IndexAssumption DEF Recording
  <2> HIDE DEF n
  <2> QED
    BY <1>1, <2>1
<1>4. /\ samples' = [samples EXCEPT ![t] = Append(@, s)]
      /\ f' = write_data(f, u)
  BY DEF mov_writer_write
<1>5. order' = IF \E i \in DOMAIN order : order[i] = t THEN order ELSE Append(order, t)
  BY DEF Added
<1>6. n = Len(samples[Video]) + Len(samples[Audio])
  BY DEF Written
<1> HIDE DEF n
<1>7. Frame(f, order, samples, n, t, len, key, s, samples', order', f')
  BY <1>1, <1>3, <1>4, <1>5, <1>6, Zenon DEF Frame
<1> HIDE DEF s, u
<1>8. Kept(f', order', samples', indexed, f'.tell) /\ Durable(f', order', indexed)
  BY <1>1, <1>2, <1>7, FrameOn
<1>9. s \in Sample
  <2>1. u \in Seq(Cell) /\ Len(u) = len
    <3>1. n + 1 \in Nat /\ len \in Nat
      BY <1>1, <1>3
    <3> QED
      BY <3>1, FrameCells DEF u
  <2> DEFINE w == wrote_len(f, u)
  <2>2. w = 0 \/ w = len
    BY <2>1 DEF wrote_len
  <2>3. MaxLen \in Nat /\ MaxSamples \in Nat
    BY IndexAssumption
  <2> HIDE DEF w
  <2>4. w \in 0..MaxLen /\ n + 1 \in 1..MaxSamples
    BY <1>1, <1>3, <2>2, <2>3
  <2>5. s = [off |-> f.tell, len |-> w, key |-> key, id |-> n + 1, size |-> len]
    BY DEF s, w
  <2> QED
    BY <1>1, <1>3, <2>4, <2>5 DEF Sample
<1>10. OneMore(samples, samples', t, s)
  BY <1>1, <1>4, <1>9, OneMoreIs
<1>11. \A v \in Tracks : \A es : Names(es, samples[v]) => Names(es, samples'[v])
  BY <1>1, <1>10, NamesMore
<1> QED
  BY <1>8, <1>11 DEF Settled

\* A rewriting that begins.
LEMMA BeginsWell ==
  ASSUME NEW g, NEW ord, NEW ss, NEW ind, Recs(g, ord, ss, ind), g.tell \in Nat,
         Settled(g, ord, ss, ind),
         NEW q, q = mov_writer_update_moov(ord, Table(ss), g.tell - DataAt, g.tell)
  PROVE  /\ Rewriting(g, ord, ss, ind, g.tell, q)
         /\ q # <<>> /\ q[Len(q)].at = g.tell
<1> DEFINE e == g.tell
           n == e - DataAt
           tb == Table(ss)
<1>1. Kept(g, ord, ss, ind, e) /\ Durable(g, ord, ind)
  BY DEF Settled
<1>2. ord \in Orders /\ e >= DataAt /\ e \in Nat
  BY <1>1, KeptParts DEF Recs, Reach
<1>3. n \in Nat
  BY <1>2, DataLength
<1>4. tb \in [Tracks -> Seq(Entry)] /\ Len(tb[Video]) + Len(tb[Audio]) <= MaxSamples
  BY <1>1, TablesFit
<1> HIDE DEF e, n, tb
<1>5. q \in Seq(Step) /\ Len(q) >= 3 /\ q[Len(q)] = Sk(e)
  <2>1. q = mov_writer_update_moov(ord, tb, n, e)
    BY DEF e, n, tb
  <2> QED
    <3> DEFINE p == mov_writer_update_moov(ord, tb, n, e)
    <3>1. p \in Seq(Step) /\ Len(p) >= 3 /\ p[Len(p)] = Sk(e)
      BY <1>2, <1>3, <1>4, UpdateCalls
    <3> HIDE DEF p
    <3>2. q = p
      BY <2>1 DEF p
    <3> QED
      BY <3>1, <3>2
<1>6. q # <<>> /\ q[Len(q)].at = e
  <2>1. Len(<<>>) = 0 /\ Sk(e).at = e
    BY EmptySeq DEF Sk
  <2>2. q # <<>>
    BY <1>5, <2>1
  <2> QED
    BY <1>5, <2>1, <2>2
<1>7. Rewriting(g, ord, ss, ind, e, q)
  BY <1>1, <1>2, BeginKeeps DEF e
<1> QED
  BY <1>6, <1>7 DEF e

\* The same of the state after a step.
LEMMA InvRecsNext ==
  ASSUME Inv'
  PROVE  Recs(f', order', samples', indexed') /\ f'.tell \in Nat /\ f' \in File
<1>1. /\ f' \in File /\ TellHolds(f') /\ CacheFits(f') /\ order' \in Orders
      /\ samples' \in [Tracks -> Seq(Sample)] /\ indexed' \in [Tracks -> Seq(Entry)]
      /\ Len(samples'[Video]) + Len(samples'[Audio]) <= MaxSamples
  BY DEF Inv, RecTypeOK, CacheKept, Orders, Written
<1>2. f'.tell \in Nat
  BY <1>1, FileFields
<1> QED
  BY <1>1, <1>2, Zenon DEF Recs, GoodFile

\* Between two rewritings, after a step.
LEMMA SettledNext ==
  ASSUME Settled(f', order', samples', indexed'), todo' = <<>>, phase' = "record", moov_mutex' = FALSE
  PROVE  CrashInv'
<1>1. DataEnd' = f'.tell
  BY DEF DataEnd
<1>2. /\ phase' # "closed" /\ phase' \notin {"update", "close"} /\ phase' # "update"
  OBVIOUS
<1>3. Kept(f', order', samples', indexed', DataEnd')
  BY <1>1 DEF Settled
<1>4. Durable(f', order', indexed')
  BY DEF Settled
<1> QED
  BY <1>2, <1>3, <1>4 DEF CrashInv

\* A rewriting begins.
LEMMA BeginsNext ==
  ASSUME Inv', Settled(f', order', samples', indexed'), phase' \in {"update", "close"},
         moov_mutex' <=> phase' = "update",
         todo' = mov_writer_update_moov(order', Table(samples'), f'.tell - DataAt, f'.tell)
  PROVE  CrashInv'
<1>1. /\ Rewriting(f', order', samples', indexed', f'.tell, todo')
      /\ todo' # <<>> /\ todo'[Len(todo')].at = f'.tell
  BY InvRecsNext, BeginsWell
<1>2. DataEnd' = f'.tell
  BY <1>1 DEF DataEnd
<1>3. phase' \notin {"record", "closed"} /\ phase' # "closed"
  OBVIOUS
<1>4. Kept(f', order', samples', indexed', DataEnd')
  BY <1>2 DEF Settled
<1>5. Rewriting(f', order', samples', indexed', DataEnd', todo')
  BY <1>1, <1>2
<1> QED
  BY <1>3, <1>4, <1>5 DEF CrashInv

\* After a frame the index is rewritten or not.
LEMMA FrameEnds ==
  ASSUME Inv, Inv', CrashInv, Recording, Settled(f', order', samples', indexed'),
         imp_update_moov \/ NoUpdate
  PROVE  CrashInv'
<1>1. phase = "record" /\ todo = <<>> /\ moov_mutex = FALSE
  <2>1. phase = "record"
    BY DEF Recording
  <2>2. todo = <<>>
    BY <2>1, InvRecs
  <2>3. moov_mutex \in BOOLEAN
    BY DEF Inv, RecTypeOK
  <2>4. ~moov_mutex
    BY <2>1 DEF CrashInv
  <2> QED
    BY <2>1, <2>2, <2>3, <2>4
<1>2. CASE imp_update_moov
  <2>1. phase' \in {"update", "close"} /\ (moov_mutex' <=> phase' = "update")
    BY <1>2 DEF imp_update_moov
  <2>2. todo' = mov_writer_update_moov(order', Table(samples'), f'.tell - DataAt, f'.tell)
    BY <1>2 DEF imp_update_moov
  <2> QED
    BY <2>1, <2>2, BeginsNext
<1>3. CASE NoUpdate
  <2>1. todo' = <<>> /\ phase' = "record" /\ moov_mutex' = FALSE
    BY <1>1, <1>3 DEF NoUpdate
  <2> QED
    BY <2>1, SettledNext
<1> QED
  BY <1>2, <1>3

\* A frame of the video.
LEMMA VideoKeeps ==
  ASSUME Inv, Inv', CrashInv, NEW len \in Lens, NEW key \in {0, 1}, imp_write_video(len, key)
  PROVE  /\ CrashInv'
         /\ \A v \in Tracks : \A es : Names(es, samples[v]) => Names(es, samples'[v])
<1>1. Recording /\ indexed' = indexed /\ (imp_update_moov \/ NoUpdate)
      /\ order' = IF key = 1 THEN Added(Video) ELSE order
  BY DEF imp_write_video
<1>2. Video \in Tracks /\ order \in Orders
  BY InvRecs DEF Tracks
<1>3. OrderGrows(order, Added(Video), Video)
  BY <1>2, OrderGrowsBy DEF Added
<1>4. /\ Settled(f', order', samples', indexed')
      /\ \A v \in Tracks : \A es : Names(es, samples[v]) => Names(es, samples'[v])
  <2>1. CASE (\E i \in DOMAIN order' : order'[i] = Video) /\ mov_writer_write(Video, len, key)
    <3>1. order' = Added(Video)
      BY <1>1, <2>1 DEF Added
    <3>2. /\ Settled(f', order', samples', indexed)
          /\ \A v \in Tracks : \A es : Names(es, samples[v]) => Names(es, samples'[v])
      BY <1>1, <1>2, <2>1, <3>1, FrameSettles
    <3> QED
      BY <1>1, <3>2
  <2>2. CASE (~\E i \in DOMAIN order' : order'[i] = Video) /\ UNCHANGED <<f, samples>>
    <3>1. order' = order
      BY <1>1, <1>3, <2>2, Zenon DEF OrderGrows
    <3>2. f' = f /\ samples' = samples
      BY <2>2
    <3>3. Settled(f, order, samples, indexed)
      BY <1>1, SettledIs DEF Recording
    <3> QED
      BY <1>1, <3>1, <3>2, <3>3
  <2> QED
    BY <2>1, <2>2 DEF imp_write_video
<1> QED
  BY <1>1, <1>4, FrameEnds

\* A frame of the sound.
LEMMA AudioKeeps ==
  ASSUME Inv, Inv', CrashInv, NEW len \in Lens, imp_write_audio(len)
  PROVE  /\ CrashInv'
         /\ \A v \in Tracks : \A es : Names(es, samples[v]) => Names(es, samples'[v])
<1>1. /\ Recording /\ indexed' = indexed /\ NoUpdate /\ order' = Added(Audio)
      /\ mov_writer_write(Audio, len, 0)
  BY DEF imp_write_audio
<1>2. Audio \in Tracks /\ 0 \in {0, 1}
  BY DEF Tracks
<1>3. /\ Settled(f', order', samples', indexed)
      /\ \A v \in Tracks : \A es : Names(es, samples[v]) => Names(es, samples'[v])
  BY <1>1, <1>2, FrameSettles
<1>4. Settled(f', order', samples', indexed')
  BY <1>1, <1>3
<1> QED
  BY <1>1, <1>3, <1>4, FrameEnds

\* imp_close_mp4 begins the last rewriting.
LEMMA CloseKeeps ==
  ASSUME Inv, Inv', CrashInv, imp_close_mp4
  PROVE  CrashInv'
<1>1. /\ phase = "record" /\ phase' = "close"
      /\ todo' = mov_writer_update_moov(order, Table(samples), mdat_size, f.tell)
      /\ f' = f /\ order' = order /\ samples' = samples /\ moov_mutex' = moov_mutex
      /\ indexed' = indexed
  BY DEF imp_close_mp4
<1>2. Settled(f', order', samples', indexed')
  BY <1>1, SettledIs
<1>3. moov_mutex' <=> phase' = "update"
  <2>1. ~moov_mutex
    BY <1>1 DEF CrashInv
  <2> QED
    BY <1>1, <2>1
<1>4. todo' = mov_writer_update_moov(order', Table(samples'), f'.tell - DataAt, f'.tell)
  BY <1>1 DEF mdat_size
<1> QED
  BY <1>1, <1>2, <1>3, <1>4, BeginsNext

\* A call of a rewriting.
LEMMA CallOn ==
  ASSUME Inv, Inv', CrashInv, Call
  PROVE  CrashInv'
<1> DEFINE e == DataEnd
           h == IF Head(todo).op = "seek" THEN mov_file_cache_seek(f, Head(todo).at)
                ELSE mov_file_cache_write(f, <<Head(todo).cell>>)
           td == Tail(todo)
           l == Len(todo)
<1>1. /\ todo # <<>> /\ f' = h /\ todo' = td
      /\ order' = order /\ samples' = samples /\ phase' = phase /\ moov_mutex' = moov_mutex
      /\ indexed' = indexed
  BY DEF Call
<1>2. /\ Recs(f, order, samples, indexed) /\ todo \in Seq(Step) /\ EndsWell(todo, f.tell)
      /\ phase \in {"update", "close"} /\ f.tell \in Nat /\ GoodFile(f)
  BY <1>1, InvRecs
<1>3. /\ l \in Nat /\ l >= 1 /\ Head(todo) = todo[1] /\ todo[l] \in Step
      /\ Len(td) = l - 1 /\ \A i \in 1..(l - 1) : td[i] = todo[i + 1]
  <2>1. /\ l \in Nat /\ l # 0 /\ Head(todo) = todo[1] /\ Len(td) = l - 1
        /\ \A i \in 1..(l - 1) : td[i] = todo[i + 1]
    BY <1>1, <1>2, HeadTailProperties, EmptySeq, LenProperties
  <2>2. l \in 1..l /\ l >= 1
    <3> HIDE DEF l
    <3> QED
      BY <2>1
  <2>3. todo[l] \in Step
    BY <1>2, <2>2, ElementOfSeq
  <2> QED
    BY <2>1, <2>2, <2>3
<1>4. e = todo[l].at /\ e \in Nat
  BY <1>1, <1>3 DEF DataEnd, Step
<1>5. /\ Kept(f, order, samples, indexed, e)
      /\ Rewriting(f, order, samples, indexed, e, todo)
      /\ moov_mutex <=> phase = "update"
  BY <1>2 DEF CrashInv
<1> HIDE DEF e, h
<1>6. /\ Kept(h, order, samples, indexed, e)
      /\ Rewriting(h, order, samples, indexed, e, td)
  BY <1>1, <1>2, <1>4, <1>5, CallKeeps DEF h
<1>7. DataEnd' = e
  <2>1. CASE td = <<>>
    <3>1. l = 1
      <4>1. Len(td) = 0
        BY <2>1, EmptySeq
      <4> HIDE DEF l
      <4> QED
        BY <1>3, <4>1
    <3>2. Head(todo).op = "seek" /\ Head(todo).at = e
      BY <1>2, <1>3, <1>4, <3>1 DEF EndsWell
    <3>3. h.tell = e
      BY <1>2, <1>4, <3>2, SeekKeeps DEF h
    <3> QED
      BY <1>1, <2>1, <3>3 DEF DataEnd
  <2>2. CASE td # <<>>
    <3>1. DataEnd' = td[Len(td)].at
      BY <1>1, <2>2 DEF DataEnd
    <3>2. Len(td) # 0
      <4>1. td \in Seq(Step)
        BY <1>1, <1>2, HeadTailProperties
      <4> QED
        BY <2>2, <4>1, EmptySeq
    <3>3. Len(td) \in 1..(l - 1) /\ Len(td) + 1 = l
      <4> DEFINE m == Len(td)
      <4>1. m = l - 1 /\ m # 0
        BY <1>3, <3>2
      <4> HIDE DEF l, m
      <4> QED
        BY <1>3, <4>1
    <3>4. td[Len(td)] = todo[l]
      BY <1>3, <3>3
    <3> QED
      BY <1>4, <3>1, <3>4
  <2> QED
    BY <2>1, <2>2
<1>8. /\ Kept(f', order', samples', indexed', DataEnd')
      /\ Rewriting(f', order', samples', indexed', DataEnd', todo')
  BY <1>1, <1>6, <1>7
<1>9. phase' \notin {"record", "closed"} /\ phase' # "closed" /\ (moov_mutex' <=> phase' = "update")
  BY <1>1, <1>2, <1>5
<1> QED
  BY <1>8, <1>9 DEF CrashInv

\* A rewriting has ended.
LEMMA DoneSettles ==
  ASSUME Inv, CrashInv, phase \in {"update", "close"}, todo = <<>>
  PROVE  /\ Settled(f, order, samples, Table(samples))
         /\ \A d \in Futures(f) : d = View(f)
<1>1. Recs(f, order, samples, indexed) /\ f.tell \in Nat
  BY InvRecs
<1>2. DataEnd = f.tell
  BY DEF DataEnd
<1>3. /\ Kept(f, order, samples, indexed, f.tell)
      /\ Rewriting(f, order, samples, indexed, f.tell, <<>>)
  BY <1>2 DEF CrashInv
<1>4. /\ Kept(f, order, samples, Table(samples), f.tell) /\ Durable(f, order, Table(samples))
      /\ \A d \in Futures(f) : d = View(f)
  BY <1>1, <1>3, DoneKeeps
<1> QED
  BY <1>4 DEF Settled

\* update_moov returns.
LEMMA UpdateDoneOn ==
  ASSUME Inv, CrashInv, UpdateDone
  PROVE  CrashInv'
<1>1. /\ phase = "update" /\ todo = <<>> /\ phase' = "record" /\ moov_mutex' = FALSE
      /\ indexed' = Table(samples)
      /\ f' = f /\ order' = order /\ samples' = samples /\ todo' = todo
  BY DEF UpdateDone
<1>2. Settled(f', order', samples', indexed')
  BY <1>1, DoneSettles
<1> QED
  BY <1>1, <1>2, SettledNext

\* A file that is as another, with no more contents to come.
LEMMA ShrinkKeeps ==
  ASSUME NEW g, NEW h, View(h) = View(g), h.tell = g.tell, Futures(h) \subseteq Futures(g),
         NEW ord, NEW ss, NEW ind, NEW e, NEW td
  PROVE  /\ Kept(g, ord, ss, ind, e) => Kept(h, ord, ss, ind, e)
         /\ Durable(g, ord, ind) => Durable(h, ord, ind)
         /\ Rewriting(g, ord, ss, ind, e, td) => Rewriting(h, ord, ss, ind, e, td)
<1>1. \A d \in Futures(h) : d \in Futures(g)
  OBVIOUS
<1>2. Kept(g, ord, ss, ind, e) => Kept(h, ord, ss, ind, e)
  BY <1>1, Zenon DEF Kept
<1>3. Durable(g, ord, ind) => Durable(h, ord, ind)
  BY <1>1, Zenon DEF Durable
<1>4. Rewriting(g, ord, ss, ind, e, td) => Rewriting(h, ord, ss, ind, e, td)
  BY <1>1, Zenon DEF Rewriting
<1> QED
  BY <1>2, <1>3, <1>4

\* The last file is closed.
LEMMA CloseDoneOn ==
  ASSUME Inv, CrashInv, CloseDone
  PROVE  CrashInv'
<1>1. /\ phase = "close" /\ todo = <<>> /\ phase' = "closed"
      /\ f' = [fseek(f, f.tell) EXCEPT !.cache = <<>>]
      /\ indexed' = Table(samples)
      /\ order' = order /\ samples' = samples /\ todo' = todo /\ moov_mutex' = moov_mutex
  BY DEF CloseDone
<1>2. f \in File /\ f.cache = <<>> /\ f.tell \in Nat
  BY <1>1, InvRecs
<1> DEFINE h == fseek(f, f.tell)
<1>3. /\ h \in File /\ h.cache = <<>> /\ h.tell = f.tell /\ View(h) = View(f)
  BY <1>2, fseekIs
<1>4. \A d \in Futures(h) : d = View(h)
  BY <1>2, CloseFutures
<1>5. View(f) \in Futures(f)
  BY <1>2, FuturesHave
<1> HIDE DEF h
<1>6. f' = h
  <2>1. f' = [h EXCEPT !.cache = <<>>]
    BY <1>1 DEF h
  <2> QED
    BY <1>3, <2>1 DEF File
<1>7. Futures(h) \subseteq Futures(f)
  BY <1>3, <1>4, <1>5
<1>8. Settled(f, order, samples, Table(samples))
  BY <1>1, DoneSettles
<1>9. /\ Kept(h, order, samples, Table(samples), h.tell)
      /\ Durable(h, order, Table(samples))
  BY <1>3, <1>7, <1>8, ShrinkKeeps DEF Settled
<1>10. DataEnd' = h.tell
  BY <1>1, <1>6 DEF DataEnd
<1>11. /\ Kept(f', order', samples', indexed', DataEnd') /\ Durable(f', order', indexed')
       /\ indexed' = Table(samples')
  <2>1. Table(samples') = Table(samples)
    BY <1>1
  <2> QED
    BY <1>1, <1>6, <1>9, <1>10, <2>1
<1>12. phase' \notin {"update", "close"} /\ (moov_mutex' <=> phase' = "update")
  <2>1. ~moov_mutex
    BY <1>1 DEF CrashInv
  <2> QED
    BY <1>1, <2>1
<1> QED
  BY <1>11, <1>12 DEF CrashInv

\* stdio writes out a part of its buffer.
LEMMA SpillOn ==
  ASSUME Inv, CrashInv, Spill
  PROVE  CrashInv'
<1>1. /\ f.pend # <<>> /\ f' = Spilt(f, 1)
      /\ order' = order /\ samples' = samples /\ todo' = todo /\ phase' = phase
      /\ moov_mutex' = moov_mutex /\ indexed' = indexed
  BY DEF Spill
<1>2. f \in File
  BY InvRecs
<1>3. 1 \in 0..Len(f.pend)
  <2>1. Len(f.pend) \in Nat /\ Len(f.pend) # 0
    BY <1>1, <1>2, FileFields, EmptySeq
  <2> DEFINE m == Len(f.pend)
  <2> HIDE DEF m
  <2>2. m \in Nat /\ m # 0 => 1 \in 0..m
    OBVIOUS
  <2> QED
    BY <2>1, <2>2 DEF m
<1>4. View(f') = View(f) /\ f'.tell = f.tell
  BY <1>1, <1>2, <1>3, SpiltIs
<1>5. Futures(f') \subseteq Futures(f)
  BY <1>1, <1>2, SpiltFutures
<1>6. DataEnd' = DataEnd
  BY <1>1, <1>4 DEF DataEnd
<1> DEFINE e == DataEnd
<1> HIDE DEF e
<1>7. /\ Kept(f, order, samples, indexed, e) => Kept(f', order, samples, indexed, e)
      /\ Durable(f, order, indexed) => Durable(f', order, indexed)
      /\ Rewriting(f, order, samples, indexed, e, todo) => Rewriting(f', order, samples, indexed, e, todo)
  BY <1>4, <1>5, ShrinkKeeps
<1>8. /\ Kept(f, order, samples, indexed, e)
      /\ phase \in {"record", "closed"} => Durable(f, order, indexed)
      /\ phase = "closed" => indexed = Table(samples)
      /\ phase \in {"update", "close"} => Rewriting(f, order, samples, indexed, e, todo)
      /\ moov_mutex <=> phase = "update"
  BY DEF CrashInv, e
<1> QED
  BY <1>1, <1>6, <1>7, <1>8 DEF CrashInv, e

\* A step of the player.
LEMMA OtherOn ==
  ASSUME CrashInv, UNCHANGED <<f, order, samples, todo, phase, moov_mutex, indexed>>
  PROVE  CrashInv'
<1>1. DataEnd' = DataEnd
  BY DEF DataEnd
<1> QED
  BY <1>1 DEF CrashInv

\* The file create_mp4_by_path leaves: an empty index and no media data.
LEMMA CrashInit ==
  ASSUME Init
  PROVE  CrashInv /\ PlayInv
<1>1. /\ f = Created /\ order = <<>> /\ samples = [t \in Tracks |-> <<>>] /\ todo = <<>>
      /\ phase = "record" /\ moov_mutex = FALSE /\ indexed = NoTrack /\ tab = NoTrack
  BY DEF Init, RecInit, PlayInit
<1>2. Inv
  BY InvInit
<1>3. /\ Recs(f, order, samples, indexed) /\ f.tell \in Nat /\ f \in File /\ order \in Orders
      /\ samples \in [Tracks -> Seq(Sample)] /\ indexed \in [Tracks -> Seq(Entry)]
  BY <1>2, InvRecs
<1> DEFINE d0 == [x \in Addr |-> CASE x = 0 -> Moov(8)
                                  [] 0 < x /\ x < MdatAt -> Zeros
                                  [] x = MdatAt -> Mdat(0)
                                  [] OTHER -> Hole]
<1>4. f.disk = d0 /\ f.base = DataAt /\ f.pend = <<>> /\ f.cache = <<>> /\ f.tell = DataAt
  BY <1>1 DEF Created
<1>5. View(f) = f.disk
  <2>1. f.disk \in Contents /\ ftell(f) \in Nat /\ f.base \in Nat
    BY <1>3, FileFields
  <2>2. Put(f.disk, f.base, f.pend) = f.disk
    BY <1>4, <2>1, PutNothing
  <2> QED
    BY <1>4, <2>1, <2>2, PutNothing DEF View
<1>6. \A d \in Futures(f) : d = f.disk
  BY <1>3, <1>4, <1>5, NothingWaits
<1>7. MdatAt \in Nat /\ DataAt = MdatAt + 1 /\ MdatAt >= 0
  BY FrontAddr DEF DataAt, MdatAt
<1>8. /\ \A y \in Addr : y >= 1 /\ y < MdatAt => f.disk[y] = Zeros
      /\ \A y \in Addr : y >= DataAt => f.disk[y] = Hole
  <2> DEFINE m == MdatAt
  <2> SUFFICES ASSUME NEW y \in Addr
               PROVE  /\ y >= 1 /\ y < m => d0[y] = Zeros
                      /\ y >= m + 1 => d0[y] = Hole
    BY <1>4, <1>7
  <2>1. y \in Nat /\ m \in Nat
    BY <1>7, FileAssumption
  <2>2. d0[y] = CASE y = 0 -> Moov(8)
                  [] 0 < y /\ y < m -> Zeros
                  [] y = m -> Mdat(0)
                  [] OTHER -> Hole
    OBVIOUS
  <2> DEFINE c == d0[y]
  <2> HIDE DEF m, c
  <2> QED
    BY <2>1, <2>2 DEF c
<1> HIDE DEF d0
<1>9. \A t \in Tracks : samples[t] = <<>> /\ indexed[t] = <<>> /\ tab[t] = <<>>
  BY <1>1 DEF NoTrack
<1>10. \A t \in Tracks : DOMAIN samples[t] = {}
  <2>1. \A t \in Tracks : DOMAIN samples[t] = 1..Len(samples[t]) /\ Len(samples[t]) = 0
    BY <1>3, <1>9, SamplesOf, EmptySeq
  <2> QED
    BY <2>1
<1>11. \A t \in Tracks : Names(<<>>, samples[t])
  <2>1. <<>> \in Seq(Entry) /\ Len(<<>>) = 0
    BY EmptySeq
  <2> QED
    BY <1>9, <2>1 DEF Names
<1>12. \A i : ~Present(order, indexed, i)
  <2>1. DOMAIN order = {}
    BY <1>1
  <2> QED
    BY <2>1 DEF Present
<1>13. Indexes(f.disk, order, indexed)
  <2> SUFFICES ASSUME NEW y \in 1..(MdatAt - 1) PROVE Old(f.disk, order, indexed, y)
    BY DEF Indexes
  <2>1. Room(order, indexed, 1) = 0 /\ Room(order, indexed, 2) = 0
    BY <1>12 DEF Room
  <2>2. Second(order, indexed) = 1 /\ End(order, indexed) = 1
    BY <2>1 DEF Second, End
  <2> DEFINE m == MdatAt
  <2>3. y \in 1..(m - 1) /\ m \in Nat
    BY <1>7
  <2> HIDE DEF m
  <2>4. y \in Nat /\ y >= 1 /\ y < m /\ y <= m /\ ~(y < 1)
    BY <2>3
  <2>5. y \in Addr /\ Blank(f.disk[y])
    BY <1>8, <2>4, FrontAddr DEF m, Blank
  <2> QED
    BY <2>2, <2>4, <2>5, Zenon DEF Old, IsCell
<1>14. TracksHaveSamples(order, samples)
  <2>1. DOMAIN order = {}
    BY <1>1
  <2> QED
    BY <1>9, <2>1 DEF TracksHaveSamples
<1>15. SamplesLie(samples, DataAt) /\ AllWritten(View(f), samples)
  BY <1>10 DEF SamplesLie, AllWritten
<1>16. Reach(samples, DataAt)
  <2>1. Video \in Tracks /\ Audio \in Tracks
    BY DEF Tracks
  <2>2. Len(samples[Video]) = 0 /\ Len(samples[Audio]) = 0
    BY <1>9, <2>1, EmptySeq
  <2>3. MaxLen \in Nat /\ DataAt \in Nat
    BY IndexAssumption DEF DataAt
  <2>4. (0 + 0) * MaxLen = 0
    BY <2>3
  <2> DEFINE a == DataAt
  <2>5. a >= a /\ a <= a + 0
    <3>1. a \in Nat
      BY <2>3
    <3> HIDE DEF a
    <3> QED
      BY <3>1
  <2> QED
    BY <2>2, <2>4, <2>5, Zenon DEF Reach, a
<1>17. DataOrHole(f.disk, samples, DataAt)
  BY <1>8, <1>10 DEF DataOrHole
<1>18. Sound(f.disk, samples)
  <2> DEFINE q1 == Room(order, indexed, 1)
             q2 == Room(order, indexed, 2)
  <2>1. q1 = Room(order, indexed, 1) /\ q2 = Room(order, indexed, 2)
    OBVIOUS
  <2> HIDE DEF q1, q2
  <2>2. \A t \in Tracks : Names(indexed[t], samples[t])
    BY <1>9, <1>11
  <2>3. Len(samples[Video]) + Len(samples[Audio]) <= MaxSamples
    BY <1>3, Zenon DEF Recs
  <2>4. Shape(order, indexed, q1, q2) /\ (1 + q1) + q2 < MdatAt /\ Full(order, indexed)
    BY <1>3, <1>12, <1>14, <2>1, <2>2, <2>3, IndexFits
  <2>5. f.disk \in Contents
    BY <1>3, FileFields
  <2>6. mov_reader_root(f.disk) = [tab |-> indexed, whole |-> TRUE]
    BY <1>3, <1>13, <2>4, <2>5, IndexReads
  <2>7. mov_reader_root(f.disk).tab = indexed
    BY <2>6
  <2>8. \A t \in Tracks : Len(indexed[t]) = 0
    BY <1>9, EmptySeq
  <2>9. \A t \in Tracks : \A i \in 1..Len(indexed[t]) :
          Holds(f.disk, samples[t][i].off, DataOf(samples[t][i]))
    BY <2>8
  <2> QED
    BY <1>3, <2>2, <2>7, <2>9, SoundBy
<1>19. DataEnd = DataAt
  BY <1>1, <1>4 DEF DataEnd
<1>20. Kept(f, order, samples, indexed, DataEnd)
  <2>1. \A t \in Tracks : Names(indexed[t], samples[t])
    BY <1>9, <1>11
  <2>2. \A d \in Futures(f) : Sound(d, samples) /\ DataOrHole(d, samples, DataAt)
    BY <1>6, <1>17, <1>18
  <2> QED
    BY <1>12, <1>14, <1>15, <1>16, <1>19, <2>1, <2>2 DEF Kept
<1>21. Durable(f, order, indexed)
  BY <1>6, <1>13, Zenon DEF Durable
<1>22. CrashInv
  BY <1>1, <1>20, <1>21 DEF CrashInv
<1>23. PlayInv
  BY <1>9, <1>11 DEF PlayInv
<1> QED
  BY <1>22, <1>23

-----------------------------------------------------------------------------
(* The invariant.                                                          *)

\* A step of the storage thread keeps the file in order, and what names a
\* sample goes on doing so.
LEMMA StorageKeeps ==
  ASSUME Inv, Inv', CrashInv, Storage
  PROVE  /\ CrashInv'
         /\ \A v \in Tracks : \A es : Names(es, samples[v]) => Names(es, samples'[v])
<1>1. ASSUME NEW len \in Lens, NEW key \in {0, 1}, imp_write_video(len, key)
      PROVE  /\ CrashInv'
             /\ \A v \in Tracks : \A es : Names(es, samples[v]) => Names(es, samples'[v])
  BY <1>1, VideoKeeps
<1>2. ASSUME NEW len \in Lens, imp_write_audio(len)
      PROVE  /\ CrashInv'
             /\ \A v \in Tracks : \A es : Names(es, samples[v]) => Names(es, samples'[v])
  BY <1>2, AudioKeeps
<1>3. ASSUME Call \/ UpdateDone \/ CloseDone \/ Spill
      PROVE  CrashInv' /\ samples' = samples
  <2>1. CrashInv'
    BY <1>3, CallOn, UpdateDoneOn, CloseDoneOn, SpillOn
  <2>2. samples' = samples
    BY <1>3 DEF Call, UpdateDone, CloseDone, Spill
  <2> QED
    BY <2>1, <2>2
<1> QED
  BY <1>1, <1>2, <1>3, Zenon DEF Storage

\* A reader of the disk gets tables that name samples.
LEMMA ReadNames ==
  ASSUME Inv, CrashInv
  PROVE  \A t \in Tracks : Names(mov_reader_root(f.disk).tab[t], samples[t])
<1>1. f \in File
  BY InvRecs
<1>2. f.disk \in Futures(f)
  BY <1>1, FuturesHave
<1>3. Sound(f.disk, samples)
  BY <1>2, KeptParts DEF CrashInv
<1> QED
  BY <1>3, Zenon DEF Sound

\* The table of no track names nothing, that of a track all its samples.
LEMMA TablesName ==
  ASSUME Inv, NEW t \in Tracks
  PROVE  /\ Names(<<>>, samples[t])
         /\ Names(Entries(samples[t]), samples[t])
<1>1. samples \in [Tracks -> Seq(Sample)]
  BY InvRecs
<1>2. Table(samples)[t] = Entries(samples[t])
  BY DEF Table
<1>3. Names(Entries(samples[t]), samples[t])
  BY <1>1, <1>2, TableNames
<1>4. Len(samples[t]) \in Nat
  BY <1>1, SamplesOf
<1>5. <<>> \in Seq(Entry) /\ Len(<<>>) = 0
  BY EmptySeq
<1>6. Names(<<>>, samples[t])
  <2> DEFINE a == Len(samples[t])
             z == Len(<<>>)
  <2>1. a \in Nat /\ z = 0
    BY <1>4, <1>5
  <2> HIDE DEF a, z
  <2>2. z <= a /\ \A i \in 1..z : FALSE
    BY <2>1
  <2> QED
    BY <1>5, <2>2, Zenon DEF Names, a, z
<1> QED
  BY <1>3, <1>6

\* The table taken over from the recorder.
LEMMA SyncNames ==
  ASSUME Inv, sync_context, samples' = samples
  PROVE  PlayInv'
<1>1. PICK copied : tab' = [t \in Tracks |-> IF t \in copied THEN Entries(samples[t]) ELSE <<>>]
  BY Zenon DEF sync_context
<1>2. ASSUME NEW t \in Tracks PROVE Names(tab'[t], samples'[t])
  <2>1. tab'[t] = Entries(samples[t]) \/ tab'[t] = <<>>
    BY <1>1
  <2> QED
    BY <2>1, TablesName
<1> QED
  BY <1>2 DEF PlayInv

\* The table of an index that is read.
LEMMA OpenNames ==
  ASSUME Inv, CrashInv, create_mp4_readctx, samples' = samples
  PROVE  PlayInv'
<1>1. tab' = mov_reader_root(f.disk).tab
  BY DEF create_mp4_readctx
<1> QED
  BY <1>1, ReadNames DEF PlayInv

\* What the player does keeps its table one of samples.
LEMMA PlayerKeeps ==
  ASSUME Inv, CrashInv, PlayInv, Player
  PROVE  CrashInv' /\ PlayInv'
<1>1. UNCHANGED <<f, order, samples, todo, phase, moov_mutex, indexed>>
  BY DEF Player, imp_read_mp4, sync_rw_context, ReadEnd, ReadFrame, ReadShort, reopen_mp4,
         imp_close_mp4_reader, imp_mp4_seek, recVars
<1>2. CrashInv'
  BY <1>1, OtherOn
<1>3. \/ tab' = tab
      \/ tab' = NoTrack
      \/ sync_context
      \/ create_mp4_readctx
  BY DEF Player, imp_read_mp4, sync_rw_context, ReadEnd, ReadFrame, ReadShort, reopen_mp4,
         imp_close_mp4_reader, imp_mp4_seek
<1>8. samples' = samples
  BY <1>1
<1>4. CASE tab' = tab
  BY <1>2, <1>8, <1>4, Zenon DEF PlayInv
<1>5. CASE tab' = NoTrack
  <2>1. ASSUME NEW t \in Tracks PROVE Names(tab'[t], samples'[t])
    <3>1. tab'[t] = <<>>
      BY <1>5 DEF NoTrack
    <3> QED
      BY <1>8, <3>1, TablesName
  <2> QED
    BY <1>2, <2>1, Zenon DEF PlayInv
<1>6. CASE sync_context
  BY <1>2, <1>8, <1>6, SyncNames, Zenon
<1>7. CASE create_mp4_readctx
  BY <1>2, <1>8, <1>7, OpenNames, Zenon
<1> QED
  BY <1>2, <1>3, <1>4, <1>5, <1>6, <1>7

\* Every step keeps the file and the player's table in order.
LEMMA CrashStep ==
  ASSUME Inv, Inv', CrashInv, PlayInv, [Next]_vars
  PROVE  CrashInv' /\ PlayInv'
<1>1. CASE Record
  <2>1. Storage /\ tab' = tab
    BY <1>1 DEF Record
  <2>2. /\ CrashInv'
        /\ \A v \in Tracks : \A es : Names(es, samples[v]) => Names(es, samples'[v])
    BY <2>1, StorageKeeps
  <2>3. PlayInv'
    BY <2>1, <2>2 DEF PlayInv
  <2> QED
    BY <2>2, <2>3
<1>2. CASE CloseAndSync
  <2>1. imp_close_mp4 /\ (sync_context \/ tab' = tab)
    BY <1>2 DEF CloseAndSync
  <2>2. samples' = samples
    BY <2>1 DEF imp_close_mp4
  <2>3. CrashInv'
    BY <2>1, CloseKeeps
  <2>4. PlayInv'
    BY <2>1, <2>2, SyncNames DEF PlayInv
  <2> QED
    BY <2>3, <2>4
<1>3. CASE Player
  BY <1>3, PlayerKeeps
<1>4. CASE UNCHANGED vars
  <2>1. UNCHANGED <<f, order, samples, todo, phase, moov_mutex, indexed>> /\ tab' = tab
    BY <1>4 DEF vars, recVars, playVars
  <2>2. PlayInv'
    BY <2>1 DEF PlayInv
  <2> QED
    BY <2>1, <2>2, OtherOn
<1> QED
  BY <1>1, <1>2, <1>3, <1>4 DEF Next

\* No moment of a recording, rewritings of the index and the player's doings
\* included, leaves a disk whose index names data that is not there.
THEOREM CrashInvHolds == Spec => [](CrashInv /\ PlayInv)
<1>1. Inv /\ Inv' /\ CrashInv /\ PlayInv /\ [Next]_vars => CrashInv' /\ PlayInv'
  BY CrashStep
<1>2. Init => CrashInv /\ PlayInv
  BY CrashInit
<1> QED
  BY InvHolds, <1>1, <1>2, PTL DEF Spec

-----------------------------------------------------------------------------
(* What the runs check.                                                    *)

\* What a crash leaves names only data that is there.
THEOREM CrashNamesData == Spec => []IndexNamesData
<1>1. Inv /\ CrashInv => IndexNamesData
  <2> SUFFICES ASSUME Inv, CrashInv PROVE IndexNamesData
    OBVIOUS
  <2> DEFINE tb == mov_reader_root(f.disk).tab
  <2>1. f \in File /\ samples \in [Tracks -> Seq(Sample)]
    BY InvRecs
  <2>2. f.disk \in Futures(f)
    BY <2>1, FuturesHave
  <2>3. Sound(f.disk, samples)
    BY <2>2, KeptParts DEF CrashInv
  <2>4. ASSUME NEW t \in Tracks, NEW i \in DOMAIN tb[t]
        PROVE  /\ i \in DOMAIN samples[t]
               /\ tb[t][i] = EntryOf(samples[t][i])
               /\ Holds(f.disk, tb[t][i].off, DataOf(samples[t][i]))
    <3>1. /\ Names(tb[t], samples[t])
          /\ \A k \in 1..Len(tb[t]) : Holds(f.disk, samples[t][k].off, DataOf(samples[t][k]))
      BY <2>3, Zenon DEF Sound
    <3> HIDE DEF tb
    <3>2. tb[t] \in Seq(Entry) /\ Len(tb[t]) <= Len(samples[t])
          /\ \A k \in 1..Len(tb[t]) : tb[t][k] = EntryOf(samples[t][k])
      BY <3>1 DEF Names
    <3>3. /\ DOMAIN tb[t] = 1..Len(tb[t]) /\ Len(tb[t]) \in Nat
          /\ DOMAIN samples[t] = 1..Len(samples[t]) /\ Len(samples[t]) \in Nat
      BY <2>1, <3>2, LenProperties, SamplesOf
    <3>4. i \in 1..Len(tb[t]) /\ i \in DOMAIN samples[t]
      <4> DEFINE a == Len(tb[t])
                 b == Len(samples[t])
      <4>1. i \in 1..a /\ a <= b /\ a \in Nat /\ b \in Nat
        BY <3>2, <3>3
      <4> HIDE DEF a, b
      <4>2. i \in 1..b
        BY <4>1
      <4> QED
        BY <3>3, <4>1, <4>2 DEF a, b
    <3>5. tb[t][i] = EntryOf(samples[t][i]) /\ tb[t][i].off = samples[t][i].off
      BY <3>2, <3>4 DEF EntryOf
    <3> QED
      BY <3>1, <3>4, <3>5
  <2> QED
    BY <2>4, Zenon DEF IndexNamesData
<1> QED
  BY InvHolds, CrashInvHolds, <1>1, PTL

\* The index the disk has while nothing is rewritten is the last one finished.
LEMMA DurableReads ==
  ASSUME Inv, CrashInv, phase \in {"record", "closed"}
  PROVE  mov_reader_root(f.disk) = [tab |-> indexed, whole |-> TRUE]
<1>1. /\ Recs(f, order, samples, indexed) /\ f \in File /\ order \in Orders
      /\ indexed \in [Tracks -> Seq(Entry)]
  BY InvRecs
<1>2. Kept(f, order, samples, indexed, DataEnd) /\ Durable(f, order, indexed)
  BY DEF CrashInv
<1> DEFINE r1 == Room(order, indexed, 1)
           r2 == Room(order, indexed, 2)
<1>3. /\ Shape(order, indexed, r1, r2) /\ Full(order, indexed) /\ (1 + r1) + r2 < MdatAt
  BY <1>1, <1>2, TablesFit
<1> HIDE DEF r1, r2
<1>4. f.disk \in Futures(f) /\ f.disk \in Contents
  BY <1>1, FuturesHave
<1>5. Indexes(f.disk, order, indexed)
  BY <1>2, <1>4 DEF Durable
<1> QED
  BY <1>1, <1>3, <1>4, <1>5, IndexReads

\* What a crash leaves while nothing is rewritten is a whole index, the last
\* one finished; and after imp_close_mp4 one of all samples.
THEOREM LastIndexSurvives == Spec => []IndexIsDurable
<1>1. Inv /\ CrashInv => IndexIsDurable
  BY DurableReads DEF IndexIsDurable, CrashInv
<1> QED
  BY InvHolds, CrashInvHolds, <1>1, PTL

\* A player that has MOOV_MUTEX reads the last index finished, and all of it.
THEOREM PlayerOpensWhole == Spec => []OpenedWhole
<1>1. Init => OpenedWhole
  BY DEF Init, PlayInit, OpenedWhole, Unread
<1>2. Inv /\ CrashInv /\ OpenedWhole /\ [Next]_vars => OpenedWhole'
  <2> SUFFICES ASSUME Inv, CrashInv, OpenedWhole, [Next]_vars PROVE OpenedWhole'
    OBVIOUS
  <2>1. opened' = Unread \/ opened' = opened \/ create_mp4_readctx
    BY DEF Next, Record, CloseAndSync, Player, imp_read_mp4, sync_rw_context, ReadEnd, ReadFrame,
           ReadShort, reopen_mp4, imp_close_mp4_reader, imp_mp4_seek, NothingSeen, vars, playVars
  <2>2. CASE opened' = Unread
    BY <2>2 DEF OpenedWhole, Unread
  <2>3. CASE opened' = opened
    BY <2>3 DEF OpenedWhole
  <2>4. CASE create_mp4_readctx
    <3>1. /\ ~moov_mutex
          /\ opened' = [tab |-> mov_reader_root(f.disk).tab, whole |-> mov_reader_root(f.disk).whole,
                        locked |-> phase # "close", was |-> indexed]
      BY <2>4 DEF create_mp4_readctx
    <3> SUFFICES ASSUME phase # "close" PROVE opened'.whole /\ opened'.tab = opened'.was
      BY <3>1 DEF OpenedWhole
    <3>2. phase \in {"record", "closed"}
      BY <3>1, InvRecs DEF CrashInv
    <3>3. mov_reader_root(f.disk) = [tab |-> indexed, whole |-> TRUE]
      BY <3>2, DurableReads
    <3>4. mov_reader_root(f.disk).tab = indexed /\ mov_reader_root(f.disk).whole = TRUE
      BY <3>3
    <3> QED
      BY <3>1, <3>4
  <2> QED
    BY <2>1, <2>2, <2>3, <2>4
<1> QED
  BY InvHolds, CrashInvHolds, <1>1, <1>2, PTL DEF Spec

-----------------------------------------------------------------------------
(* The player.                                                             *)

\* The time of an entry.
LEMMA TimeType ==
  ASSUME NEW t \in Tracks, NEW i, samples \in [Tracks -> Seq(Sample)]
  PROVE  TimeOf(t, i) \in 0..MaxSamples /\ TimeOf(t, i) \in Nat
<1>1. MaxSamples \in Nat
  BY IndexAssumption
<1>2. 0 \in 0..MaxSamples /\ \A k \in 1..MaxSamples : k \in 0..MaxSamples
  BY <1>1
<1>3. TimeOf(t, i) \in 0..MaxSamples
  <2>1. CASE i \in DOMAIN samples[t]
    <3>1. samples[t][i] \in Sample
      BY <2>1, SamplesOf, ElementOfSeq
    <3>2. samples[t][i].id \in 1..MaxSamples
      BY <3>1 DEF Sample
    <3>3. TimeOf(t, i) = samples[t][i].id
      BY <2>1 DEF TimeOf
    <3> QED
      BY <1>2, <3>2, <3>3
  <2>2. CASE i \notin DOMAIN samples[t]
    BY <1>2, <2>2 DEF TimeOf
  <2> QED
    BY <2>1, <2>2
<1> QED
  BY <1>3

\* A set of natural numbers that is not empty has a least one.
LEMMA LeastOf ==
  ASSUME NEW T \in SUBSET Nat, T # {}
  PROVE  \E a \in T : \A b \in T : ~(b < a)
<1>1. PICK a \in T : \A b \in T : ~(<<b, a>> \in OpToRel(<, Nat))
  BY NatLessThanWellFounded, WFMin
<1> QED
  BY <1>1 DEF OpToRel

\* Of the entries of a set that is not empty one is the nearest.
LEMMA NearestIn ==
  ASSUME NEW t \in Tracks, NEW I, I # {}, NEW now \in Nat, samples \in [Tracks -> Seq(Sample)]
  PROVE  Nearest(t, I, now) \in I
<1> DEFINE Away(j) == Far(TimeOf(t, j), now)
           T == {Away(j) : j \in I}
<1>1. ASSUME NEW j PROVE Away(j) \in Nat
  <2>1. TimeOf(t, j) \in Nat
    BY TimeType
  <2> DEFINE x == TimeOf(t, j)
  <2>2. Away(j) = IF x > now THEN x - now ELSE now - x
    BY DEF Far
  <2> HIDE DEF x, Away
  <2> QED
    BY <2>1, <2>2 DEF x
<1> HIDE DEF Away
<1>2. T \in SUBSET Nat /\ T # {}
  BY <1>1
<1>3. PICK a \in T : \A b \in T : ~(b < a)
  <2> HIDE DEF T
  <2> QED
    BY <1>2, LeastOf
<1>4. PICK i \in I : a = Away(i)
  BY <1>3
<1>5. \A j \in I : Away(i) <= Away(j)
  <2> SUFFICES ASSUME NEW j \in I PROVE Away(i) <= Away(j)
    OBVIOUS
  <2>1. Away(j) \in T /\ Away(j) \in Nat /\ Away(i) \in Nat
    BY <1>1
  <2>2. ~(Away(j) < Away(i))
    BY <1>3, <1>4, <2>1
  <2> QED
    BY <2>1, <2>2
<1>6. Nearest(t, I, now) = CHOOSE k \in I : \A j \in I : Away(k) <= Away(j)
  BY DEF Nearest, Away
<1> QED
  BY <1>5, <1>6

\* A seek goes to an entry of the table.
LEMMA SeekType ==
  ASSUME NEW tb \in [Tracks -> Seq(Entry)], NEW nx \in [Tracks -> Nat \ {0}], NEW now \in Nat,
         samples \in [Tracks -> Seq(Sample)]
  PROVE  mov_reader_seek(tb, nx, now) \in [Tracks -> Nat \ {0}]
<1>1. ASSUME NEW t \in Tracks
      PROVE  /\ DOMAIN tb[t] \subseteq Nat \ {0} /\ (tb[t] # <<>> => DOMAIN tb[t] # {})
             /\ KeyEntries(tb[t]) \subseteq Nat \ {0}
  <2>1. tb[t] \in Seq(Entry)
    OBVIOUS
  <2>2. DOMAIN tb[t] = 1..Len(tb[t]) /\ Len(tb[t]) \in Nat /\ (tb[t] # <<>> => Len(tb[t]) # 0)
    BY <2>1, LenProperties, EmptySeq
  <2> DEFINE n == Len(tb[t])
  <2> HIDE DEF n
  <2>3. /\ n \in Nat => 1..n \subseteq Nat \ {0}
        /\ n \in Nat /\ n # 0 => 1..n # {}
    <3>1. n \in Nat /\ n # 0 => 1 \in 1..n
      OBVIOUS
    <3> QED
      BY <3>1
  <2>4. KeyEntries(tb[t]) \subseteq DOMAIN tb[t]
    BY DEF KeyEntries
  <2> QED
    BY <2>2, <2>3, <2>4 DEF n
<1> DEFINE keys == KeyEntries(tb[Video])
           v == IF keys # {} THEN Nearest(Video, keys, now)
                ELSE IF tb[Video] # <<>> THEN Nearest(Video, DOMAIN tb[Video], now)
                ELSE nx[Video]
           when == IF keys # {} THEN TimeOf(Video, v) ELSE now
<1>2. Video \in Tracks
  BY DEF Tracks
<1>3. keys # {} => Nearest(Video, keys, now) \in keys
  BY <1>2, NearestIn
<1>4. tb[Video] # <<>> => Nearest(Video, DOMAIN tb[Video], now) \in DOMAIN tb[Video]
  BY <1>1, <1>2, NearestIn
<1>5. v \in Nat \ {0}
  BY <1>1, <1>2, <1>3, <1>4
<1>6. when \in Nat
  <2>1. TimeOf(Video, v) \in Nat
    BY <1>2, TimeType
  <2> QED
    BY <2>1
<1>7. mov_reader_seek(tb, nx, now) =
        [t \in Tracks |-> IF t = Video THEN v
                          ELSE IF tb[t] # <<>> THEN Nearest(t, DOMAIN tb[t], when) ELSE nx[t]]
  BY DEF mov_reader_seek
<1> HIDE DEF v, when
<1>8. ASSUME NEW t \in Tracks, tb[t] # <<>>
      PROVE  Nearest(t, DOMAIN tb[t], when) \in Nat \ {0}
  <2>1. DOMAIN tb[t] # {} /\ DOMAIN tb[t] \subseteq Nat \ {0}
    BY <1>1, <1>8
  <2>2. Nearest(t, DOMAIN tb[t], when) \in DOMAIN tb[t]
    BY <1>6, <2>1, NearestIn
  <2> QED
    BY <2>1, <2>2
<1> QED
  BY <1>5, <1>7, <1>8

\* A player's table is a function on the tracks.
LEMMA TabType ==
  ASSUME NEW tb, tb = [t \in Tracks |-> tb[t]], NEW ss, \A t \in Tracks : Names(tb[t], ss[t])
  PROVE  tb \in [Tracks -> Seq(Entry)]
<1>1. \A t \in Tracks : tb[t] \in Seq(Entry)
  BY Zenon DEF Names
<1> QED
  BY <1>1

\* Taking the recorder's table over.
LEMMA SyncTypes ==
  ASSUME Inv, PlayTypeOK, PlayInv', samples' = samples, sync_context
  PROVE  /\ tab' \in [Tracks -> Seq(Entry)] /\ synced' \in {NoCopy} \cup SUBSET Tracks
         /\ next' \in [Tracks -> Nat \ {0}]
<1>1. PICK copied :
        /\ copied = IF synced = NoCopy THEN {order[i] : i \in DOMAIN order} ELSE synced
        /\ synced' = copied
        /\ tab' = [t \in Tracks |-> IF t \in copied THEN Entries(samples[t]) ELSE <<>>]
        /\ next' \in {next} \/ next' \in [Tracks -> 1..(MaxSamples + 1)]
  BY Zenon DEF sync_context
<1>2. tab' = [t \in Tracks |-> tab'[t]]
  BY <1>1
<1>3. \A t \in Tracks : Names(tab'[t], samples'[t])
  BY DEF PlayInv
<1>4. tab' \in [Tracks -> Seq(Entry)]
  BY <1>2, <1>3, TabType
<1>5. \A k \in 1..(MaxSamples + 1) : k \in Nat \ {0}
  BY IndexAssumption
<1>6. next' \in [Tracks -> Nat \ {0}]
  BY <1>1, <1>5 DEF PlayTypeOK
<1>7. {order[i] : i \in DOMAIN order} \subseteq Tracks
  <2>1. order \in Orders
    BY InvRecs
  <2> QED
    BY <2>1, EmptySeq DEF Orders, Tracks
<1>8. synced' \in {NoCopy} \cup SUBSET Tracks
  BY <1>1, <1>7 DEF PlayTypeOK
<1> QED
  BY <1>4, <1>6, <1>8

\* Opening the file.
LEMMA OpenTypes ==
  ASSUME PlayInv', create_mp4_readctx
  PROVE  tab' \in [Tracks -> Seq(Entry)] /\ synced' = NoCopy
<1>1. tab' = mov_reader_root(f.disk).tab /\ synced' = NoCopy
  BY DEF create_mp4_readctx
<1>2. tab' = [t \in Tracks |-> tab'[t]]
  BY <1>1, RootFunction
<1>3. \A t \in Tracks : Names(tab'[t], samples'[t])
  BY DEF PlayInv
<1> QED
  BY <1>1, <1>2, <1>3, TabType

\* The player's variables.
LEMMA PlayTypes ==
  ASSUME Inv, PlayTypeOK, PlayInv', Player
  PROVE  PlayTypeOK'
<1>1. /\ samples \in [Tracks -> Seq(Sample)] /\ MaxSamples \in Nat
      /\ at \in {"none", "idle", "read", "reopen", "ended"}
      /\ tab \in [Tracks -> Seq(Entry)] /\ next \in [Tracks -> Nat \ {0}]
      /\ synced \in {NoCopy} \cup SUBSET Tracks /\ last \in 0..MaxSamples
  BY InvRecs, IndexAssumption DEF PlayTypeOK
<1>2. samples' = samples
  BY DEF Player, imp_read_mp4, sync_rw_context, ReadEnd, ReadFrame, ReadShort, reopen_mp4,
         imp_close_mp4_reader, imp_mp4_seek, recVars
<1>3. [t \in Tracks |-> 1] \in [Tracks -> Nat \ {0}] /\ 0 \in 0..MaxSamples
      /\ NoTrack \in [Tracks -> Seq(Entry)]
  BY <1>1, EmptySeq DEF NoTrack
<1>4. CASE imp_read_mp4
  <2>1. /\ create_mp4_readctx /\ at' = "idle" /\ last' = 0 /\ next' = [t \in Tracks |-> 1]
    BY <1>4 DEF imp_read_mp4
  <2> QED
    BY <1>3, <2>1, OpenTypes DEF PlayTypeOK
<1>5. CASE sync_rw_context
  <2>1. at' = "read" /\ last' = last
    BY <1>5 DEF sync_rw_context
  <2>2. sync_context \/ UNCHANGED <<tab, synced, next>>
    BY <1>5 DEF sync_rw_context
  <2>3. CASE sync_context
    BY <1>1, <1>2, <2>1, <2>3, SyncTypes DEF PlayTypeOK
  <2>4. CASE UNCHANGED <<tab, synced, next>>
    BY <1>1, <2>1, <2>4 DEF PlayTypeOK
  <2> QED
    BY <2>2, <2>3, <2>4
<1>6. CASE ReadEnd
  BY <1>1, <1>6 DEF ReadEnd, PlayTypeOK
<1>7. CASE ReadFrame
  <2>1. PICK t \in mov_reader_next :
          /\ last' = TimeOf(t, next[t]) /\ next' = [next EXCEPT ![t] = @ + 1]
    BY <1>7, Zenon DEF ReadFrame
  <2>2. at' = "idle" /\ tab' = tab /\ synced' = synced
    BY <1>7 DEF ReadFrame
  <2>3. t \in Tracks
    BY DEF mov_reader_next, Candidates
  <2>4. next[t] \in Nat \ {0}
    BY <1>1, <2>3
  <2>5. next[t] + 1 \in Nat \ {0}
    <3> DEFINE n == next[t]
    <3> HIDE DEF n
    <3> QED
      BY <2>4 DEF n
  <2>6. next' \in [Tracks -> Nat \ {0}]
    BY <1>1, <2>1, <2>5
  <2>7. last' \in 0..MaxSamples
    BY <1>1, <2>1, <2>3, TimeType
  <2> QED
    BY <1>1, <2>2, <2>6, <2>7 DEF PlayTypeOK
<1>8. CASE ReadShort
  BY <1>1, <1>8 DEF ReadShort, PlayTypeOK
<1>9. CASE reopen_mp4
  <2>1. /\ create_mp4_readctx /\ at' = "idle" /\ last' = last
        /\ next' = mov_reader_seek(tab', [t \in Tracks |-> 1], last)
    BY <1>9 DEF reopen_mp4
  <2>2. tab' \in [Tracks -> Seq(Entry)] /\ synced' = NoCopy
    BY <2>1, OpenTypes
  <2>3. last \in Nat
    BY <1>1
  <2>4. next' \in [Tracks -> Nat \ {0}]
    BY <1>1, <1>3, <2>1, <2>2, <2>3, SeekType
  <2> QED
    BY <1>1, <2>1, <2>2, <2>4 DEF PlayTypeOK
<1>10. CASE imp_close_mp4_reader
  BY <1>1, <1>3, <1>10 DEF imp_close_mp4_reader, PlayTypeOK
<1>11. ASSUME NEW now \in 1..MaxSamples, imp_mp4_seek(now) PROVE PlayTypeOK'
  <2>1. /\ next' = mov_reader_seek(tab, next, now) /\ at' = at /\ tab' = tab /\ synced' = synced
        /\ last' = last
    BY <1>11 DEF imp_mp4_seek
  <2>2. now \in Nat
    BY <1>1
  <2>3. next' \in [Tracks -> Nat \ {0}]
    BY <1>1, <2>1, <2>2, SeekType
  <2> QED
    BY <1>1, <2>1, <2>3 DEF PlayTypeOK
<1> QED
  BY <1>4, <1>5, <1>6, <1>7, <1>8, <1>9, <1>10, <1>11 DEF Player

\* Recorder and player keep to their types, whatever the sizes.
THEOREM PlayerTypes == Spec => []TypeOK
<1>1. Init => PlayTypeOK
  BY IndexAssumption, EmptySeq DEF Init, PlayInit, PlayTypeOK, NoTrack
<1>2. Inv /\ Inv' /\ PlayInv' /\ PlayTypeOK /\ [Next]_vars => PlayTypeOK'
  <2> SUFFICES ASSUME Inv, Inv', PlayInv', PlayTypeOK, [Next]_vars PROVE PlayTypeOK'
    OBVIOUS
  <2>1. CASE Record
    BY <2>1 DEF Record, PlayTypeOK
  <2>2. CASE CloseAndSync
    <3>1. at' = at /\ last' = last /\ samples' = samples
          /\ (sync_context \/ UNCHANGED <<tab, next, synced>>)
      BY <2>2 DEF CloseAndSync, imp_close_mp4
    <3> QED
      BY <3>1, SyncTypes DEF PlayTypeOK
  <2>3. CASE Player
    BY <2>3, PlayTypes
  <2>4. CASE UNCHANGED vars
    BY <2>4 DEF vars, playVars, PlayTypeOK
  <2> QED
    BY <2>1, <2>2, <2>3, <2>4 DEF Next
<1>3. Spec => []PlayTypeOK
  BY InvHolds, CrashInvHolds, <1>1, <1>2, PTL DEF Spec
<1> QED
  BY RecorderTypes, <1>3, PTL DEF TypeOK

\* A frame that is read whole is the frame that was recorded.
LEMMA FrameIntact ==
  ASSUME Inv, CrashInv, PlayInv, PlayTypeOK, NEW t \in Tracks, next[t] <= Len(tab[t]),
         Readable(tab[t][next[t]])
  PROVE  /\ next[t] \in DOMAIN samples[t]
         /\ CellsOf(tab[t][next[t]]) = DataOf(samples[t][next[t]])
<1> DEFINE i == next[t]
           e == tab[t][i]
           s == samples[t][i]
<1>1. samples \in [Tracks -> Seq(Sample)] /\ f \in File
  BY InvRecs
<1>2. i \in Nat \ {0} /\ tab[t] \in Seq(Entry)
  BY DEF PlayTypeOK
<1>3. /\ Len(tab[t]) <= Len(samples[t])
      /\ \A k \in 1..Len(tab[t]) : tab[t][k] = EntryOf(samples[t][k])
  BY DEF PlayInv, Names
<1>4. /\ Len(tab[t]) \in Nat /\ Len(samples[t]) \in Nat /\ DOMAIN samples[t] = 1..Len(samples[t])
  BY <1>1, <1>2, LenProperties, SamplesOf
<1>5. i \in 1..Len(tab[t]) /\ i \in DOMAIN samples[t]
  <2> DEFINE a == Len(tab[t])
             b == Len(samples[t])
  <2>1. i \in Nat \ {0} /\ i <= a /\ a <= b /\ a \in Nat /\ b \in Nat
    BY <1>2, <1>3, <1>4
  <2> HIDE DEF a, b, i
  <2>2. i \in 1..a /\ i \in 1..b
    BY <2>1
  <2> QED
    BY <1>4, <2>2 DEF a, b
<1>6. e.off = s.off /\ e.len = s.len
  <2>1. e = EntryOf(s)
    <3> HIDE DEF i
    <3> QED
      BY <1>3, <1>5
  <2> HIDE DEF e, s
  <2> QED
    BY <2>1 DEF EntryOf
<1>7. f.disk \in Futures(f)
  BY <1>1, FuturesHave
<1>8. DataOrHole(f.disk, samples, DataEnd)
  BY <1>7, KeptParts DEF CrashInv
<1>9. ASSUME NEW j \in 1..s.len PROVE f.disk[s.off + j - 1] = Data(s.id, j)
  <2>1. s.off + j - 1 \in Addr /\ f.disk[s.off + j - 1] # Hole
    BY <1>6 DEF Readable
  <2>2. f.disk[s.off + j - 1] \in {Hole, Data(s.id, j)}
    BY <1>5, <1>8, <2>1, Zenon DEF DataOrHole
  <2> QED
    BY <2>1, <2>2
<1>10. CellsOf(e) = [j \in 1..s.len |-> f.disk[s.off + j - 1]]
  BY <1>6 DEF CellsOf
<1>11. DataOf(s) = [j \in 1..s.len |-> Data(s.id, j)]
  BY DEF DataOf, FrameData
<1> HIDE DEF s, e
<1> QED
  BY <1>5, <1>9, <1>10, <1>11 DEF s, e

\* What the player delivers is what was recorded.
THEOREM PlayerDelivers == Spec => []DeliveredIntact
<1>1. Init => DeliveredIntact
  BY DEF Init, PlayInit, DeliveredIntact
<1>2. Inv /\ CrashInv /\ PlayInv /\ PlayTypeOK /\ DeliveredIntact /\ [Next]_vars => DeliveredIntact'
  <2> SUFFICES ASSUME Inv, CrashInv, PlayInv, PlayTypeOK, DeliveredIntact, [Next]_vars
               PROVE  DeliveredIntact'
    OBVIOUS
  <2>1. got' = Nothing \/ (got' = got /\ samples' = samples) \/ ReadFrame
    BY DEF Next, Record, CloseAndSync, Player, imp_read_mp4, sync_rw_context, ReadEnd, ReadFrame,
           ReadShort, reopen_mp4, imp_close_mp4_reader, imp_mp4_seek, NothingSeen, vars, playVars,
           recVars
  <2>2. CASE got' = Nothing
    BY <2>2 DEF DeliveredIntact
  <2>3. CASE got' = got /\ samples' = samples
    BY <2>3 DEF DeliveredIntact
  <2>4. CASE ReadFrame
    <3>1. PICK t \in mov_reader_next :
            /\ Readable(tab[t][next[t]])
            /\ got' = [t |-> t, i |-> next[t], cells |-> CellsOf(tab[t][next[t]])]
      BY <2>4, Zenon DEF ReadFrame
    <3>2. t \in Tracks /\ next[t] <= Len(tab[t])
      BY DEF mov_reader_next, Candidates
    <3>3. samples' = samples
      BY <2>4 DEF ReadFrame, recVars
    <3>4. /\ next[t] \in DOMAIN samples[t]
          /\ CellsOf(tab[t][next[t]]) = DataOf(samples[t][next[t]])
      BY <3>1, <3>2, FrameIntact
    <3>5. got'.t = t /\ got'.i = next[t] /\ got'.cells = CellsOf(tab[t][next[t]])
      BY <3>1
    <3> QED
      BY <3>3, <3>4, <3>5 DEF DeliveredIntact
  <2> QED
    BY <2>1, <2>2, <2>3, <2>4
<1>3. Spec => []PlayTypeOK
  BY PlayerTypes, PTL DEF TypeOK
<1> QED
  BY InvHolds, CrashInvHolds, <1>1, <1>2, <1>3, PTL DEF Spec
================================================================================
