--------------------------- MODULE Receive_proofs ---------------------------
(***************************************************************************)
(* Receiving a packet in lsquic: the number made of the bytes on the wire  *)
(* is the one that was sent, the history of received numbers keeps what    *)
(* ACK frames and the test for duplicates rely on, and a stream's bytes    *)
(* are kept until they are read.                                           *)
(***************************************************************************)
EXTENDS PacketNumber, RecHist, StreamIn, FiniteSetTheorems, WellFoundedInduction, TLAPS

-----------------------------------------------------------------------------
(* Packet numbers.                                                         *)

\* A number is its epoch's start and the part that goes on the wire.
LEMMA Epochs ==
  ASSUME NEW p \in Nat, NEW E \in Nat, E > 0
  PROVE  \E b \in Nat : p = E * b + (p % E) /\ p % E \in 0..(E - 1)
<1>1. p % E \in 0..(E - 1)
  OBVIOUS
<1>2. p = E * (p \div E) + (p % E)
  OBVIOUS
<1>3. p \div E \in Nat
  OBVIOUS
<1> QED
  BY <1>1, <1>2, <1>3

\* Numbers less than half an epoch apart are in the same or in
\* neighbouring epochs.
LEMMA NeighbourEpochs ==
  ASSUME NEW b \in Nat, NEW m \in Nat, NEW n \in Nat, NEW r \in Nat, NEW E \in Nat,
         n < E, r < E,
         2 * (E * b + n - (E * m + r)) <= E,
         2 * (E * m + r - (E * b + n)) <= E
  PROVE  b = m \/ b = m + 1 \/ m = b + 1
<1>1. ASSUME b >= m + 2 PROVE FALSE
  <2> DEFINE k == b - m - 2
  <2>1. k \in Nat /\ b = m + 2 + k
    BY <1>1
  <2>2. E * k \in Nat
    BY <2>1
  <2>3. E * b = E * m + 2 * E + E * k
    BY <2>1
  <2> QED
    BY <2>2, <2>3
<1>2. ASSUME m >= b + 2 PROVE FALSE
  <2> DEFINE k == m - b - 2
  <2>1. k \in Nat /\ m = b + 2 + k
    BY <1>2
  <2>2. E * k \in Nat
    BY <2>1
  <2>3. E * m = E * b + 2 * E + E * k
    BY <2>1
  <2> QED
    BY <2>2, <2>3
<1> QED
  BY <1>1, <1>2

LEMMA EpochDeltaSize ==
  ASSUME NEW bits \in PacknoBits
  PROVE  EpochDelta(bits) \in Nat /\ EpochDelta(bits) >= 256
<1> SUFFICES ASSUME bits \in {0, 1, 2, 3}
             PROVE  EpochDelta(bits) \in Nat /\ EpochDelta(bits) >= 256
  BY DEF PacknoBits
<1> QED
  BY DEF EpochDelta

\* Within half an epoch of the largest number seen, the candidate
\* decode_packno takes is the number sent (lsquic_enc_sess_ietf.c 167-189).
LEMMA NearestCandidate ==
  ASSUME NEW E \in Nat, E > 0, NEW p \in Nat, NEW max \in Nat,
         2 * distance(p, max) < E
  PROVE  decode_packno(max, p % E, E) = p
<1>1. PICK b \in Nat : p = E * b + (p % E) /\ p % E \in 0..(E - 1)
  BY Epochs
<1>2. PICK m \in Nat : max = E * m + (max % E) /\ max % E \in 0..(E - 1)
  BY Epochs
<1>3. PICK n \in Nat, r \in Nat : n = p % E /\ r = max % E
  BY <1>1, <1>2
<1>4. n < E /\ r < E /\ p = E * b + n /\ max = E * m + r
  BY <1>1, <1>2, <1>3
<1>5. PICK B \in Nat, M \in Nat : B = E * b /\ M = E * m
  OBVIOUS
<1>6. B = M \/ B = M + E \/ M = B + E
  <2>1. 2 * (p - max) <= E /\ 2 * (max - p) <= E
    BY DEF distance
  <2>2. b = m \/ b = m + 1 \/ m = b + 1
    BY <2>1, <1>4, NeighbourEpochs
  <2> QED
    BY <2>2, <1>5
<1>7. p = B + n /\ max = M + r
  BY <1>4, <1>5
<1>8. (max - (max % E)) + (p % E) = M + n
  BY <1>3, <1>7
<1> DEFINE same  == M + n
           below == same - E
           above == same + E
           min   == IF distance(same, max) < distance(below, max) THEN same ELSE below
<1>9. decode_packno(max, p % E, E)
        = as_packno(IF distance(above, max) < distance(min, max) THEN above ELSE min)
  BY ONLY <1>8 DEF decode_packno
<1>10. as_packno(IF distance(above, max) < distance(min, max) THEN above ELSE min) = p
  BY ONLY <1>4, <1>6, <1>7, 2 * distance(p, max) < E, p \in Nat, max \in Nat, E \in Nat
     DEF distance, as_packno
<1> QED
  BY <1>9, <1>10

\* The same for each of the lengths a packet number can have.
THEOREM NearestIsSent ==
  ASSUME NEW bits \in PacknoBits, NEW p \in Nat, NEW max \in Nat,
         2 * distance(p, max) < EpochDelta(bits)
  PROVE  decode_packno(max, on_wire(p, bits), EpochDelta(bits)) = p
<1>1. EpochDelta(bits) \in Nat /\ EpochDelta(bits) > 0
  BY EpochDeltaSize
<1> QED
  BY <1>1, NearestCandidate DEF on_wire

\* At exactly half an epoch above the largest number seen the lower
\* candidate wins, and one below zero becomes a number near 2^64: the
\* packet is not decrypted, although the peer may have counted on the upper
\* one (lsquic_enc_sess_ietf.c 184-186).
LEMMA LowerCandidate ==
  ASSUME NEW E \in Nat, E > 0, NEW p \in Nat, NEW max \in Nat, 2 * (p - max) = E
  PROVE  decode_packno(max, p % E, E) = as_packno(p - E)
<1>1. PICK b \in Nat : p = E * b + (p % E) /\ p % E \in 0..(E - 1)
  BY Epochs
<1>2. PICK m \in Nat : max = E * m + (max % E) /\ max % E \in 0..(E - 1)
  BY Epochs
<1>3. PICK n \in Nat, r \in Nat : n = p % E /\ r = max % E
  BY <1>1, <1>2
<1>4. n < E /\ r < E /\ p = E * b + n /\ max = E * m + r
  BY <1>1, <1>2, <1>3
<1>5. PICK B \in Nat, M \in Nat : B = E * b /\ M = E * m
  OBVIOUS
<1>6. B = M \/ B = M + E \/ M = B + E
  <2>1. 2 * (p - max) <= E /\ 2 * (max - p) <= E
    OBVIOUS
  <2>2. b = m \/ b = m + 1 \/ m = b + 1
    BY <2>1, <1>4, NeighbourEpochs
  <2> QED
    BY <2>2, <1>5
<1>7. p = B + n /\ max = M + r
  BY <1>4, <1>5
<1>8. (max - (max % E)) + (p % E) = M + n
  BY <1>3, <1>7
<1> DEFINE same  == M + n
           below == same - E
           above == same + E
           min   == IF distance(same, max) < distance(below, max) THEN same ELSE below
           taken == IF distance(above, max) < distance(min, max) THEN above ELSE min
<1>9. decode_packno(max, p % E, E) = as_packno(taken)
  BY ONLY <1>8 DEF decode_packno
<1>10. taken = p - E
  BY ONLY <1>4, <1>6, <1>7, 2 * (p - max) = E, p \in Nat, max \in Nat, E \in Nat DEF distance
<1> QED
  BY <1>9, <1>10

THEOREM TieGoesDown ==
  ASSUME NEW bits \in PacknoBits, NEW p \in Nat, NEW max \in Nat,
         2 * (p - max) = EpochDelta(bits)
  PROVE  decode_packno(max, on_wire(p, bits), EpochDelta(bits)) = as_packno(p - EpochDelta(bits))
<1>1. EpochDelta(bits) \in Nat /\ EpochDelta(bits) > 0
  BY EpochDeltaSize
<1> QED
  BY <1>1, LowerCandidate DEF on_wire

\* The length the sender takes is enough (lsquic_parse_ietf_v1.c 1203-1221):
\* if the peer has seen the number before the smallest unacked one, or a
\* later one that is at most two congestion windows ahead, it reads back the
\* number that was sent.
THEOREM SentIsRead ==
  ASSUME NEW p \in Nat, NEW least_unacked \in 0..p, NEW n_in_flight \in Nat, NEW max \in Nat,
         p - least_unacked < 64 * 256 * 256 * 256, n_in_flight < 64 * 256 * 256 * 256,
         max + 1 >= least_unacked, max - p <= 2 * n_in_flight
  PROVE  LET bits == ietf_v1_calc_packno_bits(p, least_unacked, n_in_flight)
         IN  decode_packno(max, on_wire(p, bits), EpochDelta(bits)) = p
<1> DEFINE d    == spread(p, least_unacked, n_in_flight)
           bits == ietf_v1_calc_packno_bits(p, least_unacked, n_in_flight)
<1>1. /\ d \in Nat /\ d < 256 * 256 * 256 * 256
      /\ d >= 4 * n_in_flight /\ d >= 4 * (p - least_unacked)
  BY DEF spread
<1>2. bits \in PacknoBits /\ d < EpochDelta(bits)
  <2> HIDE DEF d
  <2>1. CASE d < 256
    <3>1. bits = 0
      BY <1>1, <2>1 DEF ietf_v1_calc_packno_bits, d
    <3> QED
      BY <3>1, <2>1 DEF EpochDelta, PacknoBits
  <2>2. CASE d >= 256 /\ d < 256 * 256
    <3>1. bits = 1
      BY <1>1, <2>2 DEF ietf_v1_calc_packno_bits, d
    <3> QED
      BY <3>1, <2>2 DEF EpochDelta, PacknoBits
  <2>3. CASE d >= 256 * 256 /\ d < 256 * 256 * 256
    <3>1. bits = 2
      BY <1>1, <2>3 DEF ietf_v1_calc_packno_bits, d
    <3> QED
      BY <3>1, <2>3 DEF EpochDelta, PacknoBits
  <2>4. CASE d >= 256 * 256 * 256
    <3>1. bits = 3
      BY <1>1, <2>4 DEF ietf_v1_calc_packno_bits, d
    <3> QED
      BY <3>1, <2>4, <1>1 DEF EpochDelta, PacknoBits
  <2> QED
    BY <2>1, <2>2, <2>3, <2>4, <1>1
<1>3. EpochDelta(bits) \in Nat /\ EpochDelta(bits) >= 256
  BY <1>2, EpochDeltaSize
<1>4. 2 * distance(p, max) < EpochDelta(bits)
  <2> HIDE DEF d, bits
  <2> QED
    BY <1>1, <1>2, <1>3 DEF distance
<1> QED
  <2> HIDE DEF bits
  <2>1. decode_packno(max, on_wire(p, bits), EpochDelta(bits)) = p
    BY <1>2, <1>4, NearestIsSent
  <2> QED
    BY <2>1 DEF bits

-----------------------------------------------------------------------------
(* The history of received numbers.                                        *)

\* What the theorems assume: lsquic_rechist_init makes two of a limit of one
\* (lsquic_rechist.c 34-38).
Given == Packno \in SUBSET Nat /\ MaxRanges \in Nat \ {1}

Inv == /\ TypeOK /\ RangesApart /\ HonestAck /\ Remembered
       /\ AgainForgotten /\ WithinLimit /\ LargestKept

LEMMA CoveredBy ==
  ASSUME NEW ranges \in SUBSET PacknoRange, NEW n \in Nat
  PROVE  n \in Covered(ranges) <=> \E r \in ranges : r.low <= n /\ n <= r.high
BY DEF Covered, Numbers, PacknoRange

LEMMA CoveredNat ==
  ASSUME NEW ranges \in SUBSET PacknoRange
  PROVE  Covered(ranges) \in SUBSET Nat
BY DEF Covered, Numbers, PacknoRange

\* One element in the place of another, or of more than one.
LEMMA Exchange ==
  ASSUME NEW S, IsFiniteSet(S), NEW e \in S, NEW D \in SUBSET S, e \in D, NEW x
  PROVE  /\ IsFiniteSet((S \ D) \cup {x})
         /\ Cardinality(S) \in Nat
         /\ Cardinality((S \ D) \cup {x}) \in Nat
         /\ Cardinality((S \ D) \cup {x}) <= Cardinality(S)
<1>1. S \ D \in SUBSET (S \ {e})
  OBVIOUS
<1>2. IsFiniteSet(S \ {e}) /\ Cardinality(S \ {e}) = Cardinality(S) - 1
  BY FS_RemoveElement
<1>3. IsFiniteSet(S \ D) /\ Cardinality(S \ D) <= Cardinality(S \ {e})
  BY <1>1, <1>2, FS_Subset
<1>4. /\ IsFiniteSet((S \ D) \cup {x})
      /\ Cardinality((S \ D) \cup {x}) =
           IF x \in S \ D THEN Cardinality(S \ D) ELSE Cardinality(S \ D) + 1
  BY <1>3, FS_AddElement
<1>5. Cardinality(S) \in Nat /\ Cardinality(S \ D) \in Nat
  BY <1>3, FS_CardinalityType
<1> QED
  BY <1>2, <1>3, <1>4, <1>5

\* A step that adds one number to the covered ones, and loses none.
LEMMA NumberAdded ==
  ASSUME Given, Inv, NEW n \in Nat, OK(n), UNCHANGED forgotten,
         elems' \in SUBSET PacknoRange, IsFiniteSet(elems'), Apart(elems'),
         \A k \in Nat : k \in Covered(elems') <=> k \in Covered(elems) \/ k = n,
         MaxRanges # 0 => Cardinality(elems') <= MaxRanges
  PROVE  Inv'
<1> USE DEF Inv, OK
<1>1. TypeOK'
  BY DEF TypeOK
<1>2. RangesApart'
  BY DEF RangesApart
<1>3. Covered(elems) \in SUBSET Nat /\ Covered(elems') \in SUBSET Nat
  BY CoveredNat DEF TypeOK
<1>4. HonestAck'
  BY <1>3 DEF HonestAck
<1>5. accepted' \in SUBSET Nat
  BY DEF TypeOK
<1>6. Remembered'
  BY <1>3, <1>5 DEF Remembered
<1>7. AgainForgotten'
  <2>1. n \in accepted => n \in forgotten
    BY DEF Remembered, TypeOK
  <2> QED
    BY <2>1 DEF AgainForgotten
<1>8. WithinLimit'
  BY DEF WithinLimit
<1>9. LargestKept'
  <2> SUFFICES ASSUME NEW a \in accepted', a >= cutoff
               PROVE  \E r \in elems' : a <= r.high
    BY DEF LargestKept
  <2>1. CASE a = n
    <3>1. n \in Covered(elems')
      OBVIOUS
    <3> QED
      BY <3>1, <2>1, CoveredBy
  <2>2. CASE a # n
    <3>1. PICK r \in elems : a <= r.high
      BY <2>2 DEF LargestKept
    <3>2. r.low <= r.high /\ r.low \in Nat /\ r.high \in Nat /\ a \in Nat
      BY <1>5 DEF TypeOK, RangesApart, Apart, PacknoRange
    <3>3. r.high \in Covered(elems)
      BY <3>2, CoveredBy DEF TypeOK
    <3>4. r.high \in Covered(elems')
      BY <3>2, <3>3
    <3>5. PICK s \in elems' : s.low <= r.high /\ r.high <= s.high
      BY <3>2, <3>4, CoveredBy
    <3>6. s.high \in Nat
      BY DEF PacknoRange
    <3> QED
      BY <3>1, <3>2, <3>5, <3>6
  <2> QED
    BY <2>1, <2>2
<1> QED
  BY <1>1, <1>2, <1>4, <1>6, <1>7, <1>8, <1>9

\* A range in the place of others, that covers what they did and n.
LEMMA RangeGrows ==
  ASSUME Given, Inv, NEW n \in Nat, OK(n), UNCHANGED forgotten,
         NEW D \in SUBSET elems, D # {}, NEW x \in PacknoRange, x.low <= x.high,
         elems' = (elems \ D) \cup {x},
         \A k \in Nat : x.low <= k /\ k <= x.high <=> k \in Covered(D) \/ k = n,
         \A r \in elems \ D : r.high + 1 < x.low \/ x.high + 1 < r.low
  PROVE  Inv'
<1> USE DEF Inv
<1>1. PICK e \in D : TRUE
  OBVIOUS
<1>2. /\ IsFiniteSet(elems') /\ Cardinality(elems) \in Nat
      /\ Cardinality(elems') \in Nat /\ Cardinality(elems') <= Cardinality(elems)
  BY <1>1, Exchange DEF TypeOK
<1>3. MaxRanges # 0 => Cardinality(elems') <= MaxRanges
  BY <1>2 DEF WithinLimit, Given
<1>4. elems \in SUBSET PacknoRange /\ elems' \in SUBSET PacknoRange
  BY DEF TypeOK
<1>5. Apart(elems')
  BY <1>4 DEF RangesApart, Apart, PacknoRange
<1>6. ASSUME NEW k \in Nat
      PROVE  k \in Covered(elems') <=> k \in Covered(elems) \/ k = n
  <2>1. k \in Covered(elems') <=> \E r \in elems' : r.low <= k /\ k <= r.high
    BY <1>4, CoveredBy
  <2>2. k \in Covered(elems) <=> \E r \in elems : r.low <= k /\ k <= r.high
    BY <1>4, CoveredBy
  <2>3. k \in Covered(D) <=> \E r \in D : r.low <= k /\ k <= r.high
    BY <1>4, CoveredBy
  <2> QED
    BY <2>1, <2>2, <2>3
<1> QED
  BY <1>3, <1>4, <1>5, <1>6, <1>2, NumberAdded

LEMMA ExtendDown ==
  ASSUME Given, Inv, NEW n \in Nat, extend_down(n)
  PROVE  Inv'
<1>1. PICK e \in elems :
        /\ OK(n) /\ n = e.low - 1 /\ \A f \in elems : n # f.high + 1
        /\ elems' = (elems \ {e}) \cup {[low |-> n, high |-> e.high]}
        /\ UNCHANGED forgotten
  BY DEF extend_down, grows_down, grows_up
<1>2. elems \in SUBSET PacknoRange /\ Apart(elems) /\ n \notin Covered(elems)
  BY <1>1 DEF Inv, TypeOK, RangesApart, OK
<1>3. e.low \in Nat /\ e.high \in Nat /\ e.low <= e.high
  BY <1>2 DEF PacknoRange, Apart
<1> DEFINE x == [low |-> n, high |-> e.high]
<1>4. x \in PacknoRange /\ x.low = n /\ x.high = e.high
  BY <1>3 DEF PacknoRange
<1>5. ASSUME NEW k \in Nat
      PROVE  n <= k /\ k <= e.high <=> k \in Covered({e}) \/ k = n
  BY <1>1, <1>2, <1>3, CoveredBy
<1>6. ASSUME NEW r \in elems \ {e}
      PROVE  r.high + 1 < n \/ e.high + 1 < r.low
  <2>1. r.low \in Nat /\ r.high \in Nat /\ r.low <= r.high
    BY <1>2 DEF PacknoRange, Apart
  <2>2. r.high + 1 < e.low \/ e.high + 1 < r.low
    BY <1>2 DEF Apart
  <2> QED
    BY <1>1, <1>3, <2>1, <2>2
<1> HIDE DEF x
<1> QED
  BY <1>1, <1>3, <1>4, <1>5, <1>6, RangeGrows DEF x

LEMMA ExtendUp ==
  ASSUME Given, Inv, NEW n \in Nat, extend_up(n)
  PROVE  Inv'
<1>1. PICK f \in elems :
        /\ OK(n) /\ n = f.high + 1 /\ \A e \in elems : n # e.low - 1
        /\ elems' = (elems \ {f}) \cup {[low |-> f.low, high |-> n]}
        /\ UNCHANGED forgotten
  BY DEF extend_up, grows_down, grows_up
<1>2. elems \in SUBSET PacknoRange /\ Apart(elems) /\ n \notin Covered(elems)
  BY <1>1 DEF Inv, TypeOK, RangesApart, OK
<1>3. f.low \in Nat /\ f.high \in Nat /\ f.low <= f.high
  BY <1>2 DEF PacknoRange, Apart
<1> DEFINE x == [low |-> f.low, high |-> n]
<1>4. x \in PacknoRange /\ x.low = f.low /\ x.high = n
  BY <1>3 DEF PacknoRange
<1>5. ASSUME NEW k \in Nat
      PROVE  f.low <= k /\ k <= n <=> k \in Covered({f}) \/ k = n
  BY <1>1, <1>2, <1>3, CoveredBy
<1>6. ASSUME NEW r \in elems \ {f}
      PROVE  r.high + 1 < f.low \/ n + 1 < r.low
  <2>1. r.low \in Nat /\ r.high \in Nat /\ r.low <= r.high
    BY <1>2 DEF PacknoRange, Apart
  <2>2. r.high + 1 < f.low \/ f.high + 1 < r.low
    BY <1>2 DEF Apart
  <2>3. n # r.low - 1
    BY <1>1
  <2> QED
    BY <1>1, <1>3, <2>1, <2>2, <2>3
<1> HIDE DEF x
<1> QED
  BY <1>1, <1>3, <1>4, <1>5, <1>6, RangeGrows DEF x

LEMMA CloseGap ==
  ASSUME Given, Inv, NEW n \in Nat, close_gap(n)
  PROVE  Inv'
<1>1. PICK e \in elems, f \in elems :
        /\ OK(n) /\ n = e.low - 1 /\ n = f.high + 1
        /\ elems' = (elems \ {e, f}) \cup {[low |-> f.low, high |-> e.high]}
        /\ UNCHANGED forgotten
  BY DEF close_gap, grows_down, grows_up
<1>2. elems \in SUBSET PacknoRange /\ Apart(elems) /\ n \notin Covered(elems)
  BY <1>1 DEF Inv, TypeOK, RangesApart, OK
<1>3. /\ e.low \in Nat /\ e.high \in Nat /\ e.low <= e.high
      /\ f.low \in Nat /\ f.high \in Nat /\ f.low <= f.high
  BY <1>2 DEF PacknoRange, Apart
<1> DEFINE x == [low |-> f.low, high |-> e.high]
<1>4. x \in PacknoRange /\ x.low = f.low /\ x.high = e.high /\ f.low <= e.high
  BY <1>1, <1>3 DEF PacknoRange
<1>5. ASSUME NEW k \in Nat
      PROVE  f.low <= k /\ k <= e.high <=> k \in Covered({e, f}) \/ k = n
  <2>1. k \in Covered({e, f}) <=> \E r \in {e, f} : r.low <= k /\ k <= r.high
    BY <1>2, CoveredBy
  <2> QED
    BY <2>1, <1>1, <1>3
<1>6. ASSUME NEW r \in elems \ {e, f}
      PROVE  r.high + 1 < f.low \/ e.high + 1 < r.low
  <2>1. r.low \in Nat /\ r.high \in Nat /\ r.low <= r.high
    BY <1>2 DEF PacknoRange, Apart
  <2>2. r.high + 1 < f.low \/ f.high + 1 < r.low
    BY <1>2 DEF Apart
  <2>3. r.high + 1 < e.low \/ e.high + 1 < r.low
    BY <1>2 DEF Apart
  <2> QED
    BY <1>1, <1>3, <2>1, <2>2, <2>3
<1>7. {e, f} \in SUBSET elems /\ {e, f} # {}
  OBVIOUS
<1> HIDE DEF x
<1> QED
  BY <1>1, <1>4, <1>5, <1>6, <1>7, RangeGrows DEF x

\* A single number beside no range stays apart from all of them.
LEMMA SingleApart ==
  ASSUME Inv, NEW n \in Nat, OK(n), ~Touches(n), NEW S \in SUBSET elems
  PROVE  /\ S \cup {single(n)} \in SUBSET PacknoRange
         /\ Apart(S \cup {single(n)})
         /\ \A k \in Nat : k \in Covered(S \cup {single(n)}) <=> k \in Covered(S) \/ k = n
<1> DEFINE x == single(n)
<1>1. x \in PacknoRange /\ x.low = n /\ x.high = n
  BY DEF single, PacknoRange
<1>2. elems \in SUBSET PacknoRange /\ Apart(elems) /\ n \notin Covered(elems)
  BY DEF Inv, TypeOK, RangesApart, OK
<1>3. ASSUME NEW r \in S
      PROVE  r.high + 1 < n \/ n + 1 < r.low
  <2>1. r.low \in Nat /\ r.high \in Nat /\ r.low <= r.high /\ r \in elems
    BY <1>2 DEF PacknoRange, Apart
  <2>2. ~(r.low <= n /\ n <= r.high)
    BY <1>2, <2>1, CoveredBy
  <2>3. n # r.low - 1 /\ n # r.high + 1
    BY <2>1 DEF Touches, grows_down, grows_up
  <2> QED
    BY <2>1, <2>2, <2>3
<1>4. S \cup {x} \in SUBSET PacknoRange
  BY <1>1, <1>2
<1> HIDE DEF x
<1>5. Apart(S \cup {x})
  BY <1>1, <1>2, <1>3 DEF Apart
<1>6. ASSUME NEW k \in Nat
      PROVE  k \in Covered(S \cup {x}) <=> k \in Covered(S) \/ k = n
  <2>1. k \in Covered(S \cup {x}) <=> \E r \in S \cup {x} : r.low <= k /\ k <= r.high
    BY <1>4, CoveredBy
  <2>2. k \in Covered(S) <=> \E r \in S : r.low <= k /\ k <= r.high
    BY <1>2, CoveredBy
  <2> QED
    BY <2>1, <2>2, <1>1
<1> QED
  BY <1>4, <1>5, <1>6 DEF x

LEMMA Insert ==
  ASSUME Given, Inv, NEW n \in Nat, insert(n)
  PROVE  Inv'
<1>1. /\ OK(n) /\ ~Touches(n) /\ ~full /\ UNCHANGED forgotten
      /\ elems' = elems \cup {single(n)}
  BY DEF insert
<1>2. /\ elems' \in SUBSET PacknoRange /\ Apart(elems')
      /\ \A k \in Nat : k \in Covered(elems') <=> k \in Covered(elems) \/ k = n
  BY <1>1, SingleApart
<1>3. /\ IsFiniteSet(elems') /\ Cardinality(elems) \in Nat
      /\ Cardinality(elems') = Cardinality(elems) \/ Cardinality(elems') = Cardinality(elems) + 1
  BY <1>1, FS_AddElement, FS_CardinalityType DEF Inv, TypeOK
<1>4. MaxRanges # 0 => Cardinality(elems') <= MaxRanges
  BY <1>1, <1>3 DEF full, Given
<1> QED
  BY <1>1, <1>2, <1>3, <1>4, NumberAdded

\* Making room: a second range is there, so the lowest is not the highest.
LEMMA ReplaceLast ==
  ASSUME Given, Inv, NEW n \in Nat, replace_last(n)
  PROVE  Inv'
<1>1. PICK last \in elems :
        /\ OK(n) /\ ~Touches(n) /\ full /\ is_lowest(last, elems)
        /\ elems' = (elems \ {last}) \cup {single(n)}
        /\ forgotten' = forgotten \cup Numbers(last)
  BY DEF replace_last
<1>2. /\ elems \in SUBSET PacknoRange /\ IsFiniteSet(elems) /\ Apart(elems)
      /\ n >= cutoff /\ n \notin Covered(elems) /\ cutoff \in Nat
      /\ accepted \in SUBSET Nat /\ forgotten \in SUBSET Nat /\ again \in SUBSET Nat
      /\ cutoff_set \in BOOLEAN
  BY <1>1 DEF Inv, TypeOK, RangesApart, OK
<1>3. /\ accepted' = accepted \cup {n} /\ again' = again \cup (accepted \cap {n})
      /\ cutoff' = cutoff /\ cutoff_set' = cutoff_set
  BY <1>1 DEF OK
<1> DEFINE S == elems \ {last}
<1>4. /\ elems' \in SUBSET PacknoRange /\ Apart(elems')
      /\ \A k \in Nat : k \in Covered(elems') <=> k \in Covered(S) \/ k = n
  BY <1>1, SingleApart
<1>5. /\ IsFiniteSet(elems') /\ Cardinality(elems) \in Nat
      /\ Cardinality(elems') \in Nat /\ Cardinality(elems') <= Cardinality(elems)
  BY <1>1, <1>2, Exchange
<1>6. last.low \in Nat /\ last.high \in Nat /\ last.low <= last.high
  BY <1>2 DEF PacknoRange, Apart
<1>7. \A k \in Nat : k \in Covered(elems) <=> k \in Covered(S) \/ k \in Numbers(last)
  <2> SUFFICES ASSUME NEW k \in Nat
               PROVE  k \in Covered(elems) <=> k \in Covered(S) \/ k \in Numbers(last)
    OBVIOUS
  <2>1. k \in Covered(elems) <=> \E r \in elems : r.low <= k /\ k <= r.high
    BY <1>2, CoveredBy
  <2>2. k \in Covered(S) <=> \E r \in S : r.low <= k /\ k <= r.high
    BY <1>2, CoveredBy
  <2>3. k \in Numbers(last) <=> last.low <= k /\ k <= last.high
    BY <1>6 DEF Numbers
  <2> QED
    BY <2>1, <2>2, <2>3
<1>8. PICK other \in S : last.high < other.high
  <2>1. Cardinality(elems) >= 2
    BY <1>1, <1>5 DEF full, Given
  <2>2. elems # {last}
    BY <2>1, FS_Singleton
  <2>3. PICK other \in S : TRUE
    BY <2>2
  <2>4. other.low \in Nat /\ other.high \in Nat /\ other.low <= other.high
    BY <1>2 DEF PacknoRange, Apart
  <2>5. last.low <= other.low
    BY <1>1 DEF is_lowest
  <2>6. last.high + 1 < other.low \/ other.high + 1 < last.low
    BY <1>2, <2>3 DEF Apart
  <2> QED
    BY <1>6, <2>4, <2>5, <2>6
<1>9. TypeOK'
  <2>1. Numbers(last) \in SUBSET Nat
    BY <1>6 DEF Numbers
  <2> QED
    BY <1>1, <1>2, <1>3, <1>4, <1>5, <2>1 DEF TypeOK
<1>10. RangesApart'
  BY <1>4 DEF RangesApart
<1>11. Covered(elems) \in SUBSET Nat /\ Covered(elems') \in SUBSET Nat
  BY <1>2, <1>4, CoveredNat
<1>12. HonestAck'
  <2>1. Covered(elems) \in SUBSET accepted
    BY DEF Inv, HonestAck
  <2> QED
    BY <1>3, <1>4, <1>7, <1>11, <2>1 DEF HonestAck
<1>13. \A a \in accepted : a \in Covered(elems) \/ a < cutoff \/ a \in forgotten
  BY DEF Inv, Remembered
<1>14. Remembered'
  BY <1>1, <1>2, <1>3, <1>4, <1>7, <1>13 DEF Remembered
<1>15. AgainForgotten'
  <2>1. n \in accepted => n \in forgotten
    BY <1>2, <1>13
  <2>2. again \in SUBSET forgotten
    BY DEF Inv, AgainForgotten
  <2> QED
    BY <1>1, <1>3, <2>1, <2>2 DEF AgainForgotten
<1>16. WithinLimit'
  BY <1>5 DEF Inv, WithinLimit, Given
<1>17. LargestKept'
  <2> SUFFICES ASSUME NEW a \in accepted', a >= cutoff
               PROVE  \E r \in elems' : a <= r.high
    BY <1>3 DEF LargestKept
  <2>1. CASE a = n
    <3>1. single(n) \in elems' /\ n <= single(n).high
      BY <1>1 DEF single
    <3> QED
      BY <2>1, <3>1
  <2>2. CASE a # n
    <3>1. PICK r \in elems : a <= r.high
      BY <1>3, <2>2 DEF Inv, LargestKept
    <3>2. CASE r = last
      <4>1. other.high \in Nat /\ a \in Nat
        BY <1>2, <1>3, <2>2 DEF PacknoRange
      <4> QED
        BY <3>1, <3>2, <1>1, <1>6, <1>8, <4>1
    <3>3. CASE r # last
      BY <3>1, <3>3, <1>1
    <3> QED
      BY <3>2, <3>3
  <2> QED
    BY <2>1, <2>2
<1> QED
  BY <1>9, <1>10, <1>12, <1>14, <1>15, <1>16, <1>17 DEF Inv

\* What stop_wait leaves: the numbers from the cutoff on, in ranges with the
\* same upper ends.
LEMMA Trimmed ==
  ASSUME NEW S \in SUBSET PacknoRange, IsFiniteSet(S), Apart(S), NEW c \in Nat,
         NEW T, T = {trimmed(r, c) : r \in {s \in S : s.high >= c}}
  PROVE  /\ T \in SUBSET PacknoRange /\ Apart(T)
         /\ IsFiniteSet(T) /\ Cardinality(T) <= Cardinality(S)
         /\ \A k \in Nat : k \in Covered(T) <=> k \in Covered(S) /\ k >= c
<1> DEFINE U == {s \in S : s.high >= c}
<1>1. \A r \in U : /\ r.low \in Nat /\ r.high \in Nat /\ r.low <= r.high
                   /\ trimmed(r, c) \in PacknoRange
                   /\ trimmed(r, c).high = r.high
                   /\ trimmed(r, c).low <= r.high
                   /\ trimmed(r, c).low >= r.low
                   /\ trimmed(r, c).low = IF r.low < c THEN c ELSE r.low
  BY DEF trimmed, PacknoRange, Apart
<1>2. T \in SUBSET PacknoRange
  BY <1>1
<1>3. Apart(T)
  <2>1. \A r, s \in U : r = s \/ r.high + 1 < s.low \/ s.high + 1 < r.low
    BY DEF Apart
  <2>2. \A r, s \in U : \/ trimmed(r, c) = trimmed(s, c)
                        \/ trimmed(r, c).high + 1 < trimmed(s, c).low
                        \/ trimmed(s, c).high + 1 < trimmed(r, c).low
    <3> SUFFICES ASSUME NEW r \in U, NEW s \in U, r # s
                 PROVE  \/ trimmed(r, c).high + 1 < trimmed(s, c).low
                        \/ trimmed(s, c).high + 1 < trimmed(r, c).low
      OBVIOUS
    <3>1. trimmed(r, c).low \in Nat /\ trimmed(s, c).low \in Nat
      BY <1>1 DEF PacknoRange
    <3> QED
      BY <1>1, <2>1, <3>1
  <2> QED
    BY <1>1, <2>2 DEF Apart
<1>4. IsFiniteSet(T) /\ Cardinality(T) <= Cardinality(S)
  <2>1. U \in SUBSET S
    OBVIOUS
  <2>2. IsFiniteSet(U) /\ Cardinality(U) <= Cardinality(S)
    BY <2>1, FS_Subset
  <2> DEFINE f == [r \in U |-> trimmed(r, c)]
  <2>3. f \in Surjection(U, T)
    BY DEF Surjection
  <2>4. IsFiniteSet(T) /\ Cardinality(T) <= Cardinality(U)
    BY <2>2, <2>3, FS_Surjection
  <2>5. Cardinality(T) \in Nat /\ Cardinality(U) \in Nat /\ Cardinality(S) \in Nat
    BY <2>2, <2>4, FS_CardinalityType
  <2> QED
    BY <2>2, <2>4, <2>5
<1>5. ASSUME NEW k \in Nat
      PROVE  k \in Covered(T) <=> k \in Covered(S) /\ k >= c
  <2>1. k \in Covered(T) <=> \E t \in T : t.low <= k /\ k <= t.high
    BY <1>2, CoveredBy
  <2>2. k \in Covered(S) <=> \E r \in S : r.low <= k /\ k <= r.high
    BY CoveredBy
  <2>3. (\E t \in T : t.low <= k /\ k <= t.high)
          <=> \E r \in U : trimmed(r, c).low <= k /\ k <= r.high
    BY <1>1
  <2>4. ASSUME NEW r \in U, trimmed(r, c).low <= k, k <= r.high
        PROVE  r \in S /\ r.low <= k /\ k >= c
    <3>1. trimmed(r, c).low \in Nat
      BY <1>1 DEF PacknoRange
    <3> QED
      BY <1>1, <2>4, <3>1
  <2>5. ASSUME NEW r \in S, r.low <= k, k <= r.high, k >= c
        PROVE  r \in U /\ trimmed(r, c).low <= k
    <3>1. r.high \in Nat
      BY DEF PacknoRange
    <3>2. r \in U
      BY <2>5, <3>1
    <3> QED
      BY <1>1, <2>5, <3>2
  <2> QED
    BY <2>1, <2>2, <2>3, <2>4, <2>5
<1> QED
  BY <1>2, <1>3, <1>4, <1>5

LEMMA StopWait ==
  ASSUME Given, Inv, NEW c \in Nat, stop_wait(c)
  PROVE  Inv'
<1>1. /\ elems \in SUBSET PacknoRange /\ IsFiniteSet(elems) /\ Apart(elems)
      /\ cutoff \in Nat /\ accepted \in SUBSET Nat
  BY DEF Inv, TypeOK, RangesApart
<1>2. /\ c >= cutoff /\ cutoff' = c /\ cutoff_set' = TRUE
      /\ accepted' = accepted /\ again' = again /\ forgotten' = forgotten
  BY DEF stop_wait
<1>3. CASE cutoff_set /\ c = cutoff
  BY <1>1, <1>2, <1>3 DEF Inv, TypeOK, RangesApart, HonestAck, Remembered, AgainForgotten,
                          WithinLimit, LargestKept, stop_wait
<1>4. CASE ~(cutoff_set /\ c = cutoff)
  <2>1. elems' = {trimmed(r, c) : r \in {s \in elems : s.high >= c}}
    BY <1>4 DEF stop_wait
  <2>2. /\ elems' \in SUBSET PacknoRange /\ Apart(elems')
        /\ IsFiniteSet(elems') /\ Cardinality(elems') <= Cardinality(elems)
        /\ \A k \in Nat : k \in Covered(elems') <=> k \in Covered(elems) /\ k >= c
    BY <1>1, <2>1, Trimmed
  <2>3. Covered(elems') \in SUBSET Nat
    BY <2>2, CoveredNat
  <2>4. TypeOK'
    BY <1>2, <2>2 DEF Inv, TypeOK
  <2>5. RangesApart'
    BY <2>2 DEF RangesApart
  <2>6. HonestAck'
    BY <1>2, <2>2, <2>3 DEF Inv, HonestAck
  <2>7. Remembered'
    BY <1>1, <1>2, <2>2 DEF Inv, Remembered
  <2>8. AgainForgotten'
    BY <1>2 DEF Inv, AgainForgotten
  <2>9. WithinLimit'
    <3>1. Cardinality(elems) \in Nat /\ Cardinality(elems') \in Nat
      BY <1>1, <2>2, FS_CardinalityType
    <3>2. ASSUME MaxRanges # 0
          PROVE  Cardinality(elems') <= MaxRanges
      <4>1. Cardinality(elems) <= MaxRanges
        BY <3>2 DEF Inv, WithinLimit
      <4> QED
        BY <3>1, <4>1, <2>2 DEF Given
    <3> QED
      BY <3>2 DEF WithinLimit
  <2>10. LargestKept'
    <3> SUFFICES ASSUME NEW a \in accepted, a >= c
                 PROVE  \E r \in elems' : a <= r.high
      BY <1>2 DEF LargestKept
    <3>1. PICK r \in elems : a <= r.high
      BY <1>1, <1>2 DEF Inv, LargestKept
    <3>2. r.high \in Nat /\ a \in Nat
      BY <1>1 DEF PacknoRange
    <3>3. r.high >= c
      BY <3>1, <3>2
    <3>4. trimmed(r, c) \in elems' /\ trimmed(r, c).high = r.high
      BY <2>1, <3>3 DEF trimmed
    <3> QED
      BY <3>1, <3>4
  <2> QED
    BY <2>4, <2>5, <2>6, <2>7, <2>8, <2>9, <2>10 DEF Inv
<1> QED
  BY <1>3, <1>4

\* The handshake's ranges that do not fit are the lowest.
LEMMA CopyRanges ==
  ASSUME Given, Inv, NEW mini \in Handshake, copy_ranges(mini)
  PROVE  Inv'
<1>1. PICK keep \in SUBSET mini :
        /\ elems = {} /\ accepted = {} /\ ~cutoff_set
        /\ MaxRanges # 0 => Cardinality(keep) <= MaxRanges
        /\ keep # mini => MaxRanges # 0 /\ Cardinality(keep) = MaxRanges
        /\ \A k \in keep, r \in mini \ keep : r.low < k.low
        /\ elems' = keep
        /\ accepted' = Covered(mini)
        /\ forgotten' = forgotten \cup Covered(mini \ keep)
        /\ UNCHANGED <<cutoff, cutoff_set, again>>
  BY DEF copy_ranges
<1>2. mini \in SUBSET PacknoRange /\ IsFiniteSet(mini) /\ Apart(mini)
  BY DEF Handshake, Given, PacknoRange
<1>3. keep \in SUBSET PacknoRange /\ IsFiniteSet(keep) /\ Apart(keep)
  <2>1. Apart(keep)
    BY <1>2 DEF Apart
  <2> QED
    BY <1>2, <2>1, FS_Subset
<1>4. /\ Covered(mini) \in SUBSET Nat /\ Covered(keep) \in SUBSET Nat
      /\ Covered(mini \ keep) \in SUBSET Nat
  BY <1>2, <1>3, CoveredNat
<1>5. Covered(mini) = Covered(keep) \cup Covered(mini \ keep)
  BY DEF Covered
<1>6. TypeOK'
  BY <1>1, <1>3, <1>4 DEF Inv, TypeOK
<1>7. RangesApart'
  BY <1>1, <1>3 DEF RangesApart
<1>8. HonestAck' /\ Remembered'
  BY <1>1, <1>5 DEF HonestAck, Remembered
<1>9. AgainForgotten'
  BY <1>1 DEF Inv, AgainForgotten
<1>10. WithinLimit'
  BY <1>1 DEF WithinLimit
<1>11. LargestKept'
  <2> SUFFICES ASSUME NEW a \in Covered(mini)
               PROVE  \E r \in keep : a <= r.high
    BY <1>1 DEF LargestKept
  <2>1. PICK r \in mini : r.low <= a /\ a <= r.high
    BY <1>2, <1>4, CoveredBy
  <2>2. CASE r \in keep
    BY <2>1, <2>2
  <2>3. CASE r \notin keep
    <3>1. keep # {}
      BY <1>1, <2>3, FS_EmptySet DEF Given
    <3>2. PICK k \in keep : TRUE
      BY <3>1
    <3>3. r.low < k.low
      BY <1>1, <2>3, <3>2
    <3>4. /\ k.low \in Nat /\ k.high \in Nat /\ k.low <= k.high
          /\ r.low \in Nat /\ r.high \in Nat /\ r.low <= r.high /\ a \in Nat
      BY <1>2, <1>4, <3>2 DEF PacknoRange, Apart
    <3>5. r.high + 1 < k.low \/ k.high + 1 < r.low
      BY <1>2, <3>3, <3>4 DEF Apart
    <3> QED
      BY <2>1, <3>2, <3>3, <3>4, <3>5
  <2> QED
    BY <2>2, <2>3
<1> QED
  BY <1>6, <1>7, <1>8, <1>9, <1>10, <1>11 DEF Inv

\* Through every order of arrivals, of ACKs of our ACKs and of the take-over
\* of a handshake's history (lsquic_rechist.c 277-450, 543-579): ranges an
\* ACK frame can be written from and that name only what arrived; at most
\* rh_max_ranges of them, the largest number among them; and a packet can be
\* processed twice only if its number was dropped to make room.
THEOREM HistoryIsHonest ==
  ASSUME Given
  PROVE  Spec => []Inv
<1>1. Init => Inv
  <2> SUFFICES ASSUME Init
               PROVE  Inv
    OBVIOUS
  <2>1. IsFiniteSet({}) /\ Cardinality({}) = 0
    BY FS_EmptySet
  <2>2. TypeOK
    BY <2>1 DEF Init, TypeOK
  <2>3. RangesApart /\ HonestAck
    BY DEF Init, RangesApart, Apart, HonestAck, Covered
  <2>4. Remembered /\ AgainForgotten /\ LargestKept
    BY DEF Init, Remembered, AgainForgotten, LargestKept
  <2>5. WithinLimit
    BY <2>1, Given DEF Init, WithinLimit, Given
  <2> QED
    BY <2>2, <2>3, <2>4, <2>5 DEF Inv
<1>2. Inv /\ [Next]_vars => Inv'
  <2> SUFFICES ASSUME Inv, [Next]_vars
               PROVE  Inv'
    OBVIOUS
  <2>1. ASSUME NEW n \in Packno, received(n)
        PROVE  Inv'
    <3>1. n \in Nat
      BY Given DEF Given
    <3> QED
      BY <2>1, <3>1, Given, ExtendDown, CloseGap, ExtendUp, Insert, ReplaceLast DEF received
  <2>2. ASSUME UNCHANGED vars
        PROVE  Inv'
    BY <2>2 DEF vars, Inv, TypeOK, RangesApart, HonestAck, Remembered, AgainForgotten,
                WithinLimit, LargestKept
  <2>3. ASSUME NEW n \in Packno, refused(n)
        PROVE  Inv'
    BY <2>2, <2>3 DEF refused
  <2>4. ASSUME NEW c \in Packno, stop_wait(c)
        PROVE  Inv'
    <3>1. c \in Nat
      BY Given DEF Given
    <3> QED
      BY <2>4, <3>1, Given, StopWait
  <2>5. ASSUME NEW mini \in Handshake, copy_ranges(mini)
        PROVE  Inv'
    BY <2>5, Given, CopyRanges
  <2> QED
    BY <2>1, <2>2, <2>3, <2>4, <2>5 DEF Next
<1> QED
  BY <1>1, <1>2, PTL DEF Spec

-----------------------------------------------------------------------------
(* The frames of a stream.                                                 *)

\* A set of natural numbers has a least one, and a bounded one a greatest.
LEMMA LeastOne ==
  ASSUME NEW T \in SUBSET Nat, T # {}
  PROVE  \E x \in T : \A y \in T : x <= y
<1>1. PICK x \in T : \A y \in T : ~ (<<y, x>> \in OpToRel(<, Nat))
  BY NatLessThanWellFounded, WFMin
<1>2. ASSUME NEW y \in T PROVE x <= y
  <2>1. ~(y < x)
    BY <1>1 DEF OpToRel
  <2> QED
    BY <2>1
<1> QED
  BY <1>2

LEMMA GreatestOne ==
  ASSUME NEW m \in Nat, NEW T \in SUBSET (0..m), T # {}
  PROVE  \E x \in T : \A y \in T : y <= x
<1> DEFINE U == {k \in 0..m : m - k \in T}
<1>1. PICK t \in T : t \in 0..m
  OBVIOUS
<1>2. m - t \in U
  BY <1>1
<1>3. U \in SUBSET Nat /\ U # {}
  BY <1>2
<1>4. PICK k \in U : \A y \in U : k <= y
  BY <1>3, LeastOne
<1>5. m - k \in T
  BY <1>4
<1>6. ASSUME NEW y \in T PROVE y <= m - k
  <2>1. y \in 0..m /\ m - y \in 0..m /\ m - (m - y) = y
    OBVIOUS
  <2>2. m - y \in U
    BY <2>1
  <2>3. k <= m - y /\ k \in 0..m
    BY <2>2, <1>4
  <2> HIDE DEF U
  <2> QED
    BY <2>1, <2>3
<1> QED
  BY <1>5, <1>6

StreamGiven == Final \in Nat /\ DB_DATA_SIZE \in Nat \ {0}

\* The list is in order: its frames do not overlap and reach past what was
\* read; a valid byte is in a block; the end is known only if it arrived.
ListInOrder ==
  data_in = "nocopy" =>
    /\ \A f \in frames : f.end >= read_offset
    /\ \A f, g \in frames : f = g \/ f.end <= g.off \/ g.end <= f.off
StoredInBlocks == data_in = "hash" => \A b \in stored : Block(b) \in blocks
EndArrived == ncdi_fin => fin_arrived
ReadingMayGoOn == reading => ~fin_reached /\ ~failed

SInv ==
  /\ StreamTypeOK /\ NothingIsLost /\ NothingIsInvented /\ EndIsKept
  /\ ListInOrder /\ StoredInBlocks /\ EndArrived /\ ReadingMayGoOn

LEMMA FrameFacts ==
  ASSUME StreamGiven, NEW f \in Frame
  PROVE  /\ f.off \in 0..Final /\ f.end \in 0..Final /\ f.fin \in BOOLEAN
         /\ f.off <= f.end /\ (f.fin => f.end = Final)
         /\ (f.off = f.end => f.fin)
         /\ \A b : b \in Bytes(f) <=> b \in Int /\ f.off <= b /\ b < f.end
BY DEF Frame, Bytes, StreamGiven

LEMMA MultipleOrder ==
  ASSUME NEW D \in Nat, NEW q \in Nat, NEW r \in Nat, r < q
  PROVE  D * r + D <= D * q
<1>1. PICK k \in Nat : q = r + 1 + k
  BY q - r - 1 \in Nat
<1>2. D * q = D * r + D + D * k
  BY <1>1
<1>3. D * k \in Nat /\ D * r \in Nat
  BY <1>1
<1> QED
  BY <1>2, <1>3

LEMMA BlockOrder ==
  ASSUME StreamGiven, NEW a \in Nat, NEW b \in Nat, a <= b
  PROVE  Block(a) \in Nat /\ Block(b) \in Nat /\ Block(a) <= Block(b)
<1>1. DB_DATA_SIZE \in Nat /\ DB_DATA_SIZE > 0
  BY DEF StreamGiven
<1>2. PICK D \in Nat : D = DB_DATA_SIZE
  BY <1>1
<1>3. PICK q \in Nat, r \in Nat : q = a \div D /\ r = b \div D
  BY <1>1, <1>2
<1>4. D * q <= a /\ b < D * r + D
  BY <1>1, <1>2, <1>3
<1>5. PICK x \in Nat, y \in Nat : x = D * q /\ y = D * r
  OBVIOUS
<1>6. ~(r < q)
  <2>1. ASSUME r < q PROVE FALSE
    <3>1. y + D <= x
      BY <2>1, <1>5, MultipleOrder
    <3> QED
      BY <3>1, <1>4, <1>5
  <2> QED
    BY <2>1
<1> QED
  BY <1>2, <1>3, <1>6 DEF Block

\* What is left to show when a frame arrives.
LEMMA ArrivalKeeps ==
  ASSUME StreamGiven, SInv, NEW f \in Frame, Arrives(f), UNCHANGED failed,
         data_in' \in {"nocopy", "hash"}, frames' \subseteq Frame,
         ncdi_fin' \in BOOLEAN, hdi_fin' \in BOOLEAN,
         blocks' \subseteq Nat, stored' \subseteq 0..(Final - 1),
         \A b \in Held' : b \in Held \/ b \in Bytes(f),
         \A b \in Held : b >= read_offset => b \in Held',
         \A b \in Bytes(f) : b >= read_offset => b \in Held',
         EndIsKept', ListInOrder', StoredInBlocks', EndArrived'
  PROVE  SInv'
<1>1. Bytes(f) \subseteq 0..(Final - 1) /\ f.fin \in BOOLEAN
  BY FrameFacts DEF StreamGiven
<1>2. StreamTypeOK'
  BY <1>1 DEF SInv, StreamTypeOK, Arrives
<1>3. NothingIsLost'
  <2>1. ASSUME NEW b \in arrived', ~failed PROVE b < read_offset' \/ b \in Held'
    <3>1. b \in arrived \/ b \in Bytes(f)
      BY DEF Arrives
    <3>2. b \in Int /\ read_offset \in Int /\ read_offset' = read_offset
      BY <1>1, <3>1 DEF Arrives, SInv, StreamTypeOK
    <3>3. b \in arrived => b < read_offset \/ b \in Held
      BY <2>1 DEF SInv, NothingIsLost
    <3> QED
      BY <3>1, <3>2, <3>3
  <2> QED
    BY <2>1 DEF NothingIsLost
<1>4. NothingIsInvented'
  <2>1. arrived' = arrived \cup Bytes(f) /\ read_offset' = read_offset
    BY DEF Arrives
  <2>2. \A b \in Held' : b \in arrived'
    BY <2>1 DEF SInv, NothingIsInvented
  <2>3. \A b \in 0..(read_offset' - 1) : b \in arrived'
    BY <2>1 DEF SInv, NothingIsInvented
  <2> QED
    BY <2>2, <2>3 DEF NothingIsInvented
<1>5. ReadingMayGoOn'
  BY DEF SInv, ReadingMayGoOn, Arrives
<1> QED
  BY <1>2, <1>3, <1>4, <1>5 DEF SInv

LEMMA NothingNew ==
  ASSUME StreamGiven, SInv, NEW f \in Frame, FrameIsDuplicate(f)
  PROVE  SInv'
<1>1. /\ data_in = "nocopy" /\ duplicate(f) /\ Arrives(f)
      /\ UNCHANGED <<data_in, frames, ncdi_fin, blocks, stored, hdi_fin, failed>>
      /\ UNCHANGED <<read_offset, fin_reached>>
      /\ fin_arrived' = (fin_arrived \/ f.fin)
  BY DEF FrameIsDuplicate, dataIn, Arrives
<1>2. StreamTypeOK /\ EndIsKept /\ EndArrived /\ ListInOrder /\ StoredInBlocks
  BY DEF SInv
<1>3. Held' = Held
  BY <1>1 DEF Held
<1>4. ASSUME NEW b \in Bytes(f), b >= read_offset PROVE b \in Held
  <2>1. b \in Int /\ f.off <= b /\ b < f.end /\ f.end \in Int /\ read_offset \in Int
    BY FrameFacts, <1>2 DEF StreamTypeOK, StreamGiven
  <2>2. PICK prev \in frames : prev.off = f.off /\ prev.end = f.end
    BY <1>1, <1>4, <2>1 DEF duplicate
  <2>3. b \in Bytes(prev)
    BY <2>2 DEF Bytes
  <2> QED
    BY <1>1, <2>3 DEF Held
<1>5. EndIsKept'
  <2>1. ASSUME f.fin PROVE fin_arrived \/ HasFin(frames)
    <3>1. f.end = Final /\ Final \in Int /\ read_offset \in Int /\ read_offset <= Final
      BY <2>1, FrameFacts, <1>2 DEF StreamGiven, StreamTypeOK
    <3>2. \/ ncdi_fin
          \/ \E prev \in frames : prev.fin
      BY <1>1, <2>1, <3>1 DEF duplicate
    <3> QED
      BY <3>2, <1>2 DEF HasFin, EndArrived
  <2> QED
    BY <1>1, <1>2, <2>1 DEF EndIsKept, HasFin
<1>6. ListInOrder' /\ StoredInBlocks' /\ EndArrived'
  BY <1>1, <1>2 DEF ListInOrder, StoredInBlocks, EndArrived
<1> QED
  BY <1>1, <1>2, <1>3, <1>4, <1>5, <1>6, ArrivalKeeps DEF StreamTypeOK

\* The frame found no overlap: it has none with any frame of the list.
LEMMA NoOverlap ==
  ASSUME StreamGiven, SInv, data_in = "nocopy", NEW f \in Frame, NEW g \in frames,
         ~duplicate(f), ~overlap(f)
  PROVE  f.end >= read_offset /\ (f.end <= g.off \/ g.end <= f.off)
<1>1. /\ frames \subseteq Frame /\ read_offset \in 0..Final
      /\ \A x \in frames : x.end >= read_offset
      /\ \A x, y \in frames : x = y \/ x.end <= y.off \/ y.end <= x.off
  BY DEF SInv, StreamTypeOK, ListInOrder
<1>2. f.off \in 0..Final /\ f.end \in 0..Final /\ f.off <= f.end
  BY FrameFacts
<1>3. \A x \in frames : x.off \in 0..Final /\ x.end \in 0..Final /\ x.off <= x.end
  BY <1>1, FrameFacts
<1>4. Final \in Nat
  BY DEF StreamGiven
<1>5. f.end >= read_offset
  BY <1>1, <1>2, <1>4 DEF duplicate
<1>6. ASSUME g.off <= f.off PROVE g.end <= f.off
  <2> DEFINE T == {x.off : x \in {y \in frames : y.off <= f.off}}
  <2>1. T \in SUBSET (0..Final) /\ g.off \in T
    BY <1>3, <1>6
  <2>2. PICK m \in T : \A t \in T : t <= m
    BY <1>4, <2>1, GreatestOne
  <2>3. PICK prev \in frames : prev.off = m /\ prev.off <= f.off
    BY <2>2
  <2>4. \A x \in frames : x.off <= f.off => x.off <= prev.off
    BY <2>2, <2>3
  <2>5. is_prev(prev, f)
    BY <2>3, <2>4 DEF is_prev
  <2>6. ~(prev.end > f.off)
    BY <2>5 DEF overlap
  <2> HIDE DEF T
  <2>7. prev.end <= f.off /\ g.off <= prev.off
    BY <2>3, <2>4, <2>6, <1>2, <1>3, <1>4, <1>6
  <2>8. g = prev \/ g.end <= prev.off \/ prev.end <= g.off
    BY <1>1, <2>3
  <2>9. CASE g = prev
    BY <2>7, <2>9
  <2>10. CASE g.end <= prev.off
    BY <2>3, <2>10, <1>2, <1>3, <1>4
  <2>11. CASE prev.end <= g.off
    <3>1. prev.off = prev.end => prev.end = Final
      BY <1>1, <2>3, FrameFacts
    <3>2. prev.off = prev.end
      BY <2>3, <2>7, <2>11, <1>3, <1>4
    <3> QED
      BY <2>3, <3>1, <3>2, <1>2, <1>3, <1>4
  <2> QED
    BY <2>8, <2>9, <2>10, <2>11
<1>7. ASSUME g.off > f.off PROVE f.end <= g.off
  <2> DEFINE T == {x.off : x \in {y \in frames : y.off > f.off}}
  <2>1. T \in SUBSET Nat /\ g.off \in T
    BY <1>3, <1>4, <1>7
  <2>2. PICK m \in T : \A t \in T : m <= t
    BY <2>1, LeastOne
  <2>3. PICK next \in frames : next.off = m /\ next.off > f.off
    BY <2>2
  <2>4. \A x \in frames : x.off > f.off => x.off >= next.off
    BY <2>2, <2>3, <1>3, <1>4
  <2>5. is_next(next, f)
    BY <2>3, <2>4 DEF is_next
  <2>6. ~(f.end > next.off)
    BY <2>5 DEF overlap
  <2> HIDE DEF T
  <2> QED
    BY <2>3, <2>4, <2>6, <1>2, <1>3, <1>4, <1>7
<1> QED
  BY <1>2, <1>3, <1>4, <1>5, <1>6, <1>7

LEMMA ListGrows ==
  ASSUME StreamGiven, SInv, NEW f \in Frame, FrameIsListed(f)
  PROVE  SInv'
<1>1. /\ data_in = "nocopy" /\ ~duplicate(f) /\ ~overlap(f) /\ Arrives(f)
      /\ frames' = frames \cup {f} /\ ncdi_fin' = (ncdi_fin \/ f.fin)
      /\ UNCHANGED <<data_in, blocks, stored, hdi_fin, failed>>
      /\ UNCHANGED <<read_offset, fin_reached>>
      /\ fin_arrived' = (fin_arrived \/ f.fin)
  BY DEF FrameIsListed, Arrives
<1>2. StreamTypeOK /\ EndIsKept /\ EndArrived /\ ListInOrder
  BY DEF SInv
<1>3. Held = UNION {Bytes(g) : g \in frames} /\ Held' = UNION {Bytes(g) : g \in frames \cup {f}}
  BY <1>1 DEF Held
<1>4. f.fin \in BOOLEAN
  BY FrameFacts
<1>5. EndIsKept'
  BY <1>1, <1>2 DEF EndIsKept, HasFin
<1>6. ListInOrder'
  <2>1. f.end >= read_offset
    BY <1>1, FrameFacts, <1>2 DEF duplicate, StreamTypeOK, StreamGiven
  <2>2. \A g \in frames : f.end <= g.off \/ g.end <= f.off
    BY <1>1, NoOverlap
  <2> QED
    BY <1>1, <1>2, <2>1, <2>2 DEF ListInOrder
<1>7. StoredInBlocks'
  BY <1>1 DEF StoredInBlocks
<1>8. EndArrived'
  BY <1>1, <1>2, <1>4 DEF EndArrived
<1> QED
  BY <1>1, <1>2, <1>3, <1>4, <1>5, <1>6, <1>7, <1>8, ArrivalKeeps DEF StreamTypeOK

\* What goes into the hash with a frame.
LEMMA HashTakes ==
  ASSUME StreamGiven, NEW f \in Frame, read_offset \in 0..Final
  PROVE  /\ unread(f) \subseteq 0..(Final - 1) /\ unread(f) \subseteq Bytes(f)
         /\ touched(f) \subseteq Nat
         /\ \A b \in unread(f) : Block(b) \in touched(f)
<1>1. Final \in Nat /\ f.end \in Nat /\ f.end <= Final /\ f.off \in Nat
  BY FrameFacts DEF StreamGiven
<1>2. \A b \in unread(f) : b \in Bytes(f) /\ b \in Nat /\ b < f.end /\ b >= read_offset
  BY <1>1 DEF unread, Bytes
<1>3. Block(f.end) \in Nat /\ \A b \in unread(f) : Block(b) \in Nat
  BY <1>1, <1>2, BlockOrder
<1>4. touched(f) \subseteq Nat
  BY <1>3 DEF touched
<1>5. ASSUME NEW b \in unread(f) PROVE Block(b) \in touched(f)
  <2>1. ~(f.end < read_offset)
    BY <1>1, <1>2
  <2> QED
    BY <2>1 DEF touched
<1> QED
  BY <1>1, <1>2, <1>4, <1>5

LEMMA ListToHash ==
  ASSUME StreamGiven, SInv, NEW f \in Frame, data_in = "nocopy",
         Arrives(f), to_hash(frames \cup {f}), UNCHANGED failed
  PROVE  SInv'
<1>1. /\ data_in' = "hash" /\ frames' = {} /\ ncdi_fin' = FALSE
      /\ blocks' = BlocksOf(frames \cup {f}) /\ stored' = UnreadOf(frames \cup {f})
      /\ hdi_fin' = HasFin(frames \cup {f})
      /\ UNCHANGED <<read_offset, fin_reached>>
      /\ fin_arrived' = (fin_arrived \/ f.fin)
  BY DEF to_hash, Arrives
<1>2. StreamTypeOK /\ EndIsKept
  BY DEF SInv
<1>3. Held = UNION {Bytes(g) : g \in frames} /\ Held' = UnreadOf(frames \cup {f})
  BY <1>1 DEF Held
<1>4. frames \cup {f} \subseteq Frame /\ read_offset \in 0..Final
  BY <1>2 DEF StreamTypeOK
<1>5. \A g \in frames \cup {f} :
        /\ unread(g) \subseteq 0..(Final - 1) /\ unread(g) \subseteq Bytes(g)
        /\ touched(g) \subseteq Nat
        /\ \A b \in unread(g) : Block(b) \in touched(g)
  BY <1>4, HashTakes
<1>6. blocks' \subseteq Nat /\ stored' \subseteq 0..(Final - 1)
  BY <1>1, <1>5 DEF BlocksOf, UnreadOf
<1>7. \A b \in Held' : b \in Held \/ b \in Bytes(f)
  BY <1>3, <1>5 DEF UnreadOf
<1>8. \A b \in Held : b >= read_offset => b \in Held'
  BY <1>3 DEF UnreadOf, unread
<1>9. \A b \in Bytes(f) : b >= read_offset => b \in Held'
  BY <1>3 DEF UnreadOf, unread
<1>10. EndIsKept'
  BY <1>1, <1>2 DEF EndIsKept, HasFin
<1>11. ListInOrder' /\ EndArrived'
  BY <1>1 DEF ListInOrder, EndArrived
<1>12. StoredInBlocks'
  BY <1>1, <1>5 DEF StoredInBlocks, BlocksOf, UnreadOf
<1>13. hdi_fin' \in BOOLEAN
  BY <1>1 DEF HasFin
<1> QED
  BY <1>1, <1>6, <1>7, <1>8, <1>9, <1>10, <1>11, <1>12, <1>13, ArrivalKeeps

LEMMA HashGrows ==
  ASSUME StreamGiven, SInv, NEW f \in Frame, FrameIsHashed(f)
  PROVE  SInv'
<1>1. /\ data_in = "hash" /\ Arrives(f)
      /\ blocks' = blocks \cup touched(f) /\ stored' = stored \cup unread(f)
      /\ hdi_fin' = (hdi_fin \/ f.fin)
      /\ UNCHANGED <<data_in, frames, ncdi_fin, failed>>
      /\ UNCHANGED <<read_offset, fin_reached>>
      /\ fin_arrived' = (fin_arrived \/ f.fin)
  BY DEF FrameIsHashed, Arrives
<1>2. StreamTypeOK /\ EndIsKept /\ EndArrived /\ StoredInBlocks
  BY DEF SInv
<1>3. Held = stored /\ Held' = stored \cup unread(f)
  BY <1>1 DEF Held
<1>4. /\ unread(f) \subseteq 0..(Final - 1) /\ unread(f) \subseteq Bytes(f)
      /\ touched(f) \subseteq Nat
      /\ \A b \in unread(f) : Block(b) \in touched(f)
  BY <1>2, HashTakes DEF StreamTypeOK
<1>5. f.fin \in BOOLEAN
  BY FrameFacts
<1>6. EndIsKept'
  BY <1>1, <1>2 DEF EndIsKept
<1>7. ListInOrder' /\ StoredInBlocks'
  BY <1>1, <1>2, <1>4 DEF ListInOrder, StoredInBlocks
<1>8. EndArrived'
  BY <1>1, <1>2, <1>5 DEF EndArrived
<1>9. \A b \in Bytes(f) : b >= read_offset => b \in Held'
  BY <1>3 DEF unread
<1>10. blocks' \subseteq Nat /\ stored' \subseteq 0..(Final - 1)
  BY <1>1, <1>2, <1>4 DEF StreamTypeOK
<1> QED
  BY <1>1, <1>2, <1>3, <1>4, <1>5, <1>6, <1>7, <1>8, <1>9, <1>10, ArrivalKeeps
     DEF StreamTypeOK

LEMMA FrameFails ==
  ASSUME StreamGiven, SInv, NEW f \in Frame, FrameIsRefused(f)
  PROVE  SInv'
<1>1. /\ Arrives(f) /\ failed' = TRUE
      /\ UNCHANGED <<data_in, frames, ncdi_fin, blocks, stored, hdi_fin, read_offset,
                     fin_reached, reading>>
      /\ arrived' = arrived \cup Bytes(f) /\ fin_arrived' = (fin_arrived \/ f.fin)
      /\ ~reading
  BY DEF FrameIsRefused, dataIn, Arrives
<1>2. Bytes(f) \subseteq 0..(Final - 1) /\ f.fin \in BOOLEAN
  BY FrameFacts DEF StreamGiven
<1>3. StreamTypeOK'
  BY <1>1, <1>2 DEF SInv, StreamTypeOK
<1>4. Held' = Held
  BY <1>1 DEF Held
<1>5. NothingIsLost' /\ EndIsKept'
  BY <1>1 DEF NothingIsLost, EndIsKept
<1>6. NothingIsInvented'
  BY <1>1, <1>4 DEF SInv, NothingIsInvented
<1>7. ListInOrder' /\ StoredInBlocks'
  BY <1>1 DEF SInv, ListInOrder, StoredInBlocks
<1>8. EndArrived' /\ ReadingMayGoOn'
  BY <1>1, <1>2 DEF SInv, EndArrived, ReadingMayGoOn
<1> QED
  BY <1>3, <1>5, <1>6, <1>7, <1>8 DEF SInv

\* What is left to show when bytes were read.
LEMMA ReadKeeps ==
  ASSUME StreamGiven, SInv, UNCHANGED <<failed, arrived, fin_arrived>>,
         data_in' \in {"nocopy", "hash"}, frames' \subseteq Frame,
         ncdi_fin' \in BOOLEAN, hdi_fin' \in BOOLEAN,
         blocks' \subseteq Nat, stored' \subseteq 0..(Final - 1),
         read_offset' \in 0..Final, read_offset <= read_offset',
         fin_reached' \in BOOLEAN, reading' \in BOOLEAN,
         \A b \in Held' : b \in Held,
         \A b \in Held : b >= read_offset' => b \in Held',
         \A b \in 0..(Final - 1) : read_offset <= b /\ b < read_offset' => b \in Held,
         EndIsKept', ListInOrder', StoredInBlocks', EndArrived', ReadingMayGoOn'
  PROVE  SInv'
<1>1. StreamTypeOK'
  BY DEF SInv, StreamTypeOK
<1>2. read_offset \in 0..Final /\ arrived \subseteq 0..(Final - 1) /\ Final \in Nat
  BY DEF SInv, StreamTypeOK, StreamGiven
<1>3. NothingIsLost'
  <2>1. ASSUME NEW b \in arrived, ~failed PROVE b < read_offset' \/ b \in Held'
    <3>1. b < read_offset \/ b \in Held
      BY <2>1 DEF SInv, NothingIsLost
    <3>2. b \in Int /\ read_offset' \in Int
      BY <1>2
    <3> QED
      BY <3>1, <3>2, <1>2
  <2> QED
    BY <2>1 DEF NothingIsLost
<1>4. NothingIsInvented'
  <2>1. \A b \in Held' : b \in arrived
    BY DEF SInv, NothingIsInvented
  <2>2. ASSUME NEW b \in 0..(read_offset' - 1) PROVE b \in arrived
    <3>1. b \in 0..(Final - 1) /\ b < read_offset'
      <4>1. \A m \in Nat : \A r \in 0..m : \A k \in 0..(r - 1) :
              k \in 0..(m - 1) /\ k < r
        OBVIOUS
      <4> QED
        BY <1>2, <4>1
    <3>2. b < read_offset => b \in arrived
      BY <3>1, <1>2 DEF SInv, NothingIsInvented
    <3>3. b \in Held => b \in arrived
      BY DEF SInv, NothingIsInvented
    <3> QED
      BY <3>1, <3>2, <3>3, <1>2
  <2> QED
    BY <2>1, <2>2 DEF NothingIsInvented
<1> QED
  BY <1>1, <1>3, <1>4 DEF SInv

LEMMA ReadTheList ==
  ASSUME StreamGiven, SInv, ReadListed
  PROVE  SInv'
<1>1. PICK f \in frames, n \in 0..Final :
        /\ nocopy_shows(f)
        /\ ReadFrame(n, f.end - read_offset, f.fin, nocopy_frame_done(f))
  BY DEF ReadListed
<1> DEFINE left == f.end - read_offset
<1>2. StreamTypeOK /\ EndIsKept /\ EndArrived /\ ListInOrder /\ ReadingMayGoOn
  BY DEF SInv
<1>3. data_in = "nocopy" /\ f.off <= read_offset /\ \A g \in frames : f.off <= g.off
  BY <1>1 DEF nocopy_shows, is_first
<1>4. /\ reading /\ n \in 0..left
      /\ read_offset' = read_offset + n
      /\ fin_reached' = (n = left /\ f.fin) /\ reading' = (n = left /\ ~f.fin)
      /\ UNCHANGED <<data_in, ncdi_fin, blocks, stored, hdi_fin>>
      /\ frames' = (IF n = left THEN frames \ {f} ELSE frames)
      /\ UNCHANGED <<failed, arrived, fin_arrived>>
  BY <1>1 DEF ReadFrame, nocopy_frame_done, dataIn
<1>5. /\ f \in Frame /\ f.off \in 0..Final /\ f.end \in 0..Final /\ f.fin \in BOOLEAN
      /\ f.end >= read_offset /\ read_offset \in 0..Final /\ Final \in Nat
  BY <1>2, <1>3, FrameFacts DEF StreamTypeOK, ListInOrder, StreamGiven
<1>6. /\ read_offset' \in 0..Final /\ read_offset <= read_offset'
      /\ read_offset' <= f.end /\ (n = left => read_offset' = f.end)
  BY <1>4, <1>5
<1>7. ~fin_reached /\ ~failed
  BY <1>2, <1>4 DEF ReadingMayGoOn
<1>8. Held = UNION {Bytes(g) : g \in frames} /\ Held' = UNION {Bytes(g) : g \in frames'}
  BY <1>3, <1>4 DEF Held
<1> HIDE DEF left
<1>9. \A b \in Held' : b \in Held
  BY <1>4, <1>8
<1>10. ASSUME NEW b \in Held, b >= read_offset' PROVE b \in Held'
  <2>1. PICK g \in frames : b \in Bytes(g)
    BY <1>8
  <2>2. b \in Bytes(f) => b \in Int /\ b < f.end
    BY <1>5, FrameFacts
  <2>3. ~(n = left /\ g = f)
    BY <1>5, <1>6, <1>10, <2>1, <2>2
  <2> QED
    BY <1>4, <1>8, <2>1, <2>3
<1>11. ASSUME NEW b \in 0..(Final - 1), read_offset <= b, b < read_offset' PROVE b \in Held
  <2>1. b \in Bytes(f)
    BY <1>3, <1>5, <1>6, <1>11, FrameFacts
  <2> QED
    BY <1>8, <2>1
<1>12. EndIsKept'
  <2>1. fin_arrived => HasFin(frames)
    BY <1>2, <1>3, <1>7 DEF EndIsKept
  <2>2. fin_arrived' => fin_reached' \/ HasFin(frames')
    BY <1>4, <1>5, <2>1 DEF HasFin
  <2> QED
    BY <1>3, <1>4, <2>2 DEF EndIsKept, HasFin
<1>13. ListInOrder'
  <2>1. ASSUME NEW g \in frames' PROVE g.end >= read_offset'
    <3>1. g \in frames /\ g \in Frame /\ f.off <= g.off
      BY <1>2, <1>3, <1>4 DEF StreamTypeOK
    <3>2. /\ g.off \in 0..Final /\ g.end \in 0..Final /\ g.off <= g.end
          /\ g.off = g.end => g.end = Final
      BY <3>1, FrameFacts
    <3>3. g = f \/ g.end <= f.off \/ f.end <= g.off
      BY <1>2, <1>3, <3>1 DEF ListInOrder
    <3>4. CASE g = f
      BY <3>4, <1>6
    <3>5. CASE g.end <= f.off
      <4>1. g.off = g.end
        BY <3>1, <3>2, <3>5, <1>5
      <4> QED
        BY <4>1, <3>2, <1>6, <1>5
    <3>6. CASE f.end <= g.off
      BY <3>2, <3>6, <1>5, <1>6
    <3> QED
      BY <3>3, <3>4, <3>5, <3>6
  <2> QED
    BY <1>2, <1>3, <1>4, <2>1 DEF ListInOrder
<1>14. StoredInBlocks' /\ EndArrived' /\ ReadingMayGoOn'
  BY <1>2, <1>3, <1>4, <1>5, <1>7 DEF StoredInBlocks, EndArrived, ReadingMayGoOn
<1>15. frames' \subseteq Frame /\ fin_reached' \in BOOLEAN /\ reading' \in BOOLEAN
  BY <1>2, <1>4, <1>5 DEF StreamTypeOK
<1> QED
  BY <1>2, <1>4, <1>6, <1>9, <1>10, <1>11, <1>12, <1>13, <1>14, <1>15, ReadKeeps
     DEF StreamTypeOK

\* A block that goes has no byte left to read.
LEMMA BlockGoes ==
  ASSUME StreamGiven, SInv, data_in = "hash",
         NEW end \in Nat, read_offset <= end, hash_frame_done(end)
  PROVE  /\ data_in' \in {"nocopy", "hash"} /\ frames' \subseteq Frame
         /\ ncdi_fin' \in BOOLEAN /\ hdi_fin' \in BOOLEAN
         /\ blocks' \subseteq Nat /\ stored' \subseteq 0..(Final - 1)
         /\ \A b \in Held' : b \in Held
         /\ \A b \in Held : b >= end => b \in Held'
         /\ StoredInBlocks' /\ (ncdi_fin' => ncdi_fin)
         /\ data_in' = "nocopy" => frames' = {} /\ ~hdi_fin
         /\ data_in' = "hash" => hdi_fin' = hdi_fin
<1> DEFINE k == Block(read_offset)
           gone == k \in blocks /\ (Block(end) # k \/ \A b \in stored : Block(b) = k => b < end)
           rest == blocks \ {k}
<1>1. StreamTypeOK /\ StoredInBlocks /\ Final \in Nat /\ read_offset \in Nat
  BY DEF SInv, StreamTypeOK, StreamGiven
<1>2. stored \subseteq 0..(Final - 1) /\ Held = stored
  BY <1>1 DEF StreamTypeOK, Held
<1>3. ASSUME gone, NEW b \in stored, b >= end PROVE Block(b) # k
  <2>1. b \in Nat
    BY <1>2
  <2>2. CASE Block(end) # k
    <3>1. /\ Block(end) \in Nat /\ Block(b) \in Nat /\ k \in Nat
          /\ k <= Block(end) /\ Block(end) <= Block(b)
      BY <1>1, <1>3, <2>1, BlockOrder
    <3> QED
      BY <2>2, <3>1
  <2>3. CASE \A x \in stored : Block(x) = k => x < end
    BY <1>3, <2>1, <2>3
  <2> QED
    BY <1>3, <2>2, <2>3
<1>4. CASE gone /\ rest = {} /\ ~hdi_fin
  <2>1. /\ data_in' = "nocopy" /\ frames' = {} /\ ncdi_fin' = FALSE
        /\ blocks' = {} /\ stored' = {} /\ hdi_fin' = FALSE
    BY <1>4 DEF hash_frame_done, to_nocopy
  <2>2. Held' = {}
    BY <2>1 DEF Held
  <2>3. ASSUME NEW b \in Held, b >= end PROVE FALSE
    <3>1. Block(b) # k
      BY <1>2, <1>3, <1>4, <2>3
    <3>2. Block(b) \in blocks
      BY <1>1, <1>2 DEF StoredInBlocks
    <3> QED
      BY <1>4, <3>1, <3>2
  <2> QED
    BY <1>4, <2>1, <2>2, <2>3 DEF StoredInBlocks
<1>5. CASE ~(gone /\ rest = {} /\ ~hdi_fin)
  <2>1. /\ blocks' = (IF gone THEN rest ELSE blocks)
        /\ stored' = (IF gone THEN stored \ InBlock(k) ELSE stored)
        /\ UNCHANGED <<data_in, frames, ncdi_fin, hdi_fin>>
    BY <1>5 DEF hash_frame_done
  <2> HIDE DEF gone
  <2>2. Held' = stored'
    BY <2>1 DEF Held
  <2>3. ASSUME NEW b \in Held, b >= end PROVE b \in Held'
    <3>1. gone => b \notin InBlock(k)
      BY <1>2, <1>3, <2>3 DEF InBlock
    <3> QED
      BY <1>2, <2>1, <2>2, <3>1
  <2>4. StoredInBlocks'
    <3>1. ASSUME NEW b \in stored' PROVE Block(b) \in blocks'
      <4>1. b \in stored /\ Block(b) \in blocks
        BY <1>1, <2>1 DEF StoredInBlocks
      <4>2. ASSUME gone PROVE Block(b) # k
        <5>1. b \in 0..Final
          BY <1>1, <1>2, <4>1
        <5>2. b \notin InBlock(k)
          BY <2>1, <3>1, <4>2
        <5> QED
          BY <5>1, <5>2 DEF InBlock
      <4> QED
        BY <2>1, <4>1, <4>2
    <3> QED
      BY <3>1 DEF StoredInBlocks
  <2> QED
    BY <1>1, <1>2, <2>1, <2>2, <2>3, <2>4 DEF StreamTypeOK
<1> QED
  BY <1>4, <1>5

LEMMA ReadTheHash ==
  ASSUME StreamGiven, SInv, ReadHashed
  PROVE  SInv'
<1>1. PICK end \in 0..Final, n \in 0..Final :
        /\ hash_shows_data(end)
        /\ ReadFrame(n, end - read_offset, df_fin(end), hash_frame_done(end))
  BY DEF ReadHashed
<1> DEFINE left == end - read_offset
<1>2. StreamTypeOK /\ EndIsKept /\ EndArrived /\ StoredInBlocks /\ ReadingMayGoOn
  BY DEF SInv
<1>3. /\ data_in = "hash" /\ read_offset < end
      /\ \A b \in read_offset..(end - 1) : b \in stored
  BY <1>1 DEF hash_shows_data
<1>4. /\ reading /\ n \in 0..left
      /\ read_offset' = read_offset + n
      /\ fin_reached' = (n = left /\ df_fin(end)) /\ reading' = (n = left /\ ~df_fin(end))
      /\ IF n = left THEN hash_frame_done(end) ELSE UNCHANGED dataIn
      /\ UNCHANGED <<failed, arrived, fin_arrived>>
  BY <1>1 DEF ReadFrame
<1>5. read_offset \in 0..Final /\ Final \in Nat /\ end \in Nat
  BY <1>2 DEF StreamTypeOK, StreamGiven
<1>6. /\ read_offset' \in 0..Final /\ read_offset <= read_offset' /\ read_offset' <= end
      /\ (n = left => read_offset' = end)
  BY <1>4, <1>5
<1>7. ~fin_reached /\ ~failed
  BY <1>2, <1>4 DEF ReadingMayGoOn
<1>8. Held = stored
  BY <1>3 DEF Held
<1> HIDE DEF left
<1>9. /\ data_in' \in {"nocopy", "hash"} /\ frames' \subseteq Frame
      /\ ncdi_fin' \in BOOLEAN /\ hdi_fin' \in BOOLEAN
      /\ blocks' \subseteq Nat /\ stored' \subseteq 0..(Final - 1)
      /\ \A b \in Held' : b \in Held
      /\ \A b \in Held : b >= read_offset' => b \in Held'
      /\ StoredInBlocks' /\ (ncdi_fin' => ncdi_fin)
      /\ data_in' = "nocopy" => frames' = {} /\ ~hdi_fin
      /\ data_in' = "hash" => hdi_fin' = hdi_fin
  <2>1. CASE n = left
    <3>1. hash_frame_done(end) /\ read_offset <= end
      BY <1>4, <1>6, <2>1, <1>3, <1>5
    <3> QED
      BY <1>3, <1>5, <1>6, <2>1, <3>1, BlockGoes
  <2>2. CASE n # left
    <3>1. UNCHANGED <<data_in, frames, ncdi_fin, blocks, stored, hdi_fin>>
      BY <1>4, <2>2 DEF dataIn
    <3> QED
      BY <1>2, <1>3, <3>1 DEF StreamTypeOK, Held, StoredInBlocks
  <2> QED
    BY <2>1, <2>2
<1>10. ASSUME NEW b \in 0..(Final - 1), read_offset <= b, b < read_offset' PROVE b \in Held
  BY <1>3, <1>5, <1>6, <1>8, <1>10
<1>11. EndIsKept'
  <2>1. fin_arrived => hdi_fin
    BY <1>2, <1>3, <1>7 DEF EndIsKept
  <2> QED
    BY <1>4, <1>9, <2>1 DEF EndIsKept
<1>12. ListInOrder' /\ EndArrived' /\ ReadingMayGoOn'
  BY <1>2, <1>4, <1>7, <1>9 DEF ListInOrder, EndArrived, ReadingMayGoOn
<1>13. fin_reached' \in BOOLEAN /\ reading' \in BOOLEAN
  BY <1>4
<1> QED
  BY <1>4, <1>6, <1>9, <1>10, <1>11, <1>12, <1>13, ReadKeeps

LEMMA ReadTheEnd ==
  ASSUME StreamGiven, SInv, ReadFin
  PROVE  SInv'
<1>1. /\ data_in = "hash" /\ hdi_fin /\ read_offset = Final
      /\ reading /\ read_offset' = read_offset + 0
      /\ fin_reached' = TRUE /\ reading' = FALSE
      /\ hash_frame_done(read_offset)
      /\ UNCHANGED <<failed, arrived, fin_arrived>>
  BY DEF ReadFin, ReadFrame, hash_shows_fin
<1>2. StreamTypeOK /\ EndArrived /\ Final \in Nat /\ read_offset \in Nat
  BY DEF SInv, StreamTypeOK, StreamGiven
<1>3. read_offset' = read_offset /\ read_offset <= read_offset
  BY <1>1, <1>2
<1>4. /\ data_in' \in {"nocopy", "hash"} /\ frames' \subseteq Frame
      /\ ncdi_fin' \in BOOLEAN /\ hdi_fin' \in BOOLEAN
      /\ blocks' \subseteq Nat /\ stored' \subseteq 0..(Final - 1)
      /\ \A b \in Held' : b \in Held
      /\ \A b \in Held : b >= read_offset => b \in Held'
      /\ StoredInBlocks' /\ (ncdi_fin' => ncdi_fin)
      /\ data_in' = "nocopy" => frames' = {} /\ ~hdi_fin
  BY <1>1, <1>2, <1>3, BlockGoes
<1>5. EndIsKept' /\ ListInOrder' /\ EndArrived' /\ ReadingMayGoOn'
  BY <1>1, <1>2, <1>4 DEF EndIsKept, ListInOrder, EndArrived, ReadingMayGoOn
<1>6. read_offset' \in 0..Final
  BY <1>1, <1>2, <1>3
<1>7. \A b \in 0..(Final - 1) : read_offset <= b /\ b < read_offset' => b \in Held
  BY <1>2, <1>3
<1> QED
  BY <1>1, <1>3, <1>4, <1>5, <1>6, <1>7, ReadKeeps

LEMMA LoopMoves ==
  ASSUME SInv, ReadStarts \/ ReadEnds \/ UNCHANGED streamVars
  PROVE  SInv'
<1>1. /\ UNCHANGED <<data_in, frames, ncdi_fin, blocks, stored, hdi_fin, read_offset,
                     fin_reached, failed, arrived, fin_arrived>>
      /\ reading' \in BOOLEAN /\ (reading' => ~fin_reached /\ ~failed)
  <2>1. CASE ReadStarts
    BY <2>1 DEF ReadStarts, dataIn
  <2>2. CASE ReadEnds
    BY <2>2 DEF ReadEnds, dataIn
  <2>3. CASE UNCHANGED streamVars
    BY <2>3 DEF streamVars, dataIn, SInv, StreamTypeOK, ReadingMayGoOn
  <2> QED
    BY <2>1, <2>2, <2>3
<1>2. Held' = Held
  BY <1>1 DEF Held
<1>3. StreamTypeOK'
  BY <1>1 DEF SInv, StreamTypeOK
<1>4. NothingIsLost' /\ NothingIsInvented' /\ EndIsKept'
  BY <1>1, <1>2 DEF SInv, NothingIsLost, NothingIsInvented, EndIsKept
<1>5. ListInOrder' /\ StoredInBlocks' /\ EndArrived' /\ ReadingMayGoOn'
  BY <1>1 DEF SInv, ListInOrder, StoredInBlocks, EndArrived, ReadingMayGoOn
<1> QED
  BY <1>3, <1>4, <1>5 DEF SInv

\* Whatever the order of the frames, however they overlap and whenever the
\* implementation is switched, no byte and no end of the stream that arrived
\* is lost, and nothing is read that did not arrive (lsquic_stream.c 861-946,
\* 1257-1330; lsquic_di_nocopy.c 200-338, 460-495; lsquic_di_hash.c 351-427,
\* 578-600).
THEOREM StreamKeepsAll ==
  ASSUME StreamGiven
  PROVE  StreamSpec => [](NothingIsLost /\ NothingIsInvented /\ EndIsKept)
<1>1. StreamInit => SInv
  <2> SUFFICES ASSUME StreamInit PROVE SInv
    OBVIOUS
  <2>1. Final \in Nat /\ Held = {}
    BY StreamGiven DEF StreamGiven, StreamInit, Held
  <2>2. StreamTypeOK
    <3>1. read_offset \in 0..Final
      BY <2>1 DEF StreamInit
    <3> QED
      BY <3>1 DEF StreamInit, StreamTypeOK
  <2>3. NothingIsLost /\ NothingIsInvented /\ EndIsKept
    BY <2>1 DEF StreamInit, NothingIsLost, NothingIsInvented, EndIsKept
  <2>4. ListInOrder /\ StoredInBlocks /\ EndArrived /\ ReadingMayGoOn
    BY DEF StreamInit, ListInOrder, StoredInBlocks, EndArrived, ReadingMayGoOn
  <2> QED
    BY <2>2, <2>3, <2>4 DEF SInv
<1>2. SInv /\ [StreamNext]_streamVars => SInv'
  <2> SUFFICES ASSUME SInv, [StreamNext]_streamVars PROVE SInv'
    OBVIOUS
  <2>1. ASSUME NEW f \in Frame,
               \/ FrameIsDuplicate(f) \/ FrameIsListed(f)
               \/ ListIsInefficient(f) \/ FrameOverlaps(f)
               \/ FrameIsHashed(f) \/ FrameIsRefused(f)
        PROVE  SInv'
    <3>1. ListIsInefficient(f) \/ FrameOverlaps(f) => SInv'
      BY StreamGiven, ListToHash DEF ListIsInefficient, FrameOverlaps
    <3> QED
      BY StreamGiven, <2>1, <3>1, NothingNew, ListGrows, HashGrows, FrameFails
  <2> QED
    BY StreamGiven, <2>1, ReadTheList, ReadTheHash, ReadTheEnd, LoopMoves DEF StreamNext
<1>3. SInv => NothingIsLost /\ NothingIsInvented /\ EndIsKept
  BY DEF SInv
<1> QED
  BY <1>1, <1>2, <1>3, PTL DEF StreamSpec

=============================================================================
