------------------------------- MODULE RecHist -------------------------------
(***************************************************************************)
(* The history of received packet numbers of one packet number space       *)
(* (lsquic_rechist.c): what ACK frames are made from and what a packet is  *)
(* called a duplicate by.  The linked elements, sorted from the highest,   *)
(* are a set of ranges; the slots and the bit masks behind them are left   *)
(* out, and so is a malloc that fails.                                     *)
(***************************************************************************)
EXTENDS Integers, FiniteSets

CONSTANTS Packno,       \* the packet numbers a peer may use
          MaxRanges     \* rh_max_ranges: 1000 for application data; 0: no limit

VARIABLES elems,        \* rh_elems
          cutoff,       \* rh_cutoff
          cutoff_set,   \* RH_CUTOFF_SET
          accepted,     \* ghost: the numbers REC_ST_OK was returned for
          again,        \* ghost: those it was returned for more than once
          forgotten     \* ghost: the numbers of ranges dropped for want of room
vars == <<elems, cutoff, cutoff_set, accepted, again, forgotten>>

PacknoRange == [low : Nat, high : Nat]          \* struct rechist_elem
single(n) == [low |-> n, high |-> n]
Numbers(r) == r.low..r.high
Covered(ranges) == UNION {Numbers(r) : r \in ranges}

\* What an ACK frame needs of its ranges: none is empty, and at least one
\* number is missing between any two, as a gap is written minus one.
Apart(ranges) ==
  /\ \A r \in ranges : r.low <= r.high
  /\ \A r, s \in ranges : r = s \/ r.high + 1 < s.low \/ s.high + 1 < r.low

is_lowest(last, ranges) == last \in ranges /\ \A r \in ranges : last.low <= r.low

Init ==
  /\ elems = {} /\ cutoff = 0 /\ cutoff_set = FALSE
  /\ accepted = {} /\ again = {} /\ forgotten = {}

-----------------------------------------------------------------------------
(* lsquic_rechist_received: the ways it returns REC_ST_OK.                 *)

grows_down(n, e) == e \in elems /\ n = e.low - 1
grows_up(n, f)   == f \in elems /\ n = f.high + 1
Touches(n) == \E e \in elems : grows_down(n, e) \/ grows_up(n, e)
full == MaxRanges # 0 /\ Cardinality(elems) >= MaxRanges

\* The number is new to the history: the walk found it in no range.
OK(n) ==
  /\ n >= cutoff /\ n \notin Covered(elems)
  /\ accepted' = accepted \cup {n}
  /\ again' = again \cup (accepted \cap {n})
  /\ UNCHANGED <<cutoff, cutoff_set>>

extend_down(n) == \E e \in elems :
  /\ OK(n) /\ grows_down(n, e) /\ ~ \E f \in elems : grows_up(n, f)
  /\ elems' = (elems \ {e}) \cup {[low |-> n, high |-> e.high]}
  /\ UNCHANGED forgotten

\* The number closes the gap to the next element, which is freed.
close_gap(n) == \E e, f \in elems :
  /\ OK(n) /\ grows_down(n, e) /\ grows_up(n, f)
  /\ elems' = (elems \ {e, f}) \cup {[low |-> f.low, high |-> e.high]}
  /\ UNCHANGED forgotten

extend_up(n) == \E f \in elems :
  /\ OK(n) /\ grows_up(n, f) /\ ~ \E e \in elems : grows_down(n, e)
  /\ elems' = (elems \ {f}) \cup {[low |-> f.low, high |-> n]}
  /\ UNCHANGED forgotten

\* first_elem, insert_before or the tail, with room for one more.
insert(n) ==
  /\ OK(n) /\ ~Touches(n) /\ ~full
  /\ elems' = elems \cup {single(n)}
  /\ UNCHANGED forgotten

\* rechist_reuse_last_elem and replace_last_el: the lowest range makes room,
\* whether the new number is above it or below; the cutoff stays.
replace_last(n) == \E last \in elems :
  /\ OK(n) /\ ~Touches(n) /\ full /\ is_lowest(last, elems)
  /\ elems' = (elems \ {last}) \cup {single(n)}
  /\ forgotten' = forgotten \cup Numbers(last)

received(n) == \/ extend_down(n) \/ close_gap(n) \/ extend_up(n)
               \/ insert(n) \/ replace_last(n)

\* REC_ST_DUP: below the cutoff, or in a range.  An empty history answers a
\* number below the cutoff with REC_ST_ERR; nothing changes either way.
refused(n) ==
  /\ n < cutoff \/ n \in Covered(elems)
  /\ UNCHANGED vars

-----------------------------------------------------------------------------
(* lsquic_rechist_stop_wait: our ACK of everything below c was acked.      *)

trimmed(r, c) == [low |-> IF r.low < c THEN c ELSE r.low, high |-> r.high]

stop_wait(c) ==
  /\ c >= cutoff                              \* its assertion
  /\ cutoff' = c /\ cutoff_set' = TRUE
  /\ elems' = IF cutoff_set /\ c = cutoff THEN elems
              ELSE {trimmed(r, c) : r \in {s \in elems : s.high >= c}}
  /\ UNCHANGED <<accepted, again, forgotten>>

\* lsquic_rechist_copy_ranges: a new connection takes over the history of
\* its handshake, the highest ranges first, as far as there is room.
copy_ranges(mini) == \E keep \in SUBSET mini :
  /\ elems = {} /\ accepted = {} /\ ~cutoff_set
  /\ MaxRanges # 0 => Cardinality(keep) <= MaxRanges
  /\ keep # mini => MaxRanges # 0 /\ Cardinality(keep) = MaxRanges
  /\ \A k \in keep, r \in mini \ keep : r.low < k.low
  /\ elems' = keep
  /\ accepted' = Covered(mini)
  /\ forgotten' = forgotten \cup Covered(mini \ keep)
  /\ UNCHANGED <<cutoff, cutoff_set, again>>

\* holes_after: a number is missing between packno and the highest range.
holes_after(packno) == \E first \in elems :
  /\ \A r \in elems : r.low <= first.low
  /\ packno < first.low
  /\ packno > IF cutoff_set THEN cutoff ELSE 0

Handshake == {mini \in SUBSET [low : Packno, high : Packno] :
                IsFiniteSet(mini) /\ Apart(mini)}

Next ==
  \/ \E n \in Packno : received(n) \/ refused(n) \/ stop_wait(n)
  \/ \E mini \in Handshake : copy_ranges(mini)

Spec == Init /\ [][Next]_vars

-----------------------------------------------------------------------------
TypeOK ==
  /\ elems \subseteq PacknoRange /\ IsFiniteSet(elems)
  /\ cutoff \in Nat /\ cutoff_set \in BOOLEAN
  /\ accepted \subseteq Nat /\ again \subseteq Nat /\ forgotten \subseteq Nat

\* The ranges an ACK frame is written from can be written at all
\* (lsquic_rechist.c 296-387, 409-447).
RangesApart == Apart(elems)

\* An ACK frame names no number that did not arrive.
HonestAck == Covered(elems) \subseteq accepted

\* A number that arrived is in a range, below the cutoff, or was in a range
\* that had to make room; so only such a number can be accepted twice.
Remembered == \A n \in accepted : n \in Covered(elems) \/ n < cutoff \/ n \in forgotten
AgainForgotten == again \subseteq forgotten

\* The limit holds, whatever arrives (lsquic_rechist.c 178-196, 207-213, 329, 359-387).
WithinLimit == MaxRanges # 0 => Cardinality(elems) <= MaxRanges

\* Making room never loses the largest number, which the ACK frame and
\* holes_after start from.
LargestKept == \A n \in accepted : n >= cutoff => \E r \in elems : n <= r.high

=============================================================================
