------------------------------- MODULE SevTime -------------------------------
(***************************************************************************)
(* The clock arithmetic of the event library: `struct timeval` values and  *)
(* the comparison _is_overtime every timeout of the loop goes through.     *)
(* gettimeofday is the only clock; it is modelled as a number of           *)
(* microseconds, Million of which make a second.                           *)
(***************************************************************************)
EXTENDS Integers

CONSTANT Million      \* microseconds in a second; small in the TLC instances

ASSUME MillionAssumption == Million \in Nat \ {0}

\* A normalised struct timeval, as gettimeofday returns it.
Timeval == [sec : Nat, usec : 0..(Million - 1)]

Micros(tv) == tv.sec * Million + tv.usec

FromMicros(m) == [sec |-> m \div Million, usec |-> m % Million]

Zero == [sec |-> 0, usec |-> 0]

\* _is_overtime: whole seconds first; the microseconds are looked at only
\* when the seconds are equal, and without a borrow.
is_overtime(start, end, over) ==
  \/ end.sec - start.sec > over.sec
  \/ /\ end.sec - start.sec = over.sec
     /\ end.usec - start.usec > over.usec

\* What the library's comment calls a timeout (chao shi): more time than
\* `over` has passed between `start` and `end`.
Elapsed(start, end, over) == Micros(end) - Micros(start) > Micros(over)
==============================================================================
