------------------------------ MODULE MCEventLoop ------------------------------
(***************************************************************************)
(* Instances of EventLoop for TLC.  The configurations choose a pool of    *)
(* events by name; what each event was created with is given here.         *)
(***************************************************************************)
EXTENDS EventLoop

\* Io events: a and b share descriptor 1; b is one-shot.
CONSTANTS a, b, c
MCEvFd == [e \in IoEvents |-> IF e = c THEN 2 ELSE 1]
MCEvPersist == [e \in IoEvents |-> e # b]

\* Custom events: p is persistent, o one-shot.
CONSTANTS p, o
MCCusId == [e \in CusEvents |-> IF e = p THEN 1 ELSE 2]
MCCusListen == [e \in CusEvents |-> {"STATUS1"}]
MCCusPersist == [e \in CusEvents |-> e = p]

\* A timeout of no time at all: over at the next instant, not at the same.
NoDelay == {[sec |-> 0, usec |-> 0]}

\* simple_event_array.cc 157 says "timed out or triggered" of a handler that is
\* called; the comparison does not keep to that.  In tenths of a second: from
\* 0.9 to 2.0 a timeout of 1.5 is over, after 1.1.
Tenths == INSTANCE SevTime WITH Million <- 10
ASSUME TimedOutBeforeElapsed ==
  \E from, until, timeout \in {Tenths!FromMicros(m) : m \in {9, 15, 20}} :
    Tenths!is_overtime(from, until, timeout) /\ ~Tenths!Elapsed(from, until, timeout)
===============================================================================
