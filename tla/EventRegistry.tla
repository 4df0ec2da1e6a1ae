----------------------------- MODULE EventRegistry -----------------------------
(***************************************************************************)
(* What the event library promises about a kind of event, whichever lists, *)
(* copies, flags and kernel tables it keeps: an event is called only while *)
(* it is armed, or once more after it was disarmed in the middle of a      *)
(* pass; a one-shot event is called at most once each time it is armed;    *)
(* and one callback at a time.                                             *)
(*                                                                         *)
(* IoEvents and CustomEvents are both shown to implement it (EventLoop).   *)
(***************************************************************************)
CONSTANTS
  Events,
  Persistent,    \* the events a call leaves armed
  NoEvent        \* not an event

VARIABLES
  armed,      \* events that are registered
  lingering,  \* events disarmed after the pass had already noted them
  handling    \* the event whose handler is running, or NoEvent

vars == <<armed, lingering, handling>>

Init == armed = {} /\ lingering = {} /\ handling = NoEvent

Arm(e) ==
  /\ armed' = armed \cup {e}
  /\ lingering' = lingering \ {e}
  /\ UNCHANGED handling

\* A pass may have noted the event already.
Disarm(e) ==
  /\ e \in armed
  /\ armed' = armed \ {e}
  /\ lingering' \in {lingering, lingering \cup {e}}
  /\ UNCHANGED handling

Fire(e) ==
  /\ handling = NoEvent
  /\ e \in armed \cup lingering
  /\ handling' = e
  /\ armed' = IF e \in Persistent THEN armed ELSE armed \ {e}
  /\ lingering' = lingering \ {e}

Return ==
  /\ handling # NoEvent
  /\ handling' = NoEvent
  /\ UNCHANGED <<armed, lingering>>

\* The pass goes by an event without calling it.
Forget(e) ==
  /\ e \in lingering
  /\ lingering' = lingering \ {e}
  /\ UNCHANGED <<armed, handling>>

\* The base is freed with all it holds.
Clear ==
  /\ handling = NoEvent
  /\ armed' = {} /\ lingering' = {}
  /\ UNCHANGED handling

Next ==
  \/ \E e \in Events : Arm(e) \/ Disarm(e) \/ Fire(e) \/ Forget(e)
  \/ Return
  \/ Clear

Spec == Init /\ [][Next]_vars
================================================================================
