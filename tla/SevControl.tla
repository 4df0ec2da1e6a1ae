------------------------------ MODULE SevControl ------------------------------
(***************************************************************************)
(* Where the single thread of an event-library program is: inside sev_loop *)
(* (simple_event.c), inside a handler the loop has called, or in the       *)
(* program's own code before and after the loop.  The phases of one turn   *)
(* of the loop are the components' business (Timers, CustomEvents,         *)
(* IoEvents); this module holds what they share.                           *)
(***************************************************************************)
EXTENDS SevTime, FiniteSets, Sequences

CONSTANTS
  Nobody,   \* no handler, no event, no timeout: a NULL pointer
  MaxNow    \* bound: the clock stops there

VARIABLES
  at,       \* the place the loop has reached
  running,  \* the event or timer whose callback is being executed, or Nobody
  stop,     \* sev_base.stop
  now       \* what gettimeofday counts, in microseconds

controlVars == <<at, running, stop>>

Places == {"setup", "top", "timers", "cusSweep", "cusRun", "ioSweep",
           "ioWait", "ioRun", "exit", "freed", "crashed"}

\* The program has left the loop and will not call the library again.
Ended == {"exit", "freed", "crashed"}

ControlInit == at = "setup" /\ running = Nobody /\ stop = FALSE /\ now = 0

\* gettimeofday, which may move on between any two steps of the program.
Now == FromMicros(now)

Tick == now < MaxNow /\ now' = now + 1 /\ UNCHANGED controlVars

\* The program's own code is running, and may call the library: before
\* sev_loop, or in a callback the loop has made.
ClientRuns == at = "setup" \/ running # Nobody

\* The loop itself is running, in phase p.
LoopAt(p) == at = p /\ running = Nobody

Goto(p) == at' = p /\ UNCHANGED <<running, stop>>

\* The loop calls the handler of e, or the handler returns to it.
Call(e) == running' = e /\ UNCHANGED <<at, stop>>

HandlerReturn == running' = Nobody /\ UNCHANGED <<at, stop>>

sev_loop == LoopAt("setup") /\ Goto("top")

sev_stop == ClientRuns /\ stop' = TRUE /\ UNCHANGED <<at, running>>

ControlTypeOK == at \in Places /\ stop \in BOOLEAN /\ now \in Nat
==============================================================================
