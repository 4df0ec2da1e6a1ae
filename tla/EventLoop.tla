------------------------------- MODULE EventLoop -------------------------------
(***************************************************************************)
(* The event library as a program uses it: sev_new_base, then sev_loop,    *)
(* each turn of which makes one pass over the timers, one over the custom  *)
(* events and one over the I/O events, calling handlers that may call any  *)
(* operation of the library; then sev_free_base.                           *)
(*                                                                         *)
(* The program is the most general one: whenever its code runs it calls    *)
(* any operation, with any argument, any number of times.                  *)
(***************************************************************************)
EXTENDS IoEvents, CustomEvents, Timers

vars == <<controlVars, now, ioVars, cusVars, timerVars>>

ASSUME LoopAssumption ==
  /\ IoEvents \cap CusEvents = {}
  /\ IoEvents \cap TimerIds = {}
  /\ CusEvents \cap TimerIds = {}

\* sev_new_base: empty lists, an empty epoll set.
Init == ControlInit /\ IoInit /\ CusInit /\ TimerInit

-------------------------------------------------------------------------------
IoUnchanged == UNCHANGED ioVars
CusUnchanged == UNCHANGED cusVars
TimerUnchanged == UNCHANGED timerVars

\* Mistake: the loop is left only when no timer is pending.
LoopTop_draining ==
  /\ LoopAt("top")
  /\ \/ stop /\ timer_list = <<>> /\ Goto("exit") /\ TimerUnchanged
     \/ ~(stop /\ timer_list = <<>>) /\ Goto("timers") /\ TimerPassBegin
  /\ IoUnchanged /\ CusUnchanged

\* The test at the head of sev_loop: stop is looked at only here.
LoopTop ==
  /\ LoopAt("top")
  /\ \/ stop /\ Goto("exit") /\ TimerUnchanged
     \/ ~stop /\ Goto("timers") /\ TimerPassBegin
  /\ IoUnchanged /\ CusUnchanged

\* sev_free_base, after the loop.
sev_free_base ==
  /\ LoopAt("exit")
  /\ IoClear /\ CusClear
  /\ \/ Uncallable /\ Goto("crashed") /\ TimerUnchanged
     \/ ~Uncallable /\ Goto("freed") /\ TimerClear

\* The program's code: it calls the library.
Client ==
  \/ (sev_loop \/ sev_stop) /\ IoUnchanged /\ CusUnchanged /\ TimerUnchanged
  \/ IoClient /\ UNCHANGED controlVars /\ CusUnchanged /\ TimerUnchanged
  \/ CusClient /\ UNCHANGED controlVars /\ IoUnchanged /\ TimerUnchanged
  \/ TimerClient /\ UNCHANGED controlVars /\ IoUnchanged /\ CusUnchanged
  \/ sev_free_base

\* The loop's own steps.
Loop ==
  \/ LoopTop
  \/ TimerLoop /\ IoUnchanged /\ CusUnchanged
  \/ CusLoop /\ IoUnchanged /\ TimerUnchanged
  \/ IoLoop /\ CusUnchanged /\ TimerUnchanged

\* A handler returns.
Return ==
  \/ IoReturn /\ CusUnchanged /\ TimerUnchanged
  \/ CusReturn /\ IoUnchanged /\ TimerUnchanged
  \/ TimerReturn /\ IoUnchanged /\ CusUnchanged

Next ==
  \/ (Client \/ Loop \/ Return) /\ UNCHANGED now
  \/ Tick /\ IoUnchanged /\ CusUnchanged /\ TimerUnchanged

\* The loop never blocks (epoll_wait returns within a millisecond), and the
\* program's handlers return.
Fairness == WF_vars(Loop /\ UNCHANGED now) /\ WF_vars(Return /\ UNCHANGED now)

Spec == Init /\ [][Next]_vars

FairSpec == Spec /\ Fairness

-------------------------------------------------------------------------------
(* Properties.                                                             *)

\* Every variable of the library's four parts stays within its type.
TypeOK ==
  /\ ControlTypeOK
  /\ running \in IoEvents \cup CusEvents \cup TimerIds \cup {Nobody}
  /\ IoTypeOK /\ CusTypeOK /\ TimerTypeOK

\* simple_event.c 181-191: `ev->persist` is read before `ev` is tested.  It
\* is harmless because a descriptor the kernel reports always has an entry:
\* the only way the process ends in the library is sev_free_base meeting a
\* pending timer without a free_cb (simple_event_array.cc 303).
CrashOnlyInTeardown ==
  at = "crashed" => Uncallable

\* A callback runs in the pass that makes it, and in no other place.
CallbackInItsPass ==
  /\ running \in IoEvents => at = "ioRun"
  /\ running \in CusEvents => at = "cusRun"
  /\ running \in TimerIds => at = "timers"

\* The inductive invariant of the whole library.
IInv ==
  /\ TypeOK
  /\ CallbackInItsPass
  /\ CrashOnlyInTeardown
  /\ IoInv
  /\ CusInv
  /\ TimerInv

\* The map and the epoll set part ways over a descriptor in one way only:
\* the program closes it while the map has its entry.
StaleOnlyByClose ==
  [][\A fd \in Fds : Stale(fd)' /\ ~Stale(fd) => fd \notin open']_vars

\* A bit a custom event listens to is cleared only by handing it to the
\* event's handler, or by freeing the event: an activation made while a
\* handler runs, the event's own included, is not lost.
NoLostTrigger ==
  [][\A e \in cusLive : \A b \in Trigger(e) :
       b \in status'[e] \/ e \notin cusLive'
         \/ (running' = e /\ b \in call'.event)]_vars

\* The I/O half of the library keeps the promise of EventRegistry: an entry
\* of the map is armed unless it is marked, and a marked one may be called
\* once more if the batch being dispatched names it.
IoArmed == {e \in ioLive : Listed(e) /\ e \notin ioRemove}
IoLingering == {e \in IoEvents : Listed(e) /\ e \in ioRemove /\ EvFd[e] \in pending}
IoHandling == IF running \in IoEvents THEN running ELSE Nobody

IoRegistry == INSTANCE EventRegistry WITH
  Events <- IoEvents,
  Persistent <- {e \in IoEvents : EvPersist[e]},
  NoEvent <- Nobody,
  armed <- IoArmed,
  lingering <- IoLingering,
  handling <- IoHandling

IoKeepsPromise == IoRegistry!Spec

\* So does the half for custom events, whose pass works on a copy.
CusArmed == {e \in cusLive : Entered(e) /\ e \notin cusRemove}
CusLingering == {e \in CusEvents : e \in copy /\ e \in cusRemove}
CusHandling == IF running \in CusEvents THEN running ELSE Nobody

CusRegistry == INSTANCE EventRegistry WITH
  Events <- CusEvents,
  Persistent <- {e \in CusEvents : CusPersist[e]},
  NoEvent <- Nobody,
  armed <- CusArmed,
  lingering <- CusLingering,
  handling <- CusHandling

CusKeepsPromise == CusRegistry!Spec

\* sev_stop takes effect: the loop finishes its turn and leaves.
StopIsObeyed == (stop /\ at # "setup") ~> at \in Ended

\* An activated event is handled, unless it is removed or the loop is left.
ActivationIsHandled ==
  \A e \in CusEvents :
    (Entered(e) /\ Trigger(e) # {} /\ at # "setup")
      ~> (running = e \/ ~Entered(e) \/ e \in cusRemove \/ at \in Ended)

\* A timer that has run out is called, unless the loop is left: appending
\* behind the iterator and erasing under it delay nobody for ever.
DueTimerIsCalled ==
  \A t \in TimerIds :
    (at # "setup" /\ \E i \in DOMAIN timer_list :
        /\ timer_list[i].tm = t
        /\ is_overtime(timer_list[i].start, Now, timer_list[i].over))
      ~> (running = t \/ at \in Ended)

-------------------------------------------------------------------------------
(* A statement of the source that the code does not keep.                  *)

\* "the removal flag is reset" (simple_event_array.cc 177): an event added
\* again, on an open descriptor, stays.
ReAddIsKept ==
  [][\A e \in IoEvents : EvFd[e] \in open /\ add_io_event(e)
       => ~(Listed(e) /\ e \in ioRemove)']_vars
===============================================================================
