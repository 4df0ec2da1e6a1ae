-------------------------------- MODULE Timers --------------------------------
(***************************************************************************)
(* One-shot timers: the list timer_list, set_timer which appends to it,    *)
(* and the pass _timer_loop makes over it with an iterator while callbacks *)
(* may append more.  _del_all_timer, the part of sev_free_base that ends   *)
(* the timers still pending, is here too.                                  *)
(*                                                                         *)
(* A timer is a member of the pool TimerIds, the object set_timer          *)
(* allocates; it can be allocated again once it has been freed.            *)
(***************************************************************************)
EXTENDS SevControl

CONSTANTS
  TimerIds,      \* the pool of timer objects
  HasFreeCb,     \* the timers set with a free_cb; the others pass NULL
  Delays         \* the timeouts the program passes to set_timer

ASSUME TimerAssumption ==
  /\ HasFreeCb \subseteq TimerIds
  /\ Delays \subseteq Timeval
  /\ Nobody \notin TimerIds

VARIABLES
  timer_list,  \* the timers pending, oldest first
  pos,         \* the position of _timer_loop's iterator
  passStart    \* auxiliary: the time at which the current pass began

timerVars == <<timer_list, pos, passStart>>

Timer == [tm : TimerIds, start : Timeval, over : Delays]

TimerInit == timer_list = <<>> /\ pos = 1 /\ passStart = Zero

Pending(t) == \E i \in DOMAIN timer_list : timer_list[i].tm = t

-------------------------------------------------------------------------------
set_timer(t, d) ==
  /\ ClientRuns
  /\ ~Pending(t)
  /\ timer_list' = Append(timer_list, [tm |-> t, start |-> Now, over |-> d])
  /\ UNCHANGED <<pos, passStart>>

-------------------------------------------------------------------------------
(* One pass of _timer_loop.                                                *)

\* Mistake: the pass goes on from where the last one ended.
TimerPassBegin_resuming == passStart' = Now /\ UNCHANGED <<timer_list, pos>>

TimerPassBegin ==
  /\ pos' = 1
  /\ passStart' = Now
  /\ UNCHANGED timer_list

AtTimer(due) ==
  /\ LoopAt("timers")
  /\ pos \in DOMAIN timer_list
  /\ is_overtime(timer_list[pos].start, Now, timer_list[pos].over) = due

TimerSkip ==
  /\ AtTimer(FALSE)
  /\ pos' = pos + 1
  /\ UNCHANGED <<controlVars, timer_list, passStart>>

\* Mistake: the timer is erased before its callback is called.
TimerFire_erasing ==
  /\ AtTimer(TRUE)
  /\ Call(timer_list[pos].tm)
  /\ timer_list' = SubSeq(timer_list, 1, pos - 1)
                     \o SubSeq(timer_list, pos + 1, Len(timer_list))
  /\ UNCHANGED <<pos, passStart>>

\* tcb and then free_cb are called with the parameter; both are the
\* program's code, and the list keeps the timer meanwhile.
TimerFire ==
  /\ AtTimer(TRUE)
  /\ Call(timer_list[pos].tm)
  /\ UNCHANGED timerVars

\* Mistake: the iterator is advanced after erase has advanced it.
TimerReturn_skipping ==
  /\ running \in TimerIds
  /\ HandlerReturn
  /\ timer_list' = SubSeq(timer_list, 1, pos - 1)
                     \o SubSeq(timer_list, pos + 1, Len(timer_list))
  /\ pos' = pos + 1
  /\ UNCHANGED passStart

\* The timer at the iterator is erased; the iterator is then at the next.
TimerReturn ==
  /\ running \in TimerIds
  /\ HandlerReturn
  /\ timer_list' = SubSeq(timer_list, 1, pos - 1)
                     \o SubSeq(timer_list, pos + 1, Len(timer_list))
  /\ UNCHANGED <<pos, passStart>>

TimerPassDone ==
  /\ LoopAt("timers")
  /\ pos > Len(timer_list)
  /\ Goto("cusSweep")
  /\ UNCHANGED timerVars

\* _del_all_timer calls free_cb without the test _timer_loop makes: a
\* pending timer that has none ends the process.
Uncallable == \E i \in DOMAIN timer_list : timer_list[i].tm \notin HasFreeCb

TimerClear == timer_list' = <<>> /\ UNCHANGED <<pos, passStart>>

TimerClient == \E t \in TimerIds, d \in Delays : set_timer(t, d)

TimerLoop == TimerSkip \/ TimerFire \/ TimerPassDone

-------------------------------------------------------------------------------
(* Properties.                                                             *)

TimerTypeOK ==
  /\ timer_list \in Seq(Timer)
  /\ pos \in Nat \ {0}
  /\ passStart \in Timeval

\* When a pass over the timers ends, no timer is left that was due when the
\* pass began: erasing the timer under the iterator skips nobody.
NoDueTimerLeft ==
  at = "cusSweep" =>
    \A i \in DOMAIN timer_list :
      ~is_overtime(timer_list[i].start, passStart, timer_list[i].over)

\* The timer whose callback runs is the one under the iterator: erasing at
\* the iterator erases that timer (simple_event_array.cc 272-291).
RunningIsAtPos ==
  running \in TimerIds => pos \in DOMAIN timer_list /\ timer_list[pos].tm = running

\* The timers the iterator has gone by were not due when the pass began; that
\* was at an earlier reading of the clock.
PassedNotDue ==
  /\ at = "timers" =>
       \A i \in DOMAIN timer_list :
         i < pos => ~is_overtime(timer_list[i].start, passStart, timer_list[i].over)
  /\ \E n \in 0..now : passStart = FromMicros(n)

\* The inductive invariant.
TimerInv == TimerTypeOK /\ RunningIsAtPos /\ PassedNotDue /\ NoDueTimerLeft
==============================================================================
