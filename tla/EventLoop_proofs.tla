--------------------------- MODULE EventLoop_proofs ---------------------------
(***************************************************************************)
(* The inductive invariant of the event library and what follows from it,  *)
(* for any pools of events, any descriptors and any program; and that it   *)
(* implements EventRegistry.                                               *)
(***************************************************************************)
EXTENDS EventLoop, SequenceTheorems, TLAPS

-------------------------------------------------------------------------------
(* What _is_overtime computes, for every clock reading and every timeout.  *)

\* The one fact about products the comparisons below rest on.
LEMMA WholeSeconds ==
  ASSUME NEW x \in Int, NEW y \in Int, x > y
  PROVE  x * Million >= y * Million + Million
<1> DEFINE d == x - y - 1
<1>1. d \in Nat /\ x = y + 1 + d
  OBVIOUS
<1>2. d * Million \in Nat
  BY <1>1, MillionAssumption
<1>3. x * Million = y * Million + Million + d * Million
  BY <1>1, MillionAssumption
<1> QED
  BY <1>2, <1>3, MillionAssumption

\* A timeout that has passed is always seen (simple_event_array.cc 114-127).
THEOREM NeverLate ==
  ASSUME NEW s \in Timeval, NEW e \in Timeval, NEW o \in Timeval, Elapsed(s, e, o)
  PROVE  is_overtime(s, e, o)
<1>1. /\ s.sec \in Nat /\ e.sec \in Nat /\ o.sec \in Nat
      /\ s.usec \in 0..(Million - 1) /\ e.usec \in 0..(Million - 1) /\ o.usec \in 0..(Million - 1)
  BY DEF Timeval
<1> DEFINE S == s.sec * Million
           E == e.sec * Million
           O == o.sec * Million
<1>2. S \in Nat /\ E \in Nat /\ O \in Nat /\ Million \in Nat
  BY <1>1, MillionAssumption
<1>m. Micros(s) = S + s.usec /\ Micros(e) = E + e.usec /\ Micros(o) = O + o.usec
  BY DEF Micros
<1>3. E + e.usec - (S + s.usec) > O + o.usec
  <2> HIDE DEF S, E, O
  <2> QED BY <1>m, <1>1, <1>2 DEF Elapsed
<1>4. ASSUME e.sec - s.sec < o.sec PROVE FALSE
  <2>1. o.sec + s.sec > e.sec
    BY <1>1, <1>4
  <2>2. (o.sec + s.sec) * Million >= E + Million
    BY <2>1, <1>1, WholeSeconds
  <2>3. (o.sec + s.sec) * Million = O + S
    BY <1>1, MillionAssumption
  <2> HIDE DEF S, E, O
  <2> QED
    BY <2>2, <2>3, <1>1, <1>2, <1>3
<1>5. CASE e.sec - s.sec = o.sec
  <2>1. E = S + O
    BY <1>1, <1>5, MillionAssumption
  <2>2. e.usec - s.usec > o.usec
    <3> HIDE DEF S, E, O
    <3> QED BY <2>1, <1>1, <1>2, <1>3
  <2> QED
    BY <2>2, <1>5 DEF is_overtime
<1>6. CASE e.sec - s.sec > o.sec
  BY <1>6 DEF is_overtime
<1> QED
  BY <1>1, <1>4, <1>5, <1>6

\* A timeout that is seen has at most a second less a microsecond to go: the
\* borrow the comparison leaves out.
THEOREM EarlyByLessThanASecond ==
  ASSUME NEW s \in Timeval, NEW e \in Timeval, NEW o \in Timeval, is_overtime(s, e, o)
  PROVE  Micros(e) - Micros(s) > Micros(o) - Million
<1>1. /\ s.sec \in Nat /\ e.sec \in Nat /\ o.sec \in Nat
      /\ s.usec \in 0..(Million - 1) /\ e.usec \in 0..(Million - 1) /\ o.usec \in 0..(Million - 1)
  BY DEF Timeval
<1> DEFINE S == s.sec * Million
           E == e.sec * Million
           O == o.sec * Million
<1>2. S \in Nat /\ E \in Nat /\ O \in Nat /\ Million \in Nat
  BY <1>1, MillionAssumption
<1>m. Micros(s) = S + s.usec /\ Micros(e) = E + e.usec /\ Micros(o) = O + o.usec
  BY DEF Micros
<1>3. (o.sec + s.sec) * Million = O + S
  BY <1>1, MillionAssumption
<1>4. CASE e.sec - s.sec > o.sec
  <2>1. E >= (o.sec + s.sec) * Million + Million
    BY <1>1, <1>4, WholeSeconds
  <2>2. E + e.usec - (S + s.usec) > O + o.usec - Million
    <3> HIDE DEF S, E, O
    <3> QED BY <2>1, <1>1, <1>2, <1>3
  <2> HIDE DEF S, E, O
  <2> QED
    BY <2>2, <1>m, <1>1, <1>2
<1>5. CASE e.sec - s.sec = o.sec /\ e.usec - s.usec > o.usec
  <2>1. E = (o.sec + s.sec) * Million
    BY <1>1, <1>5
  <2>2. E + e.usec - (S + s.usec) > O + o.usec - Million
    <3> HIDE DEF S, E, O
    <3> QED BY <2>1, <1>1, <1>2, <1>3, <1>5
  <2> HIDE DEF S, E, O
  <2> QED
    BY <2>2, <1>m, <1>1, <1>2
<1> QED
  BY <1>4, <1>5 DEF is_overtime

\* A clock reading is a normalised timeval and stands for its microseconds.
LEMMA FromMicrosType ==
  ASSUME NEW m \in Nat
  PROVE  FromMicros(m) \in Timeval
<1>1. m \div Million \in Nat /\ m % Million \in 0..(Million - 1)
  BY MillionAssumption
<1> QED
  BY <1>1 DEF FromMicros, Timeval

\* Later readings are later, seconds first.
LEMMA FromMicrosMonotone ==
  ASSUME NEW m \in Nat, NEW n \in Nat, m <= n
  PROVE  \/ FromMicros(m).sec < FromMicros(n).sec
         \/ /\ FromMicros(m).sec = FromMicros(n).sec
            /\ FromMicros(m).usec <= FromMicros(n).usec
<1> DEFINE a == m \div Million
           b == m % Million
           c == n \div Million
           d == n % Million
<1>1. /\ a \in Nat /\ b \in 0..(Million - 1) /\ m = Million * a + b
      /\ c \in Nat /\ d \in 0..(Million - 1) /\ n = Million * c + d
  BY MillionAssumption
<1> HIDE DEF a, b, c, d
<1>2. ASSUME c < a PROVE FALSE
  <2>1. a * Million >= c * Million + Million
    BY <1>1, <1>2, WholeSeconds
  <2>2. a * Million = Million * a /\ c * Million = Million * c
    BY <1>1, MillionAssumption
  <2>3. Million * a \in Nat /\ Million * c \in Nat
    BY <1>1, MillionAssumption
  <2> QED
    BY <2>1, <2>2, <2>3, <1>1, MillionAssumption
<1>3. ASSUME a = c PROVE b <= d
  BY <1>1, <1>3, MillionAssumption
<1>4. a < c \/ (a = c /\ b <= d)
  BY <1>1, <1>2, <1>3
<1> QED
  BY <1>4 DEF FromMicros, a, b, c, d

-------------------------------------------------------------------------------

\* Where the loop is and whose callback runs.
ControlInv ==
  /\ ControlTypeOK
  /\ running \in IoEvents \cup CusEvents \cup TimerIds \cup {Nobody}
  /\ CallbackInItsPass

LEMMA ClientBeforeEnd == ControlInv /\ ClientRuns => at \notin Ended /\ at # "ioWait"
  BY DEF ControlInv, CallbackInItsPass, ClientRuns, Ended

-------------------------------------------------------------------------------
(* I/O events.                                                             *)

LEMMA IoClientInv ==
  ASSUME IoInv, ControlInv, IoClient, UNCHANGED controlVars
  PROVE  IoInv'
<1> USE IoAssumption DEF IoInv, IoTypeOK, RegisteredHasEntry, EntryIsLive, SpentIsLeaving,
                         Stale, controlVars, Leaving
<1>0. (at \notin Ended /\ at # "ioWait") \/ ~ClientRuns
  BY ClientBeforeEnd
<1>1. ASSUME NEW fd \in Fds, OpenFd(fd) PROVE IoInv'
  BY <1>0, <1>1 DEF OpenFd
<1>2. ASSUME NEW fd \in Fds, CloseFd(fd) PROVE IoInv'
  BY <1>0, <1>2 DEF CloseFd
<1>3. ASSUME NEW e \in IoEvents, new_io_event(e) PROVE IoInv'
  BY <1>0, <1>3 DEF new_io_event
<1>4. ASSUME NEW e \in IoEvents, add_io_event(e) PROVE IoInv'
  BY <1>0, <1>4 DEF add_io_event, insert_io_event, EpollAddFails, ioVars
<1>5. ASSUME NEW e \in IoEvents, free_io_event(e) PROVE IoInv'
  BY <1>0, <1>5 DEF free_io_event, Listed, Ended
<1>6. ASSUME NEW fd \in Fds, NEW free \in BOOLEAN, remove_io_event(fd, free) PROVE IoInv'
  BY <1>0, <1>6 DEF remove_io_event, mark_io_event
<1> QED
  BY <1>1, <1>2, <1>3, <1>4, <1>5, <1>6 DEF IoClient

LEMMA IoLoopInv ==
  ASSUME IoInv, ControlInv, IoLoop
  PROVE  IoInv' /\ at' # "crashed"
<1> USE IoAssumption DEF IoInv, IoTypeOK, RegisteredHasEntry, EntryIsLive, SpentIsLeaving,
                         Stale, LoopAt, Goto, Call, Ended, Leaving
<1>1. CASE IoSweep
  BY <1>1 DEF IoSweep, remove_marked, Leaving
<1>2. CASE IoWait
  BY <1>2 DEF IoWait
<1>3. ASSUME NEW fd \in Fds, IoDispatch(fd) PROVE IoInv' /\ at' # "crashed"
  BY <1>3 DEF IoDispatch, mark_io_event
<1>4. ASSUME NEW fd \in Fds, IoDispatchNull(fd) PROVE FALSE
  BY <1>4 DEF IoDispatchNull
<1>5. CASE IoPassDone
  BY <1>5 DEF IoPassDone, ioVars
<1> QED
  BY <1>1, <1>2, <1>3, <1>4, <1>5 DEF IoLoop

\* The steps of the rest of the program leave ioVars alone and do not enter
\* or leave the dispatch of a batch.
LEMMA IoOtherInv ==
  ASSUME IoInv, UNCHANGED ioVars,
         at' = at \/ (at # "ioRun" /\ at \notin Ended /\ at' # "ioWait")
  PROVE  IoInv'
BY DEF IoInv, IoTypeOK, RegisteredHasEntry, EntryIsLive, SpentIsLeaving, Stale, Leaving, ioVars, Ended

LEMMA IoClearInv ==
  ASSUME IoInv, at = "exit", IoClear, at' \in Ended
  PROVE  IoInv'
BY IoAssumption DEF IoInv, IoTypeOK, RegisteredHasEntry, EntryIsLive, SpentIsLeaving, Stale,
                    IoClear, Ended

-------------------------------------------------------------------------------
(* Custom events.                                                          *)

LEMMA CusClientInv ==
  ASSUME CusInv, ControlInv, now \in Nat, CusClient, UNCHANGED controlVars
  PROVE  CusInv'
<1> USE CusAssumption DEF CusInv, CusTypeOK, CopyIsLive, Entered, controlVars
<1>0. at \notin Ended \/ ~ClientRuns
  BY ClientBeforeEnd
<1>z. Zero \in Timeval /\ Now \in Timeval
  BY FromMicrosType, MillionAssumption DEF Zero, Now, Timeval
<1>1. ASSUME NEW e \in CusEvents, new_cus_event(e) PROVE CusInv'
  BY <1>0, <1>1, <1>z DEF new_cus_event, ZeroObject
<1>2. ASSUME NEW e \in CusEvents, free_cus_event(e) PROVE CusInv'
  BY <1>0, <1>2, <1>z DEF free_cus_event, ZeroObject, Ended
<1>3. ASSUME NEW e \in CusEvents, NEW d \in Durations \cup {Nobody}, add_cus_event(e, d)
      PROVE  CusInv'
  BY <1>0, <1>3, <1>z DEF add_cus_event, insert_cus_event
<1>4. ASSUME NEW e \in CusEvents, NEW b \in Bits, active_cus_event(e, b) PROVE CusInv'
  BY <1>4 DEF active_cus_event
<1>5. ASSUME NEW id \in Ids, remove_cus_event(id) PROVE CusInv'
  BY <1>5 DEF remove_cus_event, mark_cus_event
<1> QED
  BY <1>1, <1>2, <1>3, <1>4, <1>5 DEF CusClient

LEMMA CusLoopInv ==
  ASSUME CusInv, ControlInv, now \in Nat, CusLoop
  PROVE  CusInv'
<1> USE CusAssumption DEF CusInv, CusTypeOK, CopyIsLive, Entered, controlVars, LoopAt, Goto,
                          Call, Ended
<1>z. Now \in Timeval
  BY FromMicrosType DEF Now
<1>1. CASE CusSweep
  BY <1>1 DEF CusSweep
<1>2. ASSUME NEW e \in CusEvents, CusSkip(e) PROVE CusInv'
  BY <1>2 DEF CusSkip
<1>3. ASSUME NEW e \in CusEvents, CusFire(e) PROVE CusInv'
  <2>1. TimedOut(e) \in BOOLEAN /\ Trigger(e) \in SUBSET Bits
    BY DEF TimedOut, is_overtime, Trigger
  <2> QED
    BY <2>1, <1>3, <1>z DEF CusFire, mark_cus_event, NextInCopy
<1>4. CASE CusPassDone
  BY <1>4 DEF CusPassDone, cusVars
<1> QED
  BY <1>1, <1>2, <1>3, <1>4 DEF CusLoop

LEMMA CusReturnInv ==
  ASSUME CusInv, CusReturn
  PROVE  CusInv'
BY DEF CusInv, CusTypeOK, CopyIsLive, Entered, CusReturn, NoCall, HandlerReturn

LEMMA CusOtherInv ==
  ASSUME CusInv, UNCHANGED cusVars, at' = at \/ (at # "cusRun" /\ at \notin Ended)
  PROVE  CusInv'
BY DEF CusInv, CusTypeOK, CopyIsLive, Entered, cusVars, Ended

LEMMA CusClearInv ==
  ASSUME CusInv, at = "exit", CusClear, at' \in Ended
  PROVE  CusInv'
BY CusAssumption DEF CusInv, CusTypeOK, CopyIsLive, Entered, CusClear, Ended

-------------------------------------------------------------------------------
(* Timers.                                                                 *)

\* What was not due at a reading of the clock was not due before it.
LEMMA NotDueEarlier ==
  ASSUME NEW m \in Nat, NEW n \in Nat, m <= n,
         NEW s \in Timeval, NEW o \in Timeval, ~is_overtime(s, FromMicros(n), o)
  PROVE  ~is_overtime(s, FromMicros(m), o)
<1>1. FromMicros(m) \in Timeval /\ FromMicros(n) \in Timeval
  BY FromMicrosType
<1> QED
  BY <1>1, FromMicrosMonotone, MillionAssumption DEF is_overtime, Timeval

\* A timer set at a reading of the clock is not due at it.
LEMMA NotDueWhenSet ==
  ASSUME NEW n \in Nat, NEW o \in Timeval
  PROVE  ~is_overtime(FromMicros(n), FromMicros(n), o)
BY FromMicrosType, MillionAssumption DEF is_overtime, Timeval

\* Erasing one element of a sequence: the others keep their order.
LEMMA EraseOne ==
  ASSUME NEW S, NEW s \in Seq(S), NEW p \in 1..Len(s)
  PROVE  LET t == SubSeq(s, 1, p - 1) \o SubSeq(s, p + 1, Len(s)) IN
         /\ t \in Seq(S)
         /\ Len(t) = Len(s) - 1
         /\ \A i \in 1..Len(t) : t[i] = IF i < p THEN s[i] ELSE s[i + 1]
<1> DEFINE u == SubSeq(s, 1, p - 1)
           v == SubSeq(s, p + 1, Len(s))
<1>0. Len(s) \in Nat /\ p \in Int /\ \A i \in 1..Len(s) : s[i] \in S
  BY ElementOfSeq, LenProperties
<1>1. /\ u \in Seq(S) /\ Len(u) = p - 1
      /\ \A i \in 1..(p - 1) : u[i] = s[i]
  BY <1>0, SubSeqProperties
<1>2. /\ v \in Seq(S) /\ Len(v) = Len(s) - p
      /\ \A i \in 1..(Len(s) - p) : v[i] = s[p + i]
  <2>1. \A i \in (p + 1)..Len(s) : s[i] \in S
    BY <1>0
  <2>2. /\ v \in Seq(S)
        /\ Len(v) = IF p + 1 <= Len(s) THEN Len(s) - (p + 1) + 1 ELSE 0
        /\ \A i \in 1..(Len(s) - (p + 1) + 1) : v[i] = s[(p + 1) + i - 1]
    BY <1>0, <2>1, SubSeqProperties
  <2> HIDE DEF v
  <2> QED
    BY <1>0, <2>2
<1> DEFINE t == u \o v
<1> HIDE DEF u, v
<1>4. /\ t \in Seq(S)
      /\ Len(t) = Len(u) + Len(v)
      /\ \A i \in 1..(Len(u) + Len(v)) : t[i] = IF i <= Len(u) THEN u[i] ELSE v[i - Len(u)]
  BY <1>1, <1>2, ConcatProperties
<1> HIDE DEF t
<1>5. Len(t) = Len(s) - 1
  BY <1>0, <1>1, <1>2, <1>4
<1>6. \A i \in 1..Len(t) : t[i] = IF i < p THEN s[i] ELSE s[i + 1]
  BY <1>0, <1>1, <1>2, <1>4
<1> QED
  BY <1>4, <1>5, <1>6 DEF t, u, v

LEMMA TimerClientInv ==
  ASSUME TimerInv, ControlInv, TimerClient, UNCHANGED <<controlVars, now>>
  PROVE  TimerInv'
<1>1. PICK t \in TimerIds, d \in Delays : set_timer(t, d)
  BY DEF TimerClient
<1> DEFINE new == [tm |-> t, start |-> Now, over |-> d]
<1>2. new \in Timer
  BY FromMicrosType DEF Timer, Now, ControlInv, ControlTypeOK
<1>3. timer_list \in Seq(Timer) /\ timer_list' = Append(timer_list, new)
  BY <1>1 DEF set_timer, TimerInv, TimerTypeOK
<1>4. /\ timer_list' \in Seq(Timer)
      /\ DOMAIN timer_list = 1..Len(timer_list)
      /\ DOMAIN timer_list' = 1..(Len(timer_list) + 1)
      /\ Len(timer_list) \in Nat
      /\ \A i \in 1..Len(timer_list) : timer_list'[i] = timer_list[i]
  BY <1>2, <1>3, AppendProperties, LenProperties
<1>5. TimerTypeOK' /\ RunningIsAtPos'
  BY <1>1, <1>4 DEF TimerInv, TimerTypeOK, RunningIsAtPos, set_timer, controlVars
<1>6. at = "timers" => pos \in 1..Len(timer_list)
  BY <1>1, <1>4 DEF set_timer, ClientRuns, TimerInv, RunningIsAtPos, ControlInv,
                    CallbackInItsPass
<1>7. at # "cusSweep"
  BY <1>1 DEF set_timer, ClientRuns, ControlInv, CallbackInItsPass
<1>8. PassedNotDue' /\ NoDueTimerLeft'
  BY <1>1, <1>4, <1>6, <1>7 DEF TimerInv, PassedNotDue, NoDueTimerLeft, set_timer, controlVars
<1> QED
  BY <1>5, <1>8 DEF TimerInv

LEMMA TimerLoopInv ==
  ASSUME TimerInv, ControlInv, TimerLoop, UNCHANGED now
  PROVE  TimerInv'
<1> USE TimerAssumption DEF TimerInv, TimerTypeOK, RunningIsAtPos, PassedNotDue, NoDueTimerLeft,
                            LoopAt, Goto, Call, controlVars, timerVars
<1>1. CASE TimerSkip
  <2>1. PICK n \in 0..now : passStart = FromMicros(n)
    OBVIOUS
  <2>2. /\ timer_list[pos].start \in Timeval
        /\ timer_list[pos].over \in Timeval
    <3>1. pos \in 1..Len(timer_list)
      BY <1>1, LenProperties DEF TimerSkip, AtTimer
    <3>2. timer_list[pos] \in Timer
      BY <3>1, ElementOfSeq
    <3> QED
      BY <3>2 DEF Timer
  <2>3. ~is_overtime(timer_list[pos].start, passStart, timer_list[pos].over)
    BY <1>1, <2>1, <2>2, NotDueEarlier DEF TimerSkip, AtTimer, Now, ControlInv, ControlTypeOK
  <2> QED
    BY <1>1, <2>3, LenProperties DEF TimerSkip, AtTimer
<1>2. CASE TimerFire
  BY <1>2 DEF TimerFire, AtTimer
<1>3. CASE TimerPassDone
  BY <1>3, LenProperties DEF TimerPassDone
<1> QED
  BY <1>1, <1>2, <1>3 DEF TimerLoop

LEMMA TimerReturnInv ==
  ASSUME TimerInv, ControlInv, TimerReturn, UNCHANGED now
  PROVE  TimerInv'
<1>1. timer_list \in Seq(Timer) /\ pos \in 1..Len(timer_list)
  BY LenProperties DEF TimerInv, TimerTypeOK, RunningIsAtPos, TimerReturn
<1>2. /\ timer_list' \in Seq(Timer)
      /\ Len(timer_list') = Len(timer_list) - 1
      /\ \A i \in 1..Len(timer_list') :
           timer_list'[i] = IF i < pos THEN timer_list[i] ELSE timer_list[i + 1]
  BY <1>1, EraseOne DEF TimerReturn
<1>3. /\ DOMAIN timer_list = 1..Len(timer_list) /\ Len(timer_list) \in Nat
      /\ DOMAIN timer_list' = 1..(Len(timer_list) - 1)
  BY <1>1, <1>2, LenProperties
<1>4. at = "timers" /\ at' = "timers"
  BY DEF TimerReturn, HandlerReturn, ControlInv, CallbackInItsPass
<1> QED
  BY <1>1, <1>2, <1>3, <1>4, TimerAssumption
  DEF TimerInv, TimerTypeOK, RunningIsAtPos, PassedNotDue, NoDueTimerLeft, TimerReturn,
      HandlerReturn

LEMMA TimerOtherInv ==
  ASSUME TimerInv, UNCHANGED timerVars, now \in Nat, now' \in Nat, now <= now',
         at' = at \/ at' \notin {"timers", "cusSweep"},
         running' = running \/ running' \notin TimerIds
  PROVE  TimerInv'
<1>1. PassedNotDue'
  <2>1. PICK n \in 0..now : passStart = FromMicros(n)
    BY DEF TimerInv, PassedNotDue
  <2>2. n \in 0..now' /\ passStart' = FromMicros(n)
    BY <2>1 DEF timerVars
  <2> QED
    BY <2>2 DEF TimerInv, PassedNotDue, timerVars
<1> QED
  BY <1>1 DEF TimerInv, TimerTypeOK, RunningIsAtPos, NoDueTimerLeft, timerVars

-------------------------------------------------------------------------------
(* The library.                                                            *)

LEMMA InitInv == Init => IInv
<1> SUFFICES ASSUME Init PROVE IInv
  OBVIOUS
<1> USE DEF Init, ControlInit, IoInit, CusInit, TimerInit
<1>1. ControlInv
  BY IoAssumption, CusAssumption, TimerAssumption
  DEF ControlInv, ControlTypeOK, CallbackInItsPass, Places
<1>2. IoInv
  BY DEF IoInv, IoTypeOK, RegisteredHasEntry, EntryIsLive, SpentIsLeaving
<1>3. Zero \in Timeval /\ Zero = FromMicros(0)
  BY MillionAssumption DEF Zero, Timeval, FromMicros
<1>4. CusInv
  BY <1>3 DEF CusInv, CusTypeOK, CopyIsLive, NoCall
<1>5. TimerInv
  BY <1>3, TimerAssumption, EmptySeq DEF TimerInv, TimerTypeOK, RunningIsAtPos, PassedNotDue, NoDueTimerLeft
<1> QED
  BY <1>1, <1>2, <1>4, <1>5
  DEF IInv, TypeOK, ControlInv, IoInv, CusInv, TimerInv, CrashOnlyInTeardown

\* The control part, over every step.
LEMMA ControlStep ==
  ASSUME ControlInv, IoInv, CusInv, TimerInv, Next
  PROVE  ControlInv'
<1> USE IoAssumption, CusAssumption, TimerAssumption, LoopAssumption
    DEF ControlInv, ControlTypeOK, CallbackInItsPass, Places, LoopAt, Goto, Call, HandlerReturn,
        controlVars
<1>1. CASE Client /\ UNCHANGED now
  BY <1>1 DEF Client, sev_loop, sev_stop, sev_free_base
<1>2. CASE Loop /\ UNCHANGED now
  <2>1. CASE LoopTop
    BY <1>2, <2>1 DEF LoopTop
  <2>2. CASE TimerLoop
    <3>1. CASE TimerFire
      <4>1. timer_list[pos] \in Timer
        BY <3>1, ElementOfSeq, LenProperties DEF TimerFire, AtTimer, TimerInv, TimerTypeOK
      <4> QED
        BY <1>2, <3>1, <4>1 DEF TimerFire, AtTimer, Timer
    <3> QED
      BY <1>2, <2>2, <3>1 DEF TimerLoop, TimerSkip, TimerPassDone
  <2>3. CASE CusLoop
    BY <1>2, <2>3 DEF CusLoop, CusSweep, CusSkip, CusFire, mark_cus_event, CusPassDone
  <2>4. CASE IoLoop
    BY <1>2, <2>4 DEF IoLoop, IoSweep, IoWait, IoDispatch, mark_io_event, IoDispatchNull, IoPassDone,
                      IoInv, IoTypeOK
  <2> QED
    BY <1>2, <2>1, <2>2, <2>3, <2>4 DEF Loop
<1>3. CASE Return /\ UNCHANGED now
  BY <1>3 DEF Return, IoReturn, CusReturn, TimerReturn
<1>4. CASE Tick
  BY <1>4 DEF Tick
<1> QED
  BY <1>1, <1>2, <1>3, <1>4 DEF Next

\* Every step of the library, the program and the clock preserves the
\* inductive invariant.
LEMMA StepInv == IInv /\ [Next]_vars => IInv'
<1> SUFFICES ASSUME IInv, [Next]_vars PROVE IInv'
  OBVIOUS
<1>0. ControlInv /\ IoInv /\ CusInv /\ TimerInv /\ now \in Nat /\ CrashOnlyInTeardown
  BY DEF IInv, TypeOK, ControlInv, ControlTypeOK
<1> USE <1>0
<1> DEFINE Parts == ControlInv /\ IoInv /\ CusInv /\ TimerInv /\ CrashOnlyInTeardown
<1>q. Parts' => IInv'
  BY DEF IInv, TypeOK, ControlInv, IoInv, CusInv, TimerInv
<1>1. CASE UNCHANGED vars
  BY <1>1, <1>0, IoOtherInv, CusOtherInv, TimerOtherInv, <1>q
  DEF vars, controlVars, ControlInv, ControlTypeOK, CallbackInItsPass, CrashOnlyInTeardown,
      Uncallable, timerVars
<1>2. ASSUME Next PROVE IInv'
  <2>c. ControlInv'
    BY <1>2, ControlStep
  <2>n. now' \in Nat
    BY <2>c DEF ControlInv, ControlTypeOK
  <2>1. CASE Tick /\ IoUnchanged /\ CusUnchanged /\ TimerUnchanged
    <3>1. IoInv' /\ CusInv'
      BY <2>1, IoOtherInv, CusOtherInv DEF Tick, controlVars, IoUnchanged, CusUnchanged
    <3>2. TimerInv'
      BY <2>1, <2>n, TimerOtherInv DEF Tick, controlVars, TimerUnchanged
    <3>3. CrashOnlyInTeardown'
      BY <2>1 DEF Tick, controlVars, TimerUnchanged, timerVars, CrashOnlyInTeardown, Uncallable
    <3> QED
      BY <2>c, <3>1, <3>2, <3>3, <1>q
  <2>2. CASE Client /\ UNCHANGED now
    <3>1. CASE (sev_loop \/ sev_stop) /\ IoUnchanged /\ CusUnchanged /\ TimerUnchanged
      <4>1. at' # "crashed" \/ at' = at
        BY <3>1 DEF sev_loop, sev_stop, Goto
      <4>2. IoInv' /\ CusInv'
        BY <3>1, IoOtherInv, CusOtherInv
        DEF sev_loop, sev_stop, LoopAt, Goto, IoUnchanged, CusUnchanged, Ended
      <4>3. TimerInv'
        BY <2>2, <3>1, <2>n, TimerOtherInv DEF sev_loop, sev_stop, LoopAt, Goto, TimerUnchanged
      <4>4. CrashOnlyInTeardown'
        BY <3>1, <4>1 DEF TimerUnchanged, timerVars, CrashOnlyInTeardown, Uncallable
      <4> QED
        BY <2>c, <4>2, <4>3, <4>4, <1>q
    <3>2. CASE IoClient /\ UNCHANGED controlVars /\ CusUnchanged /\ TimerUnchanged
      <4>1. IoInv' /\ CusInv'
        BY <3>2, IoClientInv, CusOtherInv DEF CusUnchanged, controlVars
      <4>2. TimerInv' /\ CrashOnlyInTeardown'
        BY <2>2, <3>2, <2>n, TimerOtherInv
        DEF TimerUnchanged, controlVars, timerVars, CrashOnlyInTeardown, Uncallable
      <4> QED
        BY <2>c, <4>1, <4>2, <1>q
    <3>3. CASE CusClient /\ UNCHANGED controlVars /\ IoUnchanged /\ TimerUnchanged
      <4>1. IoInv' /\ CusInv'
        BY <3>3, CusClientInv, IoOtherInv DEF IoUnchanged, controlVars
      <4>2. TimerInv' /\ CrashOnlyInTeardown'
        BY <2>2, <3>3, <2>n, TimerOtherInv
        DEF TimerUnchanged, controlVars, timerVars, CrashOnlyInTeardown, Uncallable
      <4> QED
        BY <2>c, <4>1, <4>2, <1>q
    <3>4. CASE TimerClient /\ UNCHANGED controlVars /\ IoUnchanged /\ CusUnchanged
      <4>1. IoInv' /\ CusInv'
        BY <3>4, IoOtherInv, CusOtherInv DEF IoUnchanged, CusUnchanged, controlVars
      <4>2. TimerInv'
        BY <2>2, <3>4, TimerClientInv DEF controlVars
      <4>3. at # "crashed"
        BY <3>4, ClientBeforeEnd DEF TimerClient, set_timer, Ended
      <4> QED
        BY <2>c, <3>4, <4>1, <4>2, <4>3, <1>q DEF controlVars, CrashOnlyInTeardown
    <3>5. CASE sev_free_base
      <4>1. IoInv' /\ CusInv'
        BY <3>5, IoClearInv, CusClearInv DEF sev_free_base, LoopAt, Goto, Ended
      <4>2. CASE Uncallable /\ Goto("crashed") /\ TimerUnchanged
        <5>1. TimerInv' /\ CrashOnlyInTeardown'
          BY <2>2, <2>n, <4>2, TimerOtherInv
          DEF Goto, TimerUnchanged, timerVars, CrashOnlyInTeardown, Uncallable
        <5> QED
          BY <2>c, <4>1, <5>1, <1>q
      <4>3. CASE ~Uncallable /\ Goto("freed") /\ TimerClear
        <5>1. TimerInv'
          BY <2>2, <3>5, <4>3, TimerAssumption, EmptySeq
          DEF Goto, TimerClear, TimerInv, TimerTypeOK, RunningIsAtPos, PassedNotDue,
              NoDueTimerLeft, sev_free_base, LoopAt
        <5> QED
          BY <2>c, <4>1, <4>3, <5>1, <1>q DEF Goto, CrashOnlyInTeardown
      <4> QED
        BY <3>5, <4>2, <4>3 DEF sev_free_base
    <3> QED
      BY <2>2, <3>1, <3>2, <3>3, <3>4, <3>5 DEF Client
  <2>3. CASE Loop /\ UNCHANGED now
    <3>1. CASE LoopTop
      <4>1. IoInv' /\ CusInv'
        BY <3>1, IoOtherInv, CusOtherInv
        DEF LoopTop, LoopAt, Goto, IoUnchanged, CusUnchanged, Ended
      <4>2. at' # "crashed"
        BY <3>1 DEF LoopTop, Goto
      <4>3. CASE stop /\ Goto("exit") /\ TimerUnchanged
        BY <2>3, <4>1, <4>2, <4>3, <2>c, <2>n, <1>q, TimerOtherInv
        DEF Goto, TimerUnchanged, CrashOnlyInTeardown
      <4>4. CASE ~stop /\ Goto("timers") /\ TimerPassBegin
        <5>1. now \in 0..now' /\ Now = FromMicros(now) /\ Now \in Timeval
          BY <2>3, FromMicrosType DEF Now
        <5>2. TimerInv'
          BY <3>1, <4>4, <5>1, LenProperties, TimerAssumption
          DEF Goto, TimerPassBegin, TimerInv, TimerTypeOK, RunningIsAtPos, PassedNotDue,
              NoDueTimerLeft, LoopTop, LoopAt
        <5> QED
          BY <2>c, <4>1, <4>2, <5>2, <1>q DEF CrashOnlyInTeardown
      <4> QED
        BY <3>1, <4>3, <4>4 DEF LoopTop
    <3>2. CASE TimerLoop /\ IoUnchanged /\ CusUnchanged
      <4>1. /\ at' # "crashed"
            /\ at' = at \/ (at = "timers" /\ at # "ioRun" /\ at # "cusRun" /\ at' # "ioWait")
        BY <3>2 DEF TimerLoop, TimerSkip, TimerFire, TimerPassDone, AtTimer, LoopAt, Call, Goto,
                    controlVars
      <4>2. IoInv' /\ CusInv'
        BY <3>2, <4>1, IoOtherInv, CusOtherInv DEF IoUnchanged, CusUnchanged, Ended
      <4>3. TimerInv'
        BY <2>3, <3>2, TimerLoopInv
      <4> QED
        BY <2>c, <4>1, <4>2, <4>3, <1>q DEF CrashOnlyInTeardown
    <3>3. CASE CusLoop /\ IoUnchanged /\ TimerUnchanged
      <4>1. /\ at' \notin {"crashed", "timers", "cusSweep"}
            /\ at' = at \/ (at # "ioRun" /\ at \notin Ended /\ at' # "ioWait")
            /\ running' = running \/ running' \in CusEvents
        BY <3>3 DEF CusLoop, CusSweep, CusSkip, CusFire, mark_cus_event, CusPassDone, LoopAt, Call, Goto,
                    controlVars, Ended
      <4>2. IoInv' /\ CusInv'
        BY <3>3, <4>1, IoOtherInv, CusLoopInv DEF IoUnchanged
      <4>3. TimerInv'
        BY <2>3, <3>3, <2>n, <4>1, TimerOtherInv, LoopAssumption DEF TimerUnchanged
      <4> QED
        BY <2>c, <4>1, <4>2, <4>3, <1>q DEF CrashOnlyInTeardown
    <3>4. CASE IoLoop /\ CusUnchanged /\ TimerUnchanged
      <4>1. IoInv' /\ at' # "crashed"
        BY <3>4, IoLoopInv
      <4>2. /\ at' \notin {"timers", "cusSweep"}
            /\ at' = at \/ (at # "cusRun" /\ at \notin Ended)
            /\ running' = running \/ running' \in IoEvents
        BY <3>4 DEF IoLoop, IoSweep, IoWait, IoDispatch, mark_io_event, IoDispatchNull, IoPassDone, LoopAt,
                    Call, Goto, Ended, IoInv, IoTypeOK
      <4>3. CusInv'
        BY <3>4, <4>2, CusOtherInv DEF CusUnchanged
      <4>4. TimerInv'
        BY <2>3, <3>4, <2>n, <4>2, TimerOtherInv, LoopAssumption DEF TimerUnchanged
      <4> QED
        BY <2>c, <4>1, <4>3, <4>4, <1>q DEF CrashOnlyInTeardown
    <3> QED
      BY <2>3, <3>1, <3>2, <3>3, <3>4 DEF Loop
  <2>4. CASE Return /\ UNCHANGED now
    <3>0. at' = at /\ running' = Nobody /\ at # "crashed" /\ Nobody \notin TimerIds
      BY <2>4, IoAssumption, CusAssumption, TimerAssumption
      DEF Return, IoReturn, CusReturn, TimerReturn, HandlerReturn, ControlInv, CallbackInItsPass
    <3>1. CASE IoReturn /\ CusUnchanged /\ TimerUnchanged
      BY <2>4, <3>0, <3>1, <2>c, <2>n, <1>q, IoOtherInv, CusOtherInv, TimerOtherInv
      DEF IoReturn, CusUnchanged, TimerUnchanged, CrashOnlyInTeardown
    <3>2. CASE CusReturn /\ IoUnchanged /\ TimerUnchanged
      BY <2>4, <3>0, <3>2, <2>c, <2>n, <1>q, IoOtherInv, CusReturnInv, TimerOtherInv
      DEF IoUnchanged, TimerUnchanged, CrashOnlyInTeardown
    <3>3. CASE TimerReturn /\ IoUnchanged /\ CusUnchanged
      BY <2>4, <3>0, <3>3, <2>c, <1>q, IoOtherInv, CusOtherInv, TimerReturnInv
      DEF IoUnchanged, CusUnchanged, CrashOnlyInTeardown
    <3> QED
      BY <2>4, <3>1, <3>2, <3>3 DEF Return
  <2> QED
    BY <1>2, <2>1, <2>2, <2>3, <2>4 DEF Next
<1> QED
  BY <1>1, <1>2

\* The inductive invariant holds throughout.
THEOREM Invariance == Spec => []IInv
  BY InitInv, StepInv, PTL DEF Spec

\* Type correctness of the whole library.
THEOREM TypeCorrectness == Spec => []TypeOK
<1>1. IInv => TypeOK
  BY DEF IInv
<1> QED
  BY <1>1, Invariance, PTL

\* The library ends the process in one way only: sev_free_base with a
\* pending timer that has no free_cb.  In particular the dispatch never reads
\* through a NULL event (simple_event.c 181-187).
THEOREM NoCrashInTheLoop == Spec => []CrashOnlyInTeardown
<1>1. IInv => CrashOnlyInTeardown
  BY DEF IInv
<1> QED
  BY <1>1, Invariance, PTL

\* Every registration with the kernel has an entry in the map: what epoll_wait
\* delivers is found there (simple_event.c 181-187).
THEOREM EpollMirrored == Spec => []RegisteredHasEntry
<1>1. IInv => RegisteredHasEntry
  BY DEF IInv, IoInv
<1> QED
  BY <1>1, Invariance, PTL

\* An entry of the map has a live object: whatever handlers free, the sweep and
\* the dispatch read no freed event.
THEOREM EntriesAreLive == Spec => []EntryIsLive
<1>1. IInv => EntryIsLive
  BY DEF IInv, IoInv
<1> QED
  BY <1>1, Invariance, PTL

\* A one-shot registration the kernel has disabled is on its way out: it is never
\* left behind, registered and deaf.
THEOREM SpentOnesLeave == Spec => []SpentIsLeaving
<1>1. IInv => SpentIsLeaving
  BY DEF IInv, IoInv
<1> QED
  BY <1>1, Invariance, PTL

\* The pass over custom events never calls a freed event.
THEOREM CopyStaysLive == Spec => []CopyIsLive
<1>1. IInv => CopyIsLive
  BY DEF IInv, CusInv
<1> QED
  BY <1>1, Invariance, PTL

\* While a timer's callback runs the iterator of the pass is at that timer,
\* whatever timers the callback sets: it is the one erased afterwards.
THEOREM PassHoldsItsTimer == Spec => []RunningIsAtPos
<1>1. IInv => RunningIsAtPos
  BY DEF IInv, TimerInv
<1> QED
  BY <1>1, Invariance, PTL

\* The pass over the timers serves every timer that was due when it began.
THEOREM TimersServed == Spec => []NoDueTimerLeft
<1>1. IInv => NoDueTimerLeft
  BY DEF IInv, TimerInv
<1> QED
  BY <1>1, Invariance, PTL

-------------------------------------------------------------------------------
(* What a step may never do.                                               *)

\* An entry of the map parts ways with the epoll set only when its
\* descriptor is closed; no operation of the library causes it.
THEOREM MirrorBrokenOnlyByClose == Spec => StaleOnlyByClose
<1>1. ASSUME IInv, [Next]_vars, NEW fd \in Fds, Stale(fd)', ~Stale(fd)
      PROVE  fd \notin open'
  <2> USE <1>1, IoAssumption
      DEF Stale, IInv, IoInv, IoTypeOK, RegisteredHasEntry
  <2>1. ASSUME IoUnchanged PROVE FALSE
    BY <2>1 DEF IoUnchanged, ioVars
  <2>2. CASE IoClient
    <3>1. ASSUME NEW f \in Fds, OpenFd(f) \/ CloseFd(f) PROVE fd \notin open'
      BY <3>1 DEF OpenFd, CloseFd
    <3>2. ASSUME NEW e \in IoEvents, add_io_event(e) PROVE FALSE
      BY <3>2 DEF add_io_event, insert_io_event, EpollAddFails, ioVars
    <3>3. ASSUME NEW e \in IoEvents, new_io_event(e) \/ free_io_event(e) PROVE FALSE
      BY <3>3 DEF new_io_event, free_io_event
    <3>4. ASSUME NEW f \in Fds, NEW free \in BOOLEAN, remove_io_event(f, free) PROVE FALSE
      BY <3>4 DEF remove_io_event
    <3> QED
      BY <2>2, <3>1, <3>2, <3>3, <3>4 DEF IoClient
  <2>3. CASE IoLoop
    <3>1. ASSUME NEW f \in Fds, IoDispatch(f) \/ IoDispatchNull(f) PROVE FALSE
      BY <3>1 DEF IoDispatch, IoDispatchNull, ioVars
    <3> QED
      BY <2>3, <3>1 DEF IoLoop, IoSweep, remove_marked, IoWait, IoPassDone, ioVars
  <2>4. CASE sev_free_base
    BY <2>4 DEF sev_free_base, IoClear
  <2>5. CASE IoReturn
    BY <2>5 DEF IoReturn, ioVars
  <2>6. CASE UNCHANGED vars
    BY <2>6 DEF vars, ioVars
  <2> QED
    BY <2>1, <2>2, <2>3, <2>4, <2>5, <2>6 DEF Next, Client, Loop, LoopTop, Return
<1>2. IInv /\ [Next]_vars => \A fd \in Fds : Stale(fd)' /\ ~Stale(fd) => fd \notin open'
  BY <1>1
<1> QED
  BY <1>2, Invariance, PTL DEF Spec, StaleOnlyByClose

\* No activation of a custom event is lost: a bit it listens to goes only to
\* the call of its handler, or with the event itself.
THEOREM ActivationsAreNotLost == Spec => NoLostTrigger
<1> DEFINE Kept == \A e \in cusLive : \A b \in Trigger(e) :
                     b \in status'[e] \/ e \notin cusLive' \/ (running' = e /\ b \in call'.event)
<1>1. ASSUME IInv, [Next]_vars, NEW e \in cusLive, NEW b \in Trigger(e)
      PROVE  b \in status'[e] \/ e \notin cusLive' \/ (running' = e /\ b \in call'.event)
  <2> USE <1>1, CusAssumption DEF IInv, CusInv, CusTypeOK, Trigger
  <2>1. ASSUME CusUnchanged PROVE b \in status'[e]
    BY <2>1 DEF CusUnchanged, cusVars
  <2>2. CASE CusClient
    <3>1. ASSUME NEW f \in CusEvents, new_cus_event(f) PROVE b \in status'[e]
      BY <3>1 DEF new_cus_event, ZeroObject
    <3>2. ASSUME NEW f \in CusEvents, free_cus_event(f)
          PROVE  b \in status'[e] \/ e \notin cusLive'
      BY <3>2 DEF free_cus_event, ZeroObject
    <3>3. ASSUME NEW f \in CusEvents, NEW c \in Bits, active_cus_event(f, c)
          PROVE  b \in status'[e]
      BY <3>3 DEF active_cus_event
    <3>4. ASSUME NEW f \in CusEvents, NEW d \in Durations \cup {Nobody}, add_cus_event(f, d)
          PROVE  b \in status'[e]
      BY <3>4 DEF add_cus_event
    <3>5. ASSUME NEW id \in Ids, remove_cus_event(id) PROVE b \in status'[e]
      BY <3>5 DEF remove_cus_event
    <3> QED
      BY <2>2, <3>1, <3>2, <3>3, <3>4, <3>5 DEF CusClient
  <2>3. CASE CusLoop
    <3>1. ASSUME NEW f \in CusEvents, CusFire(f)
          PROVE  b \in status'[e] \/ (running' = e /\ b \in call'.event)
      BY <3>1 DEF CusFire, Call
    <3> QED
      BY <2>3, <3>1 DEF CusLoop, CusSweep, CusSkip, CusPassDone, cusVars
  <2>4. CASE sev_free_base
    BY <2>4 DEF sev_free_base, CusClear
  <2>5. CASE CusReturn
    BY <2>5 DEF CusReturn
  <2>6. CASE UNCHANGED vars
    BY <2>6 DEF vars, cusVars
  <2> QED
    BY <2>1, <2>2, <2>3, <2>4, <2>5, <2>6 DEF Next, Client, Loop, LoopTop, Return
<1>2. IInv /\ [Next]_vars => Kept
  BY <1>1
<1> QED
  BY <1>2, Invariance, PTL DEF Spec, NoLostTrigger

-------------------------------------------------------------------------------
(* Both halves of the library implement EventRegistry: every step of the   *)
(* library is, under the mapping EventLoop gives, a step of the registry   *)
(* or none.  Custom events.                                                *)

CusAbstract == <<CusArmed, CusLingering, CusHandling>>

LEMMA CusClientMaps ==
  ASSUME CusInv, ControlInv, CusClient, UNCHANGED controlVars
  PROVE  CusRegistry!Next \/ UNCHANGED CusAbstract
<1> USE CusAssumption DEF CusInv, CusTypeOK, CopyIsLive, Entered, CusAbstract, CusArmed, CusLingering,
                          CusHandling, controlVars
<1>1. ASSUME NEW e \in CusEvents, new_cus_event(e)
      PROVE  UNCHANGED CusAbstract
  <2>0. at \notin Ended /\ e \notin cusLive
    BY <1>1, ClientBeforeEnd DEF new_cus_event
  <2>1. ~Entered(e) /\ e \notin copy
    <3>1. CusId[e] \in Ids /\ e # Nobody
      OBVIOUS
    <3> QED
      BY <2>0, <3>1
  <2>2. CusArmed' = CusArmed
    BY <1>1, <2>1 DEF new_cus_event, ZeroObject
  <2>3. CusLingering' = CusLingering
    BY <1>1, <2>1 DEF new_cus_event, ZeroObject
  <2> QED
    BY <2>2, <2>3
<1>2. ASSUME NEW e \in CusEvents, free_cus_event(e)
      PROVE  CusRegistry!Next \/ UNCHANGED CusAbstract
  <2>1. CASE e \in CusArmed
    <3>1. CusRegistry!Disarm(e)
      BY <1>2, <2>1 DEF free_cus_event, ZeroObject, CusRegistry!Disarm
    <3> QED
      BY <3>1 DEF CusRegistry!Next
  <2>2. CASE e \notin CusArmed
    BY <1>2, <2>2, ClientBeforeEnd DEF free_cus_event, ZeroObject, Ended
  <2> QED
    BY <2>1, <2>2
<1>3. ASSUME NEW e \in CusEvents, NEW d \in Durations \cup {Nobody}, add_cus_event(e, d)
      PROVE  CusRegistry!Next \/ UNCHANGED CusAbstract
  <2>1. CusRegistry!Arm(e) \/ UNCHANGED CusAbstract
    BY <1>3 DEF add_cus_event, insert_cus_event, CusRegistry!Arm
  <2> QED
    BY <2>1 DEF CusRegistry!Next
<1>4. ASSUME NEW e \in CusEvents, NEW b \in Bits, active_cus_event(e, b)
      PROVE  UNCHANGED CusAbstract
  BY <1>4 DEF active_cus_event
<1>5. ASSUME NEW id \in Ids, remove_cus_event(id)
      PROVE  CusRegistry!Next \/ UNCHANGED CusAbstract
  <2>1. PICK e \in CusEvents : e = cus_event_list[id]
    BY <1>5 DEF remove_cus_event, mark_cus_event
  <2>2. /\ cusRemove' = cusRemove \cup {e}
        /\ UNCHANGED <<cusLive, cus_event_list, copy, running>>
    BY <1>5, <2>1 DEF remove_cus_event, mark_cus_event
  <2>3. CusArmed' = CusArmed \ {e} /\ UNCHANGED CusHandling
    BY <2>2
  <2>4. CusLingering' \in {CusLingering, CusLingering \cup {e}}
    <3>1. CASE e \in copy
      BY <2>1, <2>2, <3>1
    <3>2. CASE e \notin copy
      BY <2>1, <2>2, <3>2
    <3> QED
      BY <3>1, <3>2
  <2>5. CASE e \in CusArmed
    <3>1. CusRegistry!Disarm(e)
      BY <2>3, <2>4, <2>5 DEF CusRegistry!Disarm
    <3> QED
      BY <2>1, <3>1 DEF CusRegistry!Next
  <2>6. CASE e \notin CusArmed
    <3>1. Entered(e) /\ e \in CusEvents
      BY <1>5, <2>1 DEF remove_cus_event, mark_cus_event
    <3>2. e \in cusRemove \/ e \notin cusLive
      BY <2>6, <3>1
    <3>3. e \in cusLive
      BY <1>5, <2>1, ClientBeforeEnd DEF remove_cus_event, mark_cus_event
    <3> QED
      BY <2>2, <3>2, <3>3
  <2> QED
    BY <2>5, <2>6
<1> QED
  BY <1>1, <1>2, <1>3, <1>4, <1>5 DEF CusClient

LEMMA CusLoopMaps ==
  ASSUME CusInv, ControlInv, CusLoop
  PROVE  CusRegistry!Next \/ UNCHANGED CusAbstract
<1> USE CusAssumption DEF CusInv, CusTypeOK, CopyIsLive, Entered, CusAbstract, CusArmed, CusLingering,
                          CusHandling, LoopAt, Goto, Call, controlVars
<1>1. CASE CusSweep
  BY <1>1 DEF CusSweep
<1>2. ASSUME NEW e \in CusEvents, CusSkip(e)
      PROVE  CusRegistry!Forget(e) \/ UNCHANGED CusAbstract
  BY <1>2 DEF CusSkip, CusRegistry!Forget
<1>3. ASSUME NEW e \in CusEvents, CusFire(e)
      PROVE  CusRegistry!Fire(e)
  <2>0. e \in copy
    BY <1>3 DEF CusFire, mark_cus_event, NextInCopy
  <2>1. e \in cusLive /\ cus_event_list[CusId[e]] = e /\ e # Nobody
    BY <2>0
  <2>2. /\ cusRemove' = IF CusPersist[e] THEN cusRemove ELSE cusRemove \cup {e}
        /\ copy' = copy \ {e}
        /\ running = Nobody /\ running' = e
        /\ UNCHANGED <<cusLive, cus_event_list>>
    <3>1. {cus_event_list[CusId[e]]} \ {Nobody} = {e}
      BY <2>1
    <3> QED
      BY <1>3, <3>1 DEF CusFire, mark_cus_event
  <2>3. e \in CusArmed \cup CusLingering
    BY <2>0, <2>1
  <2>4. CusHandling = Nobody /\ CusHandling' = e
    BY <2>2
  <2>5. CusArmed' = IF CusPersist[e] THEN CusArmed ELSE CusArmed \ {e}
    BY <2>2
  <2>6. CusLingering' = CusLingering \ {e}
    BY <2>2
  <2> QED
    BY <2>3, <2>4, <2>5, <2>6 DEF CusRegistry!Fire
<1>4. CASE CusPassDone
  BY <1>4 DEF CusPassDone, cusVars
<1> QED
  BY <1>1, <1>2, <1>3, <1>4 DEF CusLoop, CusRegistry!Next

\* A step that leaves the custom events alone, or only returns from one.
LEMMA CusOtherMaps ==
  ASSUME UNCHANGED cusVars, UNCHANGED CusHandling
  PROVE  UNCHANGED CusAbstract
BY DEF cusVars, CusAbstract, CusArmed, CusLingering, Entered

\* The library's custom events keep the promise of EventRegistry.
THEOREM CusRefinesRegistry == Spec => CusKeepsPromise
<1>1. Init => CusRegistry!Init
  BY CusAssumption
  DEF Init, ControlInit, CusInit, CusRegistry!Init, CusArmed, CusLingering, CusHandling
<1>2. IInv /\ [Next]_vars => [CusRegistry!Next]_(CusRegistry!vars)
  <2> SUFFICES ASSUME IInv, [Next]_vars PROVE CusRegistry!Next \/ UNCHANGED CusAbstract
    BY DEF CusAbstract, CusRegistry!vars
  <2>0. ControlInv /\ CusInv /\ IoInv /\ TimerInv
    BY DEF IInv, TypeOK, ControlInv
  <2>1. CASE UNCHANGED vars
    BY <2>1, CusOtherMaps DEF vars, controlVars, CusHandling
  <2>2. CASE CusClient /\ UNCHANGED controlVars
    BY <2>0, <2>2, CusClientMaps
  <2>3. CASE CusLoop
    BY <2>0, <2>3, CusLoopMaps
  <2>4. CASE CusReturn
    <3>1. UNCHANGED <<CusArmed, CusLingering>>
      BY <2>4 DEF CusReturn, CusArmed, CusLingering, Entered
    <3>2. CusHandling # Nobody /\ CusHandling' = Nobody
      BY <2>4, CusAssumption DEF CusReturn, CusHandling, HandlerReturn
    <3> QED
      BY <3>1, <3>2 DEF CusRegistry!Next, CusRegistry!Return
  <2>5. CASE sev_free_base
    <3>1. copy = {} /\ running = Nobody /\ UNCHANGED <<copy, running, cusLive>>
      BY <2>0, <2>5 DEF sev_free_base, LoopAt, CusInv, CusClear, Goto
    <3>2. CusHandling = Nobody /\ CusHandling' = Nobody /\ CusLingering' = {}
      BY <3>1 DEF CusHandling, CusLingering
    <3>3. CusArmed' = {}
      BY <2>0, <2>5, <3>1, CusAssumption
      DEF sev_free_base, CusClear, CusArmed, Entered, CusInv, CusTypeOK
    <3> QED
      BY <3>2, <3>3 DEF CusRegistry!Next, CusRegistry!Clear
  <2>6. CASE CusUnchanged /\ UNCHANGED CusHandling
    BY <2>6, CusOtherMaps DEF CusUnchanged
  <2>7. CASE Client /\ ~(CusClient /\ UNCHANGED controlVars) /\ ~sev_free_base
    BY <2>7, <2>6 DEF Client, sev_loop, sev_stop, Goto, controlVars, CusHandling
  <2>8. CASE Loop /\ ~CusLoop
    <3>1. CASE LoopTop
      BY <3>1, <2>6 DEF LoopTop, Goto, CusHandling
    <3>2. CASE TimerLoop /\ CusUnchanged
      <4>1. running' = running \/ (running = Nobody /\ running' \notin CusEvents)
        <5>1. CASE TimerFire
          <6>1. timer_list[pos].tm \in TimerIds
            <7>1. timer_list[pos] \in Timer
              BY <2>0, <5>1, ElementOfSeq, LenProperties
              DEF TimerFire, AtTimer, TimerInv, TimerTypeOK
            <7> QED
              BY <7>1 DEF Timer
          <6> QED
            BY <5>1, <6>1, LoopAssumption DEF TimerFire, AtTimer, LoopAt, Call
        <5> QED
          BY <3>2, <5>1 DEF TimerLoop, TimerSkip, TimerPassDone, Goto, controlVars
      <4> QED
        BY <3>2, <4>1, <2>6, CusAssumption DEF CusHandling
    <3>3. CASE IoLoop /\ CusUnchanged
      <4>1. running' = running \/ (running = Nobody /\ running' \notin CusEvents)
        BY <3>3, <2>0, LoopAssumption
        DEF IoLoop, IoSweep, IoWait, IoDispatch, mark_io_event, IoDispatchNull, IoPassDone, Goto, LoopAt, Call,
            IoInv, IoTypeOK
      <4> QED
        BY <3>3, <4>1, <2>6, CusAssumption DEF CusHandling
    <3> QED
      BY <2>8, <3>1, <3>2, <3>3 DEF Loop
  <2>9. CASE Return /\ ~CusReturn
    BY <2>9, <2>6, LoopAssumption, CusAssumption
    DEF Return, IoReturn, TimerReturn, HandlerReturn, CusHandling
  <2>10. CASE Tick /\ CusUnchanged
    BY <2>10, <2>6 DEF Tick, controlVars, CusHandling
  <2> QED
    BY <2>1, <2>2, <2>3, <2>4, <2>5, <2>7, <2>8, <2>9, <2>10 DEF Next
<1> QED
  BY <1>1, <1>2, Invariance, PTL DEF Spec, CusKeepsPromise, CusRegistry!Spec

-------------------------------------------------------------------------------
(* I/O events.                                                             *)

IoAbstract == <<IoArmed, IoLingering, IoHandling>>

LEMMA IoClientMaps ==
  ASSUME IoInv, ControlInv, IoClient, UNCHANGED controlVars
  PROVE  IoRegistry!Next \/ UNCHANGED IoAbstract
<1> USE IoAssumption DEF IoInv, IoTypeOK, EntryIsLive, RegisteredHasEntry, Listed, IoAbstract,
                         IoArmed, IoLingering, IoHandling, controlVars
<1>1. ASSUME NEW fd \in Fds, OpenFd(fd) \/ CloseFd(fd)
      PROVE  UNCHANGED IoAbstract
  BY <1>1 DEF OpenFd, CloseFd
<1>2. ASSUME NEW e \in IoEvents, new_io_event(e)
      PROVE  UNCHANGED IoAbstract
  <2>0. at \notin Ended /\ e \notin ioLive
    BY <1>2, ClientBeforeEnd DEF new_io_event
  <2>1. ~Listed(e)
    <3>1. EvFd[e] \in Fds /\ e # Nobody
      OBVIOUS
    <3> QED
      BY <2>0, <3>1
  <2>2. IoArmed' = IoArmed
    BY <1>2, <2>1 DEF new_io_event
  <2>3. IoLingering' = IoLingering
    BY <1>2, <2>1 DEF new_io_event
  <2> QED
    BY <2>2, <2>3
<1>3. ASSUME NEW e \in IoEvents, free_io_event(e)
      PROVE  IoRegistry!Next \/ UNCHANGED IoAbstract
  <2>1. CASE e \in IoArmed
    <3>1. IoRegistry!Disarm(e)
      BY <1>3, <2>1 DEF free_io_event, IoRegistry!Disarm
    <3> QED
      BY <3>1 DEF IoRegistry!Next
  <2>2. CASE e \notin IoArmed
    BY <1>3, <2>2 DEF free_io_event
  <2> QED
    BY <2>1, <2>2
<1>4. ASSUME NEW e \in IoEvents, add_io_event(e)
      PROVE  IoRegistry!Next \/ UNCHANGED IoAbstract
  <2>1. CASE EpollAddFails(EvFd[e])
    BY <1>4, <2>1 DEF add_io_event, insert_io_event, ioVars
  <2>2. CASE ~EpollAddFails(EvFd[e])
    <3>1. /\ e \in ioLive
          /\ ioRemove' = ioRemove \ {e}
          /\ io_event_list' = [io_event_list EXCEPT ![EvFd[e]] = IF @ = Nobody THEN e ELSE @]
          /\ UNCHANGED <<ioLive, pending, running>>
      BY <1>4, <2>2 DEF add_io_event, insert_io_event
    <3>2. CASE io_event_list[EvFd[e]] \in {Nobody, e}
      <4>1. IoArmed' = IoArmed \cup {e}
        BY <3>1, <3>2
      <4>2. IoLingering' = IoLingering \ {e}
        BY <3>1, <3>2
      <4>3. IoRegistry!Arm(e)
        BY <3>1, <4>1, <4>2 DEF IoRegistry!Arm
      <4> QED
        BY <4>3 DEF IoRegistry!Next
    <3>3. CASE io_event_list[EvFd[e]] \notin {Nobody, e}
      <4>1. ~Listed(e) /\ io_event_list' = io_event_list
        BY <3>1, <3>3
      <4> QED
        BY <3>1, <4>1
    <3> QED
      BY <3>2, <3>3
  <2> QED
    BY <2>1, <2>2
<1>5. ASSUME NEW fd \in Fds, NEW free \in BOOLEAN, remove_io_event(fd, free)
      PROVE  IoRegistry!Next \/ UNCHANGED IoAbstract
  <2>1. PICK e \in IoEvents : e = io_event_list[fd]
    BY <1>5 DEF remove_io_event, mark_io_event
  <2>2. /\ ioRemove' = ioRemove \cup {e}
        /\ UNCHANGED <<ioLive, io_event_list, pending, running>>
    BY <1>5, <2>1 DEF remove_io_event, mark_io_event
  <2>3. IoArmed' = IoArmed \ {e} /\ UNCHANGED IoHandling
    BY <2>2
  <2>4. IoLingering' \in {IoLingering, IoLingering \cup {e}}
    BY <2>1, <2>2
  <2>5. CASE e \in IoArmed
    <3>1. IoRegistry!Disarm(e)
      BY <2>3, <2>4, <2>5 DEF IoRegistry!Disarm
    <3> QED
      BY <2>1, <3>1 DEF IoRegistry!Next
  <2>6. CASE e \notin IoArmed
    <3>1. Listed(e) /\ e \in ioLive
      BY <1>5, <2>1, ClientBeforeEnd DEF remove_io_event, mark_io_event
    <3> QED
      BY <2>2, <2>6, <3>1
  <2> QED
    BY <2>5, <2>6
<1> QED
  BY <1>1, <1>2, <1>3, <1>4, <1>5 DEF IoClient

LEMMA IoLoopMaps ==
  ASSUME IoInv, ControlInv, IoLoop
  PROVE  IoRegistry!Next \/ UNCHANGED IoAbstract
<1> USE IoAssumption DEF IoInv, IoTypeOK, EntryIsLive, RegisteredHasEntry, Listed, IoAbstract,
                         IoArmed, IoLingering, IoHandling, LoopAt, Goto, Call
<1>1. CASE IoSweep
  <2>1. /\ io_event_list' = [fd \in Fds |-> IF io_event_list[fd] \in ioRemove
                                             THEN Nobody ELSE io_event_list[fd]]
        /\ \A e \in IoEvents : e \in ioRemove' <=> e \in ioRemove /\ ~Listed(e)
        /\ \A e \in ioLive : Listed(e) /\ e \notin ioRemove => e \in ioLive'
        /\ ioLive' \subseteq ioLive
        /\ pending = {} /\ pending' = {} /\ running' = running
    BY <1>1 DEF IoSweep, remove_marked, Leaving
  <2>2. \A e \in IoEvents : Listed(e)' <=> Listed(e) /\ e \notin ioRemove
    BY <2>1
  <2>3. IoArmed' = IoArmed
    BY <2>1, <2>2
  <2>4. IoLingering' = {} /\ IoLingering = {}
    BY <2>1
  <2> QED
    BY <2>1, <2>3, <2>4
<1>2. CASE IoWait
  <2>1. /\ pending = {} /\ \A e \in IoEvents : Listed(e) => e \notin ioRemove
        /\ UNCHANGED <<ioLive, ioRemove, io_event_list, running>>
    BY <1>2 DEF IoWait, Leaving
  <2>2. IoLingering = {} /\ IoLingering' = {}
    BY <2>1
  <2> QED
    BY <2>1, <2>2
<1>3. ASSUME NEW fd \in Fds, IoDispatch(fd)
      PROVE  IoRegistry!Next
  <2>1. PICK e \in IoEvents : e = io_event_list[fd]
    BY <1>3 DEF IoDispatch, mark_io_event
  <2>2. /\ ioRemove' = IF EvPersist[e] THEN ioRemove ELSE ioRemove \cup {e}
        /\ pending' = pending \ {fd} /\ fd \in pending
        /\ running = Nobody /\ running' = e
        /\ at = "ioRun"
        /\ UNCHANGED <<ioLive, io_event_list>>
    BY <1>3, <2>1 DEF IoDispatch, mark_io_event
  <2>3. EvFd[e] = fd /\ e \in ioLive
    BY <2>1, <2>2 DEF Ended
  <2>4. e \in IoArmed \cup IoLingering
    BY <2>1, <2>2, <2>3
  <2>5. IoArmed' = IF EvPersist[e] THEN IoArmed ELSE IoArmed \ {e}
    BY <2>1, <2>2, <2>3
  <2>6. IoLingering' = IoLingering \ {e}
    BY <2>1, <2>2, <2>3
  <2>7. IoHandling = Nobody /\ IoHandling' = e
    BY <2>2
  <2>8. IoRegistry!Fire(e)
    BY <2>4, <2>5, <2>6, <2>7 DEF IoRegistry!Fire
  <2> QED
    BY <2>8 DEF IoRegistry!Next
<1>4. ASSUME NEW fd \in Fds, IoDispatchNull(fd)
      PROVE  UNCHANGED IoAbstract
  BY <1>4 DEF IoDispatchNull, ioVars
<1>5. CASE IoPassDone
  BY <1>5 DEF IoPassDone, ioVars
<1> QED
  BY <1>1, <1>2, <1>3, <1>4, <1>5 DEF IoLoop

\* A step that leaves the I/O events alone, or only returns from one.
LEMMA IoOtherMaps ==
  ASSUME UNCHANGED ioVars, UNCHANGED IoHandling
  PROVE  UNCHANGED IoAbstract
BY DEF ioVars, IoAbstract, IoArmed, IoLingering, Listed

\* The library's I/O events keep the promise of EventRegistry.
THEOREM IoRefinesRegistry == Spec => IoKeepsPromise
<1>1. Init => IoRegistry!Init
  BY IoAssumption
  DEF Init, ControlInit, IoInit, IoRegistry!Init, IoArmed, IoLingering, IoHandling
<1>2. IInv /\ [Next]_vars => [IoRegistry!Next]_(IoRegistry!vars)
  <2> SUFFICES ASSUME IInv, [Next]_vars PROVE IoRegistry!Next \/ UNCHANGED IoAbstract
    BY DEF IoAbstract, IoRegistry!vars
  <2>0. ControlInv /\ IoInv /\ CusInv /\ TimerInv
    BY DEF IInv, TypeOK, ControlInv
  <2>1. CASE UNCHANGED vars
    BY <2>1, IoOtherMaps DEF vars, controlVars, IoHandling
  <2>2. CASE IoClient /\ UNCHANGED controlVars
    BY <2>0, <2>2, IoClientMaps
  <2>3. CASE IoLoop
    BY <2>0, <2>3, IoLoopMaps
  <2>4. CASE IoReturn
    <3>1. UNCHANGED <<IoArmed, IoLingering>>
      BY <2>4 DEF IoReturn, IoArmed, IoLingering, Listed, ioVars
    <3>2. IoHandling # Nobody /\ IoHandling' = Nobody
      BY <2>4, IoAssumption DEF IoReturn, IoHandling, HandlerReturn
    <3> QED
      BY <3>1, <3>2 DEF IoRegistry!Next, IoRegistry!Return
  <2>5. CASE sev_free_base
    <3>1. pending = {} /\ running = Nobody /\ UNCHANGED <<pending, running, ioLive>>
      BY <2>0, <2>5 DEF sev_free_base, LoopAt, IoInv, IoClear, Goto
    <3>2. IoHandling = Nobody /\ IoHandling' = Nobody /\ IoLingering' = {}
      BY <3>1 DEF IoHandling, IoLingering
    <3>3. IoArmed' = {}
      BY <2>0, <2>5, <3>1, IoAssumption
      DEF sev_free_base, IoClear, IoArmed, Listed, IoInv, IoTypeOK
    <3> QED
      BY <3>2, <3>3 DEF IoRegistry!Next, IoRegistry!Clear
  <2>6. CASE IoUnchanged /\ UNCHANGED IoHandling
    BY <2>6, IoOtherMaps DEF IoUnchanged
  <2>7. CASE Client /\ ~(IoClient /\ UNCHANGED controlVars) /\ ~sev_free_base
    BY <2>7, <2>6 DEF Client, sev_loop, sev_stop, Goto, controlVars, IoHandling
  <2>8. CASE Loop /\ ~IoLoop
    <3>1. CASE LoopTop
      BY <3>1, <2>6 DEF LoopTop, Goto, IoHandling
    <3>2. CASE TimerLoop /\ IoUnchanged
      <4>1. running' = running \/ (running = Nobody /\ running' \notin IoEvents)
        <5>1. CASE TimerFire
          <6>1. timer_list[pos].tm \in TimerIds
            <7>1. timer_list[pos] \in Timer
              BY <2>0, <5>1, ElementOfSeq, LenProperties
              DEF TimerFire, AtTimer, TimerInv, TimerTypeOK
            <7> QED
              BY <7>1 DEF Timer
          <6> QED
            BY <5>1, <6>1, LoopAssumption DEF TimerFire, AtTimer, LoopAt, Call
        <5> QED
          BY <3>2, <5>1 DEF TimerLoop, TimerSkip, TimerPassDone, Goto, controlVars
      <4> QED
        BY <3>2, <4>1, <2>6, IoAssumption DEF IoHandling
    <3>3. CASE CusLoop /\ IoUnchanged
      <4>1. running' = running \/ (running = Nobody /\ running' \notin IoEvents)
        BY <3>3, <2>0, LoopAssumption
        DEF CusLoop, CusSweep, CusSkip, CusFire, mark_cus_event, CusPassDone, Goto, LoopAt, Call, controlVars
      <4> QED
        BY <3>3, <4>1, <2>6, IoAssumption DEF IoHandling
    <3> QED
      BY <2>8, <3>1, <3>2, <3>3 DEF Loop
  <2>9. CASE Return /\ ~IoReturn
    BY <2>9, <2>6, LoopAssumption, IoAssumption
    DEF Return, CusReturn, TimerReturn, HandlerReturn, IoHandling
  <2>10. CASE Tick /\ IoUnchanged
    BY <2>10, <2>6 DEF Tick, controlVars, IoHandling
  <2> QED
    BY <2>1, <2>2, <2>3, <2>4, <2>5, <2>7, <2>8, <2>9, <2>10 DEF Next
<1> QED
  BY <1>1, <1>2, Invariance, PTL DEF Spec, IoKeepsPromise, IoRegistry!Spec
===============================================================================
