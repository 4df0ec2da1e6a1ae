----------------------------- MODULE CustomEvents -----------------------------
(***************************************************************************)
(* Custom events: the map cus_event_list (id -> event) and the pass        *)
(* _cus_event_loop makes over a copy of it once per turn of the loop.  A   *)
(* custom event is handled when a bit it listens to is active, or when its *)
(* timeout has passed, or in every pass when it has no timeout.            *)
(*                                                                         *)
(* An event object is a member of the pool CusEvents with the id, the      *)
(* listened bits and the persistence its new_cus_event call gave it.       *)
(***************************************************************************)
EXTENDS SevControl

CONSTANTS
  CusEvents,    \* the pool of sev_custom_event objects
  Ids,          \* event ids
  Bits,         \* the bits CUSTOM_STATUS1..4 of `listen` and `status`
  CusId,        \* the id each event is created with
  CusListen,    \* the bits it listens to
  CusPersist,   \* whether it is persistent
  Durations     \* the timeouts the program passes

ASSUME CusAssumption ==
  /\ Ids \subseteq Int
  /\ CusId \in [CusEvents -> Ids]
  /\ CusListen \in [CusEvents -> SUBSET Bits]
  /\ CusPersist \in [CusEvents -> BOOLEAN]
  /\ Durations \subseteq Timeval
  /\ Nobody \notin CusEvents
  /\ Nobody \notin Timeval

VARIABLES
  cusLive,         \* events allocated and not yet freed
  cusRemove,       \* events whose `remove` flag is set
  cus_event_list,  \* the map: id -> event or Nobody
  status,          \* the active bits of each event
  overtime,        \* its timeout, or Nobody
  start,           \* when its timeout was last (re)started
  copy,            \* entries of the pass's copy not visited yet
  call             \* the arguments of the handler call in progress

cusVars == <<cusLive, cusRemove, cus_event_list, status, overtime, start, copy, call>>

NoCall == [event |-> {}, is_overtime |-> FALSE]

CusInit ==
  /\ cusLive = {} /\ cusRemove = {}
  /\ cus_event_list = [id \in Ids |-> Nobody]
  /\ status = [e \in CusEvents |-> {}]
  /\ overtime = [e \in CusEvents |-> Nobody]
  /\ start = [e \in CusEvents |-> Zero]
  /\ copy = {}
  /\ call = NoCall

Entered(e) == cus_event_list[CusId[e]] = e

-------------------------------------------------------------------------------
(* The library's operations.                                               *)

\* The zeroed object calloc returns, and memset leaves behind.
ZeroObject(e) ==
  /\ cusRemove' = cusRemove \ {e}
  /\ status' = [status EXCEPT ![e] = {}]
  /\ overtime' = [overtime EXCEPT ![e] = Nobody]
  /\ start' = [start EXCEPT ![e] = Zero]

new_cus_event(e) ==
  /\ ClientRuns
  /\ e \notin cusLive
  /\ cusLive' = cusLive \cup {e}
  /\ ZeroObject(e)
  /\ UNCHANGED <<cus_event_list, copy, call>>

\* The program frees an event the map does not hold, or, once the loop is
\* over, any event it still has.
free_cus_event(e) ==
  /\ e \in cusLive
  /\ (ClientRuns /\ ~Entered(e)) \/ at = "exit"
  /\ cusLive' = cusLive \ {e}
  /\ ZeroObject(e)
  /\ UNCHANGED <<cus_event_list, copy, call>>

\* _add_cus_event: the remove flag is reset first; an id the map already has
\* keeps its entry.
insert_cus_event(e) ==
  /\ cusRemove' = cusRemove \ {e}
  /\ cus_event_list' = [cus_event_list EXCEPT ![CusId[e]] = IF @ = Nobody THEN e ELSE @]

\* The timeout is set, or cleared, whether or not the map takes the event.
add_cus_event(e, d) ==
  /\ ClientRuns
  /\ e \in cusLive
  /\ overtime' = [overtime EXCEPT ![e] = d]
  /\ start' = [start EXCEPT ![e] = IF d = Nobody THEN Zero ELSE Now]
  /\ insert_cus_event(e)
  /\ UNCHANGED <<cusLive, status, copy, call>>

active_cus_event(e, b) ==
  /\ ClientRuns
  /\ e \in cusLive
  /\ status' = [status EXCEPT ![e] = @ \cup {b}]
  /\ UNCHANGED <<cusLive, cusRemove, cus_event_list, overtime, start, copy, call>>

\* _remove_cus_event only marks the entry; the next pass removes it.
mark_cus_event(id) == cusRemove' = cusRemove \cup ({cus_event_list[id]} \ {Nobody})

\* Mistake: the entry is erased at once.
remove_cus_event_erasing(id) ==
  /\ ClientRuns
  /\ cus_event_list[id] # Nobody
  /\ cus_event_list' = [cus_event_list EXCEPT ![id] = Nobody]
  /\ UNCHANGED <<cusLive, cusRemove, status, overtime, start, copy, call>>

remove_cus_event(id) ==
  /\ ClientRuns
  /\ cus_event_list[id] # Nobody
  /\ mark_cus_event(id)
  /\ UNCHANGED <<cusLive, cus_event_list, status, overtime, start, copy, call>>

-------------------------------------------------------------------------------
(* One pass of _cus_event_loop.                                            *)

\* Mistake: the map is copied before the marked entries leave it.
CusSweep_copying_first ==
  LET gone == {id \in Ids : cus_event_list[id] \in cusRemove} IN
  /\ LoopAt("cusSweep")
  /\ copy' = {cus_event_list[id] : id \in Ids} \ {Nobody}
  /\ cus_event_list' = [id \in Ids |-> IF id \in gone THEN Nobody ELSE cus_event_list[id]]
  /\ cusRemove' = cusRemove \ {cus_event_list[id] : id \in gone}
  /\ Goto("cusRun")
  /\ UNCHANGED <<cusLive, status, overtime, start, call>>

\* Marked entries leave the map and their flags are reset; then the map is
\* copied.
CusSweep ==
  LET gone == {id \in Ids : cus_event_list[id] \in cusRemove}
      kept == {id \in Ids : cus_event_list[id] # Nobody} \ gone
  IN
  /\ LoopAt("cusSweep")
  /\ cus_event_list' = [id \in Ids |-> IF id \in gone THEN Nobody ELSE cus_event_list[id]]
  /\ cusRemove' = cusRemove \ {cus_event_list[id] : id \in gone}
  /\ copy' = {cus_event_list[id] : id \in kept}
  /\ Goto("cusRun")
  /\ UNCHANGED <<cusLive, status, overtime, start, call>>

\* The copy is a std::map: entries are visited in the order of their ids.
NextInCopy(e) == e \in copy /\ \A d \in copy : CusId[e] <= CusId[d]

Trigger(e) == status[e] \cap CusListen[e]

TimedOut(e) ==
  IF overtime[e] = Nobody THEN TRUE ELSE is_overtime(start[e], Now, overtime[e])

CusSkip(e) ==
  /\ LoopAt("cusRun")
  /\ NextInCopy(e)
  /\ Trigger(e) = {} /\ ~TimedOut(e)
  /\ copy' = copy \ {e}
  /\ UNCHANGED <<controlVars, cusLive, cusRemove, cus_event_list, status, overtime, start, call>>

\* Mistakes: a one-shot event is not marked; only the timeout is looked at.
CusFire_keeping(e) ==
  /\ LoopAt("cusRun")
  /\ NextInCopy(e)
  /\ Trigger(e) # {} \/ TimedOut(e)
  /\ copy' = copy \ {e}
  /\ start' = [start EXCEPT ![e] = Now]
  /\ status' = [status EXCEPT ![e] = {}]
  /\ call' = [event |-> Trigger(e), is_overtime |-> TimedOut(e)]
  /\ Call(e)
  /\ UNCHANGED <<cusLive, cusRemove, cus_event_list, overtime>>

CusFire_late(e) ==
  /\ TimedOut(e)
  /\ CusFire_keeping(e)

\* Timeout restarted, status cleared and a one-shot event marked, all
\* before the handler runs.  The entry marked is the one the MAP has for the
\* id; the copy is not looked at again.
CusFire(e) ==
  /\ LoopAt("cusRun")
  /\ NextInCopy(e)
  /\ Trigger(e) # {} \/ TimedOut(e)
  /\ copy' = copy \ {e}
  /\ start' = [start EXCEPT ![e] = Now]
  /\ status' = [status EXCEPT ![e] = {}]
  /\ IF CusPersist[e] THEN UNCHANGED cusRemove ELSE mark_cus_event(CusId[e])
  /\ call' = [event |-> Trigger(e), is_overtime |-> TimedOut(e)]
  /\ Call(e)
  /\ UNCHANGED <<cusLive, cus_event_list, overtime>>

\* Mistake: the status is cleared when the handler has returned.
CusReturn_clearing ==
  /\ running \in CusEvents
  /\ call' = NoCall
  /\ status' = [status EXCEPT ![running] = {}]
  /\ HandlerReturn
  /\ UNCHANGED <<cusLive, cusRemove, cus_event_list, overtime, start, copy>>

CusReturn ==
  /\ running \in CusEvents
  /\ call' = NoCall
  /\ HandlerReturn
  /\ UNCHANGED <<cusLive, cusRemove, cus_event_list, status, overtime, start, copy>>

CusPassDone ==
  /\ LoopAt("cusRun")
  /\ copy = {}
  /\ Goto("ioSweep")
  /\ UNCHANGED cusVars

\* sev_free_base empties the map.
CusClear ==
  /\ cus_event_list' = [id \in Ids |-> Nobody]
  /\ UNCHANGED <<cusLive, cusRemove, status, overtime, start, copy, call>>

CusClient ==
  \/ \E e \in CusEvents : new_cus_event(e) \/ free_cus_event(e)
  \/ \E e \in CusEvents, d \in Durations \cup {Nobody} : add_cus_event(e, d)
  \/ \E e \in CusEvents, b \in Bits : active_cus_event(e, b)
  \/ \E id \in Ids : remove_cus_event(id)

CusLoop ==
  \/ CusSweep
  \/ \E e \in CusEvents : CusSkip(e) \/ CusFire(e)
  \/ CusPassDone

-------------------------------------------------------------------------------
(* Properties.                                                             *)

CusTypeOK ==
  /\ cusLive \subseteq CusEvents
  /\ cusRemove \subseteq CusEvents
  /\ cus_event_list \in [Ids -> CusEvents \cup {Nobody}]
  /\ status \in [CusEvents -> SUBSET Bits]
  /\ overtime \in [CusEvents -> Durations \cup {Nobody}]
  /\ start \in [CusEvents -> Timeval]
  /\ copy \subseteq CusEvents
  /\ call \in [event : SUBSET Bits, is_overtime : BOOLEAN]

\* The copy the pass over custom events works on only holds allocated
\* events, whatever the handlers it calls remove, free and add.
CopyIsLive == copy \subseteq cusLive

\* The inductive invariant: entries are keyed by their id and allocated
\* while the loop is in use, and the copy, which lives within one pass, only
\* holds entries of the map.
CusInv ==
  /\ CusTypeOK
  /\ CopyIsLive
  /\ \A id \in Ids : cus_event_list[id] # Nobody => CusId[cus_event_list[id]] = id
  /\ at \notin Ended =>
       \A id \in Ids : cus_event_list[id] # Nobody => cus_event_list[id] \in cusLive
  /\ \A e \in copy : Entered(e)
  /\ at # "cusRun" => copy = {}
==============================================================================
