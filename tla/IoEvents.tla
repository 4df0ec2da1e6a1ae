------------------------------- MODULE IoEvents -------------------------------
(***************************************************************************)
(* I/O events: the map io_event_list (file descriptor -> event), the       *)
(* kernel's epoll set it is meant to mirror, and the pass _io_event_loop   *)
(* makes over both once per turn of the loop.                              *)
(*                                                                         *)
(* An event object is a member of the pool IoEvents with the descriptor    *)
(* and the persistence its new_io_event call gave it.                      *)
(***************************************************************************)
EXTENDS SevControl

CONSTANTS
  IoEvents,    \* the pool of sev_io_event objects
  Fds,         \* file descriptor numbers
  EvFd,        \* the descriptor each event is created for
  EvPersist,   \* whether it is persistent (0 means EPOLLONESHOT)
  MaxEvents    \* MAX_EVENTS, the size of the epoll_wait batch

ASSUME IoAssumption ==
  /\ EvFd \in [IoEvents -> Fds]
  /\ EvPersist \in [IoEvents -> BOOLEAN]
  /\ Nobody \notin IoEvents
  /\ MaxEvents \in Nat \ {0}

VARIABLES
  ioLive,         \* events allocated and not yet freed
  ioRemove,       \* events whose `remove` flag is set
  ioFree,         \* events whose `free` flag is set
  io_event_list,  \* the map: descriptor -> event or Nobody
  open,           \* descriptors the process has open (kernel)
  epoll,          \* descriptor -> the event whose epoll_event is registered
  spent,          \* one-shot registrations the kernel has disabled
  pending         \* descriptors of the batch not dispatched yet

ioVars == <<ioLive, ioRemove, ioFree, io_event_list, open, epoll, spent, pending>>

Listed(e) == io_event_list[EvFd[e]] = e

IoInit ==
  /\ ioLive = {} /\ ioRemove = {} /\ ioFree = {}
  /\ io_event_list = [fd \in Fds |-> Nobody]
  /\ open = {}
  /\ epoll = [fd \in Fds |-> Nobody]
  /\ spent = {} /\ pending = {}

-------------------------------------------------------------------------------
(* The descriptors themselves: socket/accept and close, by the program.    *)

OpenFd(fd) ==
  /\ ClientRuns
  /\ fd \notin open
  /\ open' = open \cup {fd}
  /\ UNCHANGED <<ioLive, ioRemove, ioFree, io_event_list, epoll, spent, pending>>

\* Closing the last reference takes the descriptor out of the epoll set;
\* the library's map is not told.
CloseFd(fd) ==
  /\ ClientRuns
  /\ fd \in open
  /\ open' = open \ {fd}
  /\ epoll' = [epoll EXCEPT ![fd] = Nobody]
  /\ spent' = spent \ {fd}
  /\ UNCHANGED <<ioLive, ioRemove, ioFree, io_event_list, pending>>

-------------------------------------------------------------------------------
(* The library's operations.                                               *)

new_io_event(e) ==
  /\ ClientRuns
  /\ e \notin ioLive
  /\ ioLive' = ioLive \cup {e}
  /\ ioRemove' = ioRemove \ {e}
  /\ ioFree' = ioFree \ {e}
  /\ UNCHANGED <<io_event_list, open, epoll, spent, pending>>

\* The program frees an event the map does not hold, or, once the loop is
\* over, any event it still has.
free_io_event(e) ==
  /\ e \in ioLive
  /\ (ClientRuns /\ ~Listed(e)) \/ at = "exit"
  /\ ioLive' = ioLive \ {e}
  /\ UNCHANGED <<ioRemove, ioFree, io_event_list, open, epoll, spent, pending>>

\* EPOLL_CTL_ADD fails with EBADF or EEXIST: nothing else is done.
EpollAddFails(fd) == fd \notin open \/ epoll[fd] # Nobody

\* _add_io_event: the remove flag is reset first; a descriptor the map
\* already has keeps its entry, and the caller ignores the refusal.
insert_io_event(e) ==
  /\ ioRemove' = ioRemove \ {e}
  /\ io_event_list' = [io_event_list EXCEPT ![EvFd[e]] = IF @ = Nobody THEN e ELSE @]

add_io_event(e) ==
  /\ ClientRuns
  /\ e \in ioLive
  /\ \/ /\ EpollAddFails(EvFd[e])
        /\ UNCHANGED ioVars
     \/ /\ ~EpollAddFails(EvFd[e])
        /\ epoll' = [epoll EXCEPT ![EvFd[e]] = e]
        /\ insert_io_event(e)
        /\ UNCHANGED <<ioLive, ioFree, open, spent, pending>>

\* _set_io_event_remove.
mark_io_event(fd, free) ==
  LET marked == {io_event_list[fd]} \ {Nobody} IN
  /\ ioRemove' = ioRemove \cup marked
  /\ ioFree' = IF free THEN ioFree \cup marked ELSE ioFree \ marked

\* Mistakes: the entry erased at once, the object freed at once, the epoll
\* set left at once.
remove_io_event_erasing(fd, free) ==
  /\ ClientRuns
  /\ io_event_list[fd] # Nobody
  /\ io_event_list' = [io_event_list EXCEPT ![fd] = Nobody]
  /\ epoll' = [epoll EXCEPT ![fd] = Nobody]
  /\ spent' = spent \ {fd}
  /\ ioLive' = IF free THEN ioLive \ {io_event_list[fd]} ELSE ioLive
  /\ UNCHANGED <<ioRemove, ioFree, open, pending>>

remove_io_event_freeing(fd, free) ==
  /\ ClientRuns
  /\ io_event_list[fd] # Nobody
  /\ ioRemove' = ioRemove \cup {io_event_list[fd]}
  /\ ioLive' = IF free THEN ioLive \ {io_event_list[fd]} ELSE ioLive
  /\ UNCHANGED <<ioFree, io_event_list, open, epoll, spent, pending>>

remove_io_event_deaf(fd, free) ==
  /\ ClientRuns
  /\ io_event_list[fd] # Nobody
  /\ ioRemove' = ioRemove \cup {io_event_list[fd]}
  /\ epoll' = [epoll EXCEPT ![fd] = Nobody]
  /\ spent' = spent \ {fd}
  /\ UNCHANGED <<ioLive, ioFree, io_event_list, open, pending>>

\* remove_io_event only marks the entry; the sweep removes it.
remove_io_event(fd, free) ==
  /\ ClientRuns
  /\ io_event_list[fd] # Nobody
  /\ mark_io_event(fd, free)
  /\ UNCHANGED <<ioLive, io_event_list, open, epoll, spent, pending>>

-------------------------------------------------------------------------------
(* One pass of _io_event_loop.                                             *)

\* The descriptors whose entry is marked.
Leaving == {fd \in Fds : io_event_list[fd] \in ioRemove}

\* Mistake: the epoll set keeps what was registered.
remove_marked_in_map_only ==
  /\ io_event_list' = [fd \in Fds |-> IF fd \in Leaving THEN Nobody ELSE io_event_list[fd]]
  /\ ioRemove' = ioRemove \ {io_event_list[fd] : fd \in Leaving}
  /\ ioLive' = ioLive \ ({io_event_list[fd] : fd \in Leaving} \cap ioFree)
  /\ UNCHANGED <<ioFree, open, epoll, spent, pending>>

\* _remove_io_event: every marked entry leaves the map, and whatever is
\* registered for its descriptor leaves the epoll set.
remove_marked ==
  LET gone == {io_event_list[fd] : fd \in Leaving} IN
  /\ io_event_list' = [fd \in Fds |-> IF fd \in Leaving THEN Nobody ELSE io_event_list[fd]]
  /\ epoll' = [fd \in Fds |-> IF fd \in Leaving THEN Nobody ELSE epoll[fd]]
  /\ spent' = spent \ Leaving
  /\ ioRemove' = ioRemove \ gone
  /\ ioLive' = ioLive \ (gone \cap ioFree)
  /\ UNCHANGED <<ioFree, open, pending>>

IoSweep == LoopAt("ioSweep") /\ remove_marked /\ Goto("ioWait")

\* epoll_wait returns any MaxEvents or fewer of the enabled registrations
\* (it may also time out, be interrupted or fail: the empty batch); a
\* one-shot registration is disabled as it is reported.
IoWait ==
  /\ LoopAt("ioWait")
  /\ \E batch \in SUBSET {fd \in Fds : epoll[fd] # Nobody /\ fd \notin spent} :
       /\ Cardinality(batch) <= MaxEvents
       /\ pending' = batch
       /\ spent' = spent \cup {fd \in batch : ~EvPersist[epoll[fd]]}
  /\ Goto("ioRun")
  /\ UNCHANGED <<ioLive, ioRemove, ioFree, io_event_list, open, epoll>>

\* Mistake: a one-shot event is called and stays.
IoDispatch_keeping(fd) ==
  /\ LoopAt("ioRun")
  /\ fd \in pending
  /\ io_event_list[fd] # Nobody
  /\ pending' = pending \ {fd}
  /\ Call(io_event_list[fd])
  /\ UNCHANGED <<ioLive, ioRemove, ioFree, io_event_list, open, epoll, spent>>

\* One event of the batch: the map is asked for the descriptor; a one-shot
\* event is marked for removal (with free = 0) before its handler runs.
IoDispatch(fd) ==
  LET e == io_event_list[fd] IN
  /\ LoopAt("ioRun")
  /\ fd \in pending
  /\ e # Nobody
  /\ pending' = pending \ {fd}
  /\ IF EvPersist[e] THEN UNCHANGED <<ioRemove, ioFree>> ELSE mark_io_event(fd, FALSE)
  /\ Call(e)
  /\ UNCHANGED <<ioLive, io_event_list, open, epoll, spent>>

\* `ev->persist` is read before ev is tested: a descriptor without an entry
\* would end the process here.
IoDispatchNull(fd) ==
  /\ LoopAt("ioRun")
  /\ fd \in pending
  /\ io_event_list[fd] = Nobody
  /\ Goto("crashed")
  /\ UNCHANGED ioVars

IoReturn ==
  /\ running \in IoEvents
  /\ HandlerReturn
  /\ UNCHANGED ioVars

IoPassDone ==
  /\ LoopAt("ioRun")
  /\ pending = {}
  /\ Goto("top")
  /\ UNCHANGED ioVars

\* sev_free_base: the epoll descriptor is closed and the map emptied.
IoClear ==
  /\ io_event_list' = [fd \in Fds |-> Nobody]
  /\ epoll' = [fd \in Fds |-> Nobody]
  /\ spent' = {}
  /\ UNCHANGED <<ioLive, ioRemove, ioFree, open, pending>>

IoClient ==
  \/ \E fd \in Fds : OpenFd(fd) \/ CloseFd(fd)
  \/ \E e \in IoEvents : new_io_event(e) \/ add_io_event(e) \/ free_io_event(e)
  \/ \E fd \in Fds, free \in BOOLEAN : remove_io_event(fd, free)

IoLoop ==
  \/ IoSweep
  \/ IoWait
  \/ \E fd \in Fds : IoDispatch(fd) \/ IoDispatchNull(fd)
  \/ IoPassDone

-------------------------------------------------------------------------------
(* Properties.                                                             *)

IoTypeOK ==
  /\ ioLive \subseteq IoEvents
  /\ ioRemove \subseteq IoEvents
  /\ ioFree \subseteq IoEvents
  /\ io_event_list \in [Fds -> IoEvents \cup {Nobody}]
  /\ open \subseteq Fds
  /\ epoll \in [Fds -> IoEvents \cup {Nobody}]
  /\ spent \subseteq Fds
  /\ pending \subseteq Fds

\* The map has an entry for the descriptor which is not what the kernel has.
Stale(fd) == io_event_list[fd] # Nobody /\ epoll[fd] # io_event_list[fd]

\* What the kernel holds is in the map: no registration is left without an
\* entry whose sweep will take it out of the epoll set (simple_event_array.cc
\* 204-226), and a batch being dispatched only names descriptors that have
\* an entry (simple_event.c 181-191 reads the entry before testing it).
RegisteredHasEntry ==
  \A fd \in Fds : epoll[fd] # Nobody \/ fd \in pending => io_event_list[fd] # Nobody

\* An entry of the map is an allocated event for that very descriptor, so
\* neither the dispatch nor the sweep touches freed memory.
EntryIsLive ==
  at \notin Ended => \A fd \in Fds :
    io_event_list[fd] # Nobody =>
      io_event_list[fd] \in ioLive /\ EvFd[io_event_list[fd]] = fd

\* A one-shot registration the kernel has disabled is on its way out: its
\* call is still to come, or its entry is marked; it is never left behind,
\* registered and deaf.
SpentIsLeaving ==
  \A fd \in spent :
    Stale(fd) \/ fd \in pending \/ io_event_list[fd] \in ioRemove

\* The inductive invariant: besides the above, entries are keyed by their
\* own descriptor to the very end, only one-shot registrations are ever
\* disabled, a batch lives within one pass, and no entry is marked when the
\* kernel is asked for the next batch.
IoInv ==
  /\ IoTypeOK
  /\ RegisteredHasEntry
  /\ EntryIsLive
  /\ SpentIsLeaving
  /\ \A fd \in Fds : io_event_list[fd] # Nobody => EvFd[io_event_list[fd]] = fd
  /\ \A fd \in spent : epoll[fd] # Nobody /\ ~EvPersist[epoll[fd]]
  /\ at # "ioRun" => pending = {}
  /\ at = "ioWait" => Leaving = {}
==============================================================================
