----------------------------- MODULE BoundedFifo -----------------------------
(***************************************************************************)
(* What the frame queue promises its users: a bounded first-in-first-out   *)
(* queue in which every push takes effect, or is refused because the queue *)
(* is full, in one instant.                                                *)
(***************************************************************************)
EXTENDS Sequences, Naturals

CONSTANTS
  Callers,    \* those who push
  Items,      \* what they push
  Capacity

VARIABLES
  fifo,     \* the items in the queue, oldest first
  answer    \* what each caller has been told about its push, if anything

vars == <<fifo, answer>>

Init == fifo = <<>> /\ answer = [c \in Callers |-> "none"]

Accept(c, x) ==
  /\ Len(fifo) < Capacity
  /\ fifo' = Append(fifo, x)
  /\ answer' = [answer EXCEPT ![c] = "accepted"]

Refuse(c) ==
  /\ Len(fifo) = Capacity
  /\ answer' = [answer EXCEPT ![c] = "refused"]
  /\ UNCHANGED fifo

\* The caller starts another push.
Again(c) ==
  /\ answer' = [answer EXCEPT ![c] = "none"]
  /\ UNCHANGED fifo

Pop ==
  /\ fifo # <<>>
  /\ fifo' = Tail(fifo)
  /\ UNCHANGED answer

Next ==
  \/ \E c \in Callers : Again(c) \/ Refuse(c) \/ \E x \in Items : Accept(c, x)
  \/ Pop

Spec == Init /\ [][Next]_vars
================================================================================
