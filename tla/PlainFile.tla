-------------------------------- MODULE PlainFile --------------------------------
(***************************************************************************)
(* A file as the program that writes it wants to see it: cells at          *)
(* addresses and one position, where every write takes effect at once.     *)
(* Mp4Recorder, with its cache over stdio over the kernel, implements it.  *)
(***************************************************************************)
EXTENDS Naturals

CONSTANTS
  Addr,      \* the addresses of the file
  Cell,      \* what a cell can hold
  Hole       \* a cell beyond the end of what has been written

VARIABLES content, pos

\* A write of n cells: nothing is touched outside of them, and the position
\* is behind them afterwards.
Write(n) ==
  /\ pos' = pos + n
  /\ content' \in [Addr -> Cell \cup {Hole}]
  /\ \A x \in Addr : ~(pos <= x /\ x < pos + n) => content'[x] = content[x]

Seek(x) == pos' = x /\ UNCHANGED content

Init == content \in [Addr -> Cell \cup {Hole}] /\ pos \in Nat

\* The lengths and positions a step can have are those it ends at.
Next ==
  \/ pos' \in Nat /\ Seek(pos')
  \/ pos' \in Nat /\ pos' >= pos /\ Write(pos' - pos)

Spec == Init /\ [][Next]_<<content, pos>>
==================================================================================
