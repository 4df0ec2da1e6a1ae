----------------------------- MODULE MCFrameQueue -----------------------------
(***************************************************************************)
(* Instances of FrameQueue for TLC: the first of the frames has two bytes, *)
(* and so can be written in two pieces.                                    *)
(***************************************************************************)
EXTENDS FrameQueue, TLC

CONSTANTS p1, p2, f1, f2, f3, f4

MCFrameLen == [f \in Frames |-> IF f = f1 THEN 2 ELSE 1]
Symmetry == Permutations({p1, p2}) \cup Permutations(Frames \ {f1})
===============================================================================
