----------------------------- MODULE MCEngineConns -----------------------------
(***************************************************************************)
(* An instance of EngineConns for TLC.  The engine treats its connections  *)
(* alike.                                                                  *)
(***************************************************************************)
EXTENDS EngineConns, TLC

CONSTANTS c1, c2, c3

Symmetry == Permutations(Conns)
===============================================================================
