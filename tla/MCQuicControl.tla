----------------------------- MODULE MCQuicControl -----------------------------
(***************************************************************************)
(* Instances of QuicControl for TLC: two threads, the one that has called  *)
(* quic_run and another.                                                   *)
(***************************************************************************)
EXTENDS QuicControl

CONSTANTS main, other
===============================================================================
