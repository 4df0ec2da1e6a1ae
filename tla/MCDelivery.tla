------------------------------- MODULE MCDelivery -------------------------------
(* One connection with two data to deliver.  The data are interchangeable:   *)
(* no definition tells one from another, and the run has no liveness         *)
(* property.                                                                 *)
EXTENDS Delivery, TLC

CONSTANTS datum1, datum2

Perms == Permutations(Data)
================================================================================
