------------------------------ MODULE MCNetio ------------------------------
(* Instances of Netio for TLC: see the .cfg files. *)
EXTENDS Netio

AllFaults == FaultKinds
=============================================================================
