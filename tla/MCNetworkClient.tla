--------------------------- MODULE MCNetworkClient ---------------------------
(* Instances of NetworkClient for TLC: see the .cfg files. *)
EXTENDS NetworkClient

AllFaults == FaultKinds
=============================================================================
