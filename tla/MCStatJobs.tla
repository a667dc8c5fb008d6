----------------------------- MODULE MCStatJobs ------------------------------
(* Instances of StatJobs for TLC: see the .cfg files. *)
EXTENDS StatJobs
=============================================================================
