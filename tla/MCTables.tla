------------------------------ MODULE MCTables ------------------------------
(* Instances of Tables for TLC: see the .cfg files. *)
EXTENDS Tables

CONSTANTS t1, t2

OneTable  == {t1}
TwoTables == {t1, t2}

AllKinds  == DOMAIN Scripts
JoinOnly  == {"JoinCash"}

AllCalls  == ServerCalls
CloseOnly == {"close_table"}
Benign    == ServerCalls \ CloseOnly
=============================================================================
