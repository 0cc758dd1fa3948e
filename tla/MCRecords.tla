------------------------------ MODULE MCRecords ------------------------------
(* The instances of Records that TLC checks.                               *)
EXTENDS Records
=============================================================================
