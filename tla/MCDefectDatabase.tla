-------------------------- MODULE MCDefectDatabase --------------------------
(* The instances of DefectDatabase that TLC checks.                        *)
EXTENDS DefectDatabase
=============================================================================
