-------------------------- MODULE MCDefectPipeline --------------------------
(* The instance of DefectPipeline that TLC checks.                         *)
EXTENDS DefectPipeline
=============================================================================
