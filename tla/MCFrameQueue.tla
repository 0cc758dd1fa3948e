---------------------------- MODULE MCFrameQueue ----------------------------
(* The instance of FrameQueue that TLC checks.                             *)
EXTENDS FrameQueue
=============================================================================
