------------------------------- MODULE MCLogger -------------------------------
(* The instances of Logger that TLC checks.                                *)
EXTENDS Logger
=============================================================================
