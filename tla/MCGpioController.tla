-------------------------- MODULE MCGpioController --------------------------
(* The instances of GpioController that TLC checks.                        *)
EXTENDS GpioController
=============================================================================
