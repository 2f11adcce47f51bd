---------------------------- MODULE MCEfiMonitor ----------------------------
(***************************************************************************)
(* An instance of EfiMonitor for TLC: slot 0 has a handler that panics,    *)
(* slots 1 and 2 those for EFI variables, slot 3 is NULL.  The first name  *)
(* is longer and has a character beyond 255, whose low byte is 65.         *)
(***************************************************************************)
EXTENDS EfiMonitor

CONSTANTS v1, v2, g1, g2

MCName == [v \in EfiVars |-> IF v = v1 THEN <<321, 66>> ELSE <<65>>]
MCGuid == [v \in EfiVars |-> IF v = v1 THEN g1 ELSE g2]
=============================================================================
