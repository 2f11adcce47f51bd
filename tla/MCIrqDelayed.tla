---------------------------- MODULE MCIrqDelayed ----------------------------
(***************************************************************************)
(* An instance of IrqDelayed for TLC.                                      *)
(***************************************************************************)
EXTENDS IrqDelayed
=============================================================================
