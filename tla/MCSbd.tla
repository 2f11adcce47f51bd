------------------------------- MODULE MCSbd -------------------------------
(***************************************************************************)
(* Instances of Sbd for TLC.                                               *)
(***************************************************************************)
EXTENDS Sbd

FsOnly   == {TRUE}
AnyType  == {TRUE, FALSE}
============================================================================
