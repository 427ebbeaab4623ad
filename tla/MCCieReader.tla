---------------------------- MODULE MCCieReader -----------------------------
(* Instances of CieReader for TLC.                                         *)
EXTENDS CieReader
=============================================================================
