----------------------------- MODULE MCIssuance -----------------------------
(* Issuance with a few flows, of which some are of the "query" mode.       *)
EXTENDS Issuance, TLC
=============================================================================
