------------------------- MODULE MCCredentialStore --------------------------
(* Instances of CredentialStore for TLC.                                   *)
EXTENDS CredentialStore

CONSTANTS t1, c1, MDL, DC
=============================================================================
