------------------------------ MODULE MCSdJwt -------------------------------
(* A small instance of SdJwtHolder.                                        *)
EXTENDS SdJwtHolder
=============================================================================
