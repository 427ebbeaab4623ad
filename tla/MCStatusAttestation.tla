------------------------- MODULE MCStatusAttestation ------------------------
(***************************************************************************)
(* Small instances of StatusAttestation.  A credential stands for its key. *)
(***************************************************************************)
EXTENDS StatusAttestation, TLC

CONSTANTS f1, f2, c1, c2, plain

Symmetries == Permutations({f1, f2}) \cup Permutations({c1, c2})

OwnKeys == [c \in Cred |-> c]
=============================================================================
