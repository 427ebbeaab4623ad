--------------------------- MODULE MCTrustChain ---------------------------
(* Small federations for TrustChain: a leaf under an intermediate of the   *)
(* known anchor and, at the same time, under an unrelated anchor.          *)
EXTENDS TrustChain

CONSTANTS leaf, inter, ta, other

MCEntity == {leaf, inter, ta, other}

MCSuperior == {<<inter, leaf>>, <<ta, inter>>, <<other, leaf>>}

MCTrustMarked == {ta}

(* The usual kid, the thumbprint of the key.                               *)
Thumbprint(k) == k
===========================================================================
