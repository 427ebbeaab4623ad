-------------------------- MODULE MCWalletInstance --------------------------
(* Small instances of WalletInstance.                                      *)
EXTENDS WalletInstance, TLC

CONSTANTS t1, t2

Symmetries == Permutations(Thunk)
=============================================================================
