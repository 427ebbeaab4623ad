--------------------------- MODULE MCProviderCalls --------------------------
(***************************************************************************)
(* Small instances of ProviderCalls.                                       *)
(***************************************************************************)
EXTENDS ProviderCalls, TLC

CONSTANTS a, b

Callers == Permutations({a, b})
=============================================================================
