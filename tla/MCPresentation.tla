--------------------------- MODULE MCPresentation ---------------------------
(***************************************************************************)
(* Small instances of Presentation: two credentials, one written with the  *)
(* trailing separator and one without.                                     *)
(***************************************************************************)
EXTENDS Presentation

CONSTANTS f1, f2, r1, r2

Sd == <<Disclosure(1, "a", "text"), Disclosure(2, "b", "text")>>

Credential(segments, holder) ==
    [token |-> [jwt |-> [sd |-> Sd, sig |-> IssuerKey], rest |-> segments],
     holder |-> holder]

TwoCredentials == {Credential(Sd, "key1"), Credential(Append(Sd, Empty), "key2")}

KnownAndUnknown == {"a", "c"}

FirstGen == {1}
=============================================================================
