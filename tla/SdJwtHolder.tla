----------------------------- MODULE SdJwtHolder ----------------------------
(***************************************************************************)
(* A holder of an SD-JWT who discloses parts of it, and parts of the parts,*)
(* over every token an issuer may have made.                               *)
(***************************************************************************)
EXTENDS SdJwt

CONSTANTS
    Name,       \* claim names
    Value,      \* claim values
    Salt,       \* salts: a name may have as many disclosures
    MaxHashes,  \* bound: hashes in _sd
    MaxSegments \* bound: segments of a token

ASSUME HolderAssumption ==
    /\ MaxHashes \in Nat
    /\ MaxSegments \in Nat

VARIABLES
    issued,     \* the token as it was issued
    token,      \* the token in hand
    asked,      \* the claims every step asked for
    result      \* what the last disclose returned

holderVars == <<issued, token, asked, result>>

Disclosures == {Disclosure(s, n, v) : s \in Salt, n \in Name, v \in Value}

(* An issuer puts hashes of disclosures into _sd; the segments are some of *)
(* them, or one of the issuer's mistakes.                                  *)
Tokens ==
    {[jwt |-> [sd |-> sd, sig |-> IssuerKey], rest |-> rest] :
        sd \in UNION {[1 .. n -> Disclosures] : n \in 0 .. MaxHashes},
        rest \in UNION {[1 .. n -> Disclosures \cup Unreadable] :
                        n \in 0 .. MaxSegments}}

HolderInit ==
    /\ issued \in Tokens
    /\ token = issued
    /\ asked = Name
    /\ result = Error("none")

HolderDiscloses ==
    \E claims \in SUBSET Name :
        /\ result' = Disclose(token, claims)
        /\ IF result'.error = "none"
           THEN token' = result'.token /\ asked' = asked \cap claims
           ELSE UNCHANGED <<token, asked>>
        /\ UNCHANGED issued

HolderSpec == HolderInit /\ [][HolderDiscloses]_holderVars
-----------------------------------------------------------------------------
Given(t) == RawDisclosures(t)

(* part is whole without the disclosures of other claims: its disclosures  *)
(* stand in whole at rising places, and these are all places of the claims.*)
Picks(part, whole, claims) ==
    \E place \in [DOMAIN part -> DOMAIN whole] :
        /\ \A i, j \in DOMAIN part : i < j => place[i] < place[j]
        /\ \A i \in DOMAIN part : part[i] = whole[place[i]]
        /\ {place[i] : i \in DOMAIN part} =
                {k \in DOMAIN whole : whole[k].name \in claims}

(* After any sequence of disclosures the token reveals exactly those       *)
(* disclosures of the issued one whose names every step asked for, in      *)
(* their order.                                                            *)
RevealsExactly ==
    token # issued => Picks(token.rest, Given(issued), asked)

(* Disclosing keeps a token good: a verifier who would accept the issued   *)
(* token accepts what is left of it.                                       *)
StillVerifies == Verify(issued, {IssuerKey}) => Verify(token, {IssuerKey})

(* The index in a path that disclose returns is that of the hash of the    *)
(* claim's disclosure in the token handed over, and it is the index the    *)
(* claim had in the issued token, however much was taken away in between.  *)
IndexLeadsToClaim ==
    "paths" \in DOMAIN result =>
        \A c \in DOMAIN result.paths :
            LET i == result.paths[c].index
            IN  /\ i \in DOMAIN token.jwt.sd
                /\ token.jwt.sd[i].name = c
                /\ token.jwt.sd[i] \in Elements(token.rest)
                /\ i = Path(issued, c).index

(* disclose returns "the path each claim can be found on the SD-JWT        *)
(* token": the array the path names is the one the hash is in.             *)
(* The code does not keep this (README, Findings).                         *)
PathsLeadToClaims ==
    "paths" \in DOMAIN result =>
        \A c \in DOMAIN result.paths : result.paths[c].of = PayloadPath

(* The comment in decode: "tokens are expected in the form                 *)
(* sd-jwt~disclosure0~disclosure1~...~disclosureN~".  disclose does not    *)
(* fail on a token of that form which verifies.                            *)
(* The code does not keep this (README, Findings).                         *)
ExpectedFormIsDisclosable ==
    EndsWithSeparator(issued) /\ Verify(issued, {IssuerKey}) =>
        result.error # "SyntaxError"

(* getValueFromDisclosures returns nothing when the value was not found,   *)
(* and only then.                                                          *)
(* The code does not keep this (README, Findings).                         *)
FoundValueIsReturned ==
    Decodes(issued) =>
        \A n \in Names(Given(issued)) :
            GetValueFromDisclosures(Given(issued), n) # Undefined

(* What an issuer may configure for a type: nothing, or a format and the   *)
(* claims, which may be left out.                                          *)
Subjects ==
    {Undefined} \cup [format : {HeaderTyp, "mso_mdoc"},
                      claims : {Undefined} \cup SUBSET Name]

(* A parsed credential has every declared attribute, with a value          *)
(* disclosed under its name; a value is missing only if it may be, and     *)
(* nothing that was disclosed is left out if all is to be included.        *)
(* Parsing fails for a type, a format or claims that the issuer does not   *)
(* configure, or for an attribute that must be there, and only then.       *)
ParsedIsDisclosed ==
    Decodes(issued) =>
        \A subject \in Subjects, ignore, include \in BOOLEAN :
            LET ds == Given(issued)
                p == ParseCredential(subject, ds, ignore, include)
                Missing == /\ ~ ignore
                           /\ ~ (subject.claims \subseteq Names(ds))
            IN  IF p.error # "none"
                THEN \/ subject = Undefined
                     \/ subject.format # HeaderTyp
                     \/ subject.claims = Undefined
                     \/ Missing
                ELSE /\ subject # Undefined
                     /\ subject.format = HeaderTyp
                     /\ subject.claims # Undefined
                     /\ subject.claims \subseteq DOMAIN p.attributes
                     /\ include => Names(ds) \subseteq DOMAIN p.attributes
                     /\ \A a \in DOMAIN p.attributes :
                            IF a \in Names(ds)
                            THEN \E d \in Elements(ds) :
                                    d.name = a /\ d.value = p.attributes[a]
                            ELSE ignore /\ p.attributes[a] = Undefined
=============================================================================
