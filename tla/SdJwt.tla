------------------------------- MODULE SdJwt --------------------------------
(***************************************************************************)
(* Selective disclosure JWTs: decode, disclose and verify of               *)
(* src/src/sd-jwt, and the parsing of a credential into attributes.        *)
(*                                                                         *)
(* A token is the text "jwt~segment~...~segment", here the JWT and the     *)
(* sequence of what stands after each "~".  A token that ends with "~" has *)
(* an Empty last segment.  A disclosure and its encoding are one thing, and*)
(* so are a disclosure and its hash; a signature is the key that made it.  *)
(***************************************************************************)
EXTENDS Naturals, Sequences

CONSTANTS
    Empty,      \* the segment with no text
    Garbage,    \* a segment that does not decode to a disclosure
    Undefined   \* undefined

Unreadable == {Empty, Garbage}

(* Disclosure: salt, claim name, claim value.                              *)
Disclosure(salt, name, value) == [salt |-> salt, name |-> name, value |-> value]

(* The key the issuer of a credential signs with.                          *)
IssuerKey == "issuer"

Names(ds) == {ds[i].name : i \in DOMAIN ds}
Elements(seq) == {seq[i] : i \in DOMAIN seq}

-----------------------------------------------------------------------------
(* index.ts: decode, disclose, verify.                                     *)

EndsWithSeparator(token) ==
    token.rest # <<>> /\ token.rest[Len(token.rest)] = Empty

(* One trailing "~" is removed, no more.                                   *)
RawDisclosures(token) ==
    IF EndsWithSeparator(token)
    THEN SubSeq(token.rest, 1, Len(token.rest) - 1) ELSE token.rest

DecodeDisclosure(segment) == segment \notin Unreadable

Decodes(token) ==
    \A i \in DOMAIN RawDisclosures(token) :
        DecodeDisclosure(RawDisclosures(token)[i])

(* disclosures.find by claim name returns the first one.                   *)
FirstNamed(ds, name) ==
    CHOOSE i \in DOMAIN ds :
        ds[i].name = name /\ \A j \in 1 .. (i - 1) : ds[j].name # name

(* Where the paths say that _sd is, and where it is searched.              *)
ClaimsPath == "verified_claims.claims"
PayloadPath == "payload"

Path_InDisclosures(token, name) ==
    [of |-> ClaimsPath, index |-> FirstNamed(RawDisclosures(token), name)]

(* The index of the hash in payload._sd, under the prefix the code writes. *)
Path(token, name) ==
    LET ds == RawDisclosures(token)
        hash == ds[FirstNamed(ds, name)]
    IN  [of |-> ClaimsPath,
         index |-> CHOOSE i \in DOMAIN token.jwt.sd :
            /\ token.jwt.sd[i] = hash
            /\ \A j \in 1 .. (i - 1) : token.jwt.sd[j] # hash]

Error(code) == [error |-> code]

Disclose_Unfiltered(token, claims) ==
    IF ~ Decodes(token) \/ ~ (claims \subseteq Names(RawDisclosures(token)))
    THEN Error("ClaimsNotFoundBetweenDisclosures")
    ELSE [error |-> "none",
          token |-> [jwt |-> token.jwt, rest |-> RawDisclosures(token)]]

Disclose_TwoSeparators(token, claims) ==
    IF ~ Decodes(token) \/ ~ (claims \subseteq Names(RawDisclosures(token)))
    THEN Error("ClaimsNotFoundBetweenDisclosures")
    ELSE [error |-> "none",
          token |-> [jwt |-> token.jwt,
                     rest |-> RawDisclosures(token) \o <<Empty, Empty>>]]

(* rawDisclosures.filter: the segments of the claims asked for, one after  *)
(* the other.                                                              *)
FilteredDisclosures(segments, claims) ==
    LET filtered[n \in 0 .. Len(segments)] ==
            IF n = 0 THEN <<>>
            ELSE IF segments[n].name \in claims
                 THEN Append(filtered[n - 1], segments[n])
                 ELSE filtered[n - 1]
    IN  filtered[Len(segments)]

(* disclose works on the segments of the token as it came, of which decode *)
(* looks at all but a trailing Empty one.                                  *)
Disclose(token, claims) ==
    LET ds == RawDisclosures(token)
        Known(c) == c \in Names(ds)
        InToken(c) == ds[FirstNamed(ds, c)] \in Elements(token.jwt.sd)
    IN  IF ~ Decodes(token) THEN Error("SyntaxError")
        ELSE IF \E c \in claims : ~ Known(c)
             THEN Error("ClaimsNotFoundBetweenDisclosures")
        ELSE IF \E c \in claims : ~ InToken(c)
             THEN Error("ClaimsNotFoundInToken")
        ELSE IF \E i \in DOMAIN token.rest : ~ DecodeDisclosure(token.rest[i])
             THEN Error("SyntaxError")
        ELSE [error |-> "none",
              token |-> [jwt |-> token.jwt,
                         rest |-> FilteredDisclosures(token.rest, claims)],
              paths |-> [c \in claims |-> Path(token, c)]]

(* TRUE when the promise resolves.                                         *)
Verify(token, keys) ==
    /\ Decodes(token)
    /\ token.jwt.sig \in keys
    /\ Elements(RawDisclosures(token)) \subseteq Elements(token.jwt.sd)

-----------------------------------------------------------------------------
(* converters.ts and 07-verify-and-parse-credential.ts.                    *)

(* The header typ that SdJwt4VC allows.                                    *)
HeaderTyp == "vc+sd-jwt"

Falsy == {"zero", "false", "emptyText", "null"}

(* What JSON.parse makes of a text value.                                  *)
JsonParse(value) == IF value = "jsonText" THEN "object" ELSE value

GetValueFromDisclosures(ds, name) ==
    IF name \notin Names(ds) THEN Undefined
    ELSE LET value == ds[FirstNamed(ds, name)].value
         IN  IF value \in Falsy THEN Undefined ELSE JsonParse(value)

ParseCredential_Skip(subject, ds, ignoreMissing, includeUndefined) ==
    IF subject = Undefined THEN Error("IoWalletError")
    ELSE IF subject.format # HeaderTyp \/ subject.claims = Undefined
         THEN Error("IoWalletError")
    ELSE [error |-> "none",
          attributes |-> [a \in subject.claims \cap Names(ds) |->
                                ds[FirstNamed(ds, a)].value]]

(* subject is what the issuer configures for the type of the credential.   *)
(* The attributes it declares come each with the value of the first        *)
(* disclosure of its name; the others on request, each with the value of   *)
(* the last one.                                                           *)
ParseCredential(subject, ds, ignoreMissing, includeUndefined) ==
    LET First(a) == IF a \in Names(ds) THEN ds[FirstNamed(ds, a)].value
                    ELSE Undefined
        Last(a) == LET i == CHOOSE i \in DOMAIN ds :
                        /\ ds[i].name = a
                        /\ \A j \in (i + 1) .. Len(ds) : ds[j].name # a
                   IN  ds[i].value
        others == IF includeUndefined THEN Names(ds) \ subject.claims ELSE {}
    IN  IF subject = Undefined THEN Error("IoWalletError")
        ELSE IF subject.format # HeaderTyp THEN Error("IoWalletError")
        ELSE IF subject.claims = Undefined THEN Error("IoWalletError")
        ELSE IF ~ ignoreMissing /\ ~ (subject.claims \subseteq Names(ds))
             THEN Error("IoWalletError")
        ELSE [error |-> "none",
              attributes |-> [a \in subject.claims \cup others |->
                    IF a \in subject.claims THEN First(a) ELSE Last(a)]]
=============================================================================
