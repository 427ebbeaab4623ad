---------------------------- MODULE Presentation ----------------------------
(***************************************************************************)
(* The presentation of a credential to a relying party:                    *)
(* src/src/credential/presentation, steps 01 to 04, each flow awaiting one *)
(* answer after the other while relying parties rotate their keys and the  *)
(* wallet instance attestation is renewed.                                 *)
(*                                                                         *)
(* Relying parties are external: they check the DPoP proof, sign a request *)
(* object per session, decrypt with their present key and close a session  *)
(* with the first answer they accept.  A GET may be answered from a cache. *)
(***************************************************************************)
EXTENDS SdJwt

CONSTANTS
    Flow,       \* presentation flows
    RP,         \* relying parties
    Vc,         \* credentials: [token, holder], the key it is bound to
    Claim,      \* claims a user may consent to
    RsaGen,     \* generations of keys with an RSA key for encryption
    MaxGen,     \* bound: generations of the keys of a relying party
    MaxWia,     \* bound: keys under the tag of the attestation
    None

ASSUME PresentationAssumption ==
    /\ MaxGen \in Nat \ {0}
    /\ MaxWia \in Nat \ {0}
    /\ RsaGen \subseteq 1 .. MaxGen
    /\ None \notin RP \X (1 .. MaxGen)

(* The credentials of a wallet passed verifyAndParseCredential.            *)
ASSUME VcAssumption ==
    \A vc \in Vc :
        /\ vc.token.rest \in Seq(Elements(vc.token.rest))
        /\ Verify(vc.token, {IssuerKey})

VARIABLES
    fl,         \* the flows
    gen,        \* the generation of each relying party's keys
    requests,   \* the request objects made so far
    accepted,   \* the answers accepted, at most one per session
    wiaKey,     \* the last key generated under the tag of the attestation
    present     \* whether it is there, or was deleted

device == <<wiaKey, present>>
vars == <<fl, gen, requests, accepted, device>>

(* The keys of a relying party's configuration: the one it signs with and  *)
(* the first RSA key for encryption, if there is one.                      *)
Configuration(rp, g) ==
    [sig |-> <<rp, g>>, enc |-> IF g \in RsaGen THEN <<rp, g>> ELSE None]

RpConf == {Configuration(rp, g) : rp \in RP, g \in 1 .. MaxGen}

NoFlow == [at |-> "idle", client |-> None, uri |-> None, attested |-> 0,
           conf |-> None, head |-> 0, sig |-> 0, req |-> 0,
           vc |-> None, claims |-> {}, vp |-> None, why |-> "none"]

Init ==
    /\ fl = [f \in Flow |-> NoFlow]
    /\ gen = [rp \in RP |-> 1]
    /\ requests = <<>>
    /\ accepted = {}
    /\ wiaKey = 1 /\ present = TRUE

At(f, step) == fl[f].at = step

Ends(f, why) == fl' = [fl EXCEPT ![f].at = "failed", ![f].why = why]

-----------------------------------------------------------------------------
(* 01-start-flow.ts: startFlowFromQR.  The client and the URI of the       *)
(* request are two independent fields of the code; the attestation that    *)
(* the caller passes on may be one of a key that was replaced.             *)
StartFlowFromQR(f) ==
    /\ At(f, "idle")
    /\ \/ \E client, uri \in RP, k \in 1 .. wiaKey :
            fl' = [fl EXCEPT ![f].at = "scanned", ![f].client = client,
                             ![f].uri = uri, ![f].attested = k]
       \/ Ends(f, "AuthRequestDecodeError")
    /\ UNCHANGED <<gen, requests, accepted, device>>

(* 02-evaluate-rp-trust.ts: the configuration is read once and used until  *)
(* the end of the flow.                                                    *)
EvaluateRelyingPartyTrust(f) ==
    /\ At(f, "scanned")
    /\ \/ fl' = [fl EXCEPT ![f].at = "trusted",
                 ![f].conf = Configuration(fl[f].client, gen[fl[f].client])]
       \/ Ends(f, "network")
    /\ UNCHANGED <<gen, requests, accepted, device>>

CreateDPopHeader_Cached(f) ==
    /\ At(f, "trusted")
    /\ fl' = [fl EXCEPT ![f].at = "header", ![f].head = 1]
    /\ UNCHANGED <<gen, requests, accepted, device>>

(* 03-get-request-object.ts: createDPopToken reads the public key for the  *)
(* header, and then signs with the key there is; both reject while there   *)
(* is none.                                                                *)
CreateDPopHeader(f) ==
    /\ At(f, "trusted")
    /\ \/ present /\ fl' = [fl EXCEPT ![f].at = "header", ![f].head = wiaKey]
       \/ ~ present /\ Ends(f, "KeyNotFound")
    /\ UNCHANGED <<gen, requests, accepted, device>>

CreateDPopSign(f) ==
    /\ At(f, "header")
    /\ \/ present /\ fl' = [fl EXCEPT ![f].at = "asking", ![f].sig = wiaKey]
       \/ ~ present /\ Ends(f, "KeyNotFound")
    /\ UNCHANGED <<gen, requests, accepted, device>>

(* The relying party's check of the attestation and the DPoP proof.        *)
DPopIsValid(flow) == flow.head = flow.sig /\ flow.sig = flow.attested

FetchRequestObject_NoRefusal(f) ==
    /\ At(f, "asking")
    /\ DPopIsValid(fl[f])
    /\ requests' = Append(requests,
            [rp |-> fl[f].uri, sig |-> <<fl[f].uri, gen[fl[f].uri]>>])
    /\ fl' = [fl EXCEPT ![f].at = "answered", ![f].req = Len(requests) + 1]
    /\ UNCHANGED <<gen, accepted, device>>

(* The GET: a new session, an answer kept by a cache, or a failure.  A     *)
(* session has its number for nonce and state.                             *)
FetchRequestObject(f) ==
    /\ At(f, "asking")
    /\ \/ /\ DPopIsValid(fl[f])
          /\ requests' = Append(requests,
                [rp |-> fl[f].uri, sig |-> <<fl[f].uri, gen[fl[f].uri]>>])
          /\ fl' = [fl EXCEPT ![f].at = "answered",
                              ![f].req = Len(requests) + 1]
       \/ \E n \in DOMAIN requests :
            /\ requests[n].rp = fl[f].uri
            /\ fl' = [fl EXCEPT ![f].at = "answered", ![f].req = n]
            /\ UNCHANGED requests
       \/ /\ ~ DPopIsValid(fl[f])
          /\ Ends(f, "UnexpectedStatusCodeError")
          /\ UNCHANGED requests
       \/ Ends(f, "network") /\ UNCHANGED requests
    /\ UNCHANGED <<gen, accepted, device>>

VerifyRequestObject_Unchecked(f) ==
    /\ At(f, "answered")
    /\ fl' = [fl EXCEPT ![f].at = "consent"]
    /\ UNCHANGED <<gen, requests, accepted, device>>

(* The signature is checked with the key of the configuration that has the *)
(* kid of the header.                                                      *)
VerifyRequestObject(f) ==
    /\ At(f, "answered")
    /\ IF requests[fl[f].req].sig = fl[f].conf.sig
       THEN fl' = [fl EXCEPT ![f].at = "consent"]
       ELSE Ends(f, "NoSuitableKeysFoundInEntityConfiguration")
    /\ UNCHANGED <<gen, requests, accepted, device>>

(* prepareVpToken: disclose, and the signature of the holder over the      *)
(* disclosed token and the nonce.                                          *)
PrepareVpToken_All(vc, claims, n) ==
    [vp |-> vc.token, holder |-> vc.holder, nonce |-> n]

PrepareVpToken(vc, claims, n) ==
    [vp |-> Disclose(vc.token, claims).token, holder |-> vc.holder, nonce |-> n]

(* 04-send-authorization-response.ts up to the POST, with the presentation *)
(* the user consented to.  The key is chosen before the token is made.     *)
PrepareResponse(f) ==
    /\ At(f, "consent")
    /\ \E vc \in Vc, claims \in SUBSET Claim :
        LET error == Disclose(vc.token, claims).error
        IN  IF fl[f].conf.enc = None
            THEN Ends(f, "NoSuitableKeysFoundInEntityConfiguration")
            ELSE IF error # "none" THEN Ends(f, error)
            ELSE fl' = [fl EXCEPT ![f].at = "sending", ![f].vc = vc,
                        ![f].claims = claims,
                        ![f].vp = PrepareVpToken(vc, claims, fl[f].req)]
    /\ UNCHANGED <<gen, requests, accepted, device>>

(* What a relying party checks of an answer to the session n.              *)
Acceptable(flow, n) ==
    LET rp == requests[n].rp
    IN  /\ flow.conf.enc = <<rp, gen[rp]>>
        /\ flow.vp.nonce = n
        /\ flow.vp.holder = flow.vc.holder
        /\ Verify(flow.vp.vp, {IssuerKey})
        /\ \A a \in accepted : a.session # n

(* The POST to the response_uri of the request: accepted and answered, the *)
(* answer lost, refused, or never arrived.                                 *)
PostResponse(f) ==
    /\ At(f, "sending")
    /\ \/ /\ Acceptable(fl[f], fl[f].req)
          /\ accepted' = accepted \cup
                {[session |-> fl[f].req, flow |-> f, vp |-> fl[f].vp]}
          /\ \/ fl' = [fl EXCEPT ![f].at = "done"]
             \/ Ends(f, "network")
       \/ /\ ~ Acceptable(fl[f], fl[f].req)
          /\ Ends(f, "UnexpectedStatusCodeError")
          /\ UNCHANGED accepted
       \/ Ends(f, "network") /\ UNCHANGED accepted
    /\ UNCHANGED <<gen, requests, device>>

-----------------------------------------------------------------------------
(* Environment.                                                            *)
RotateKeys(rp) ==
    /\ gen[rp] < MaxGen
    /\ gen' = [gen EXCEPT ![rp] = @ + 1]
    /\ UNCHANGED <<fl, requests, accepted, device>>

(* regenerateCryptoKey of a thunk that renews the attestation: the key is  *)
(* deleted, and after an await another one is generated.                   *)
WiaDelete ==
    /\ present
    /\ present' = FALSE
    /\ UNCHANGED <<fl, gen, requests, accepted, wiaKey>>

WiaGenerate ==
    /\ ~ present /\ wiaKey < MaxWia
    /\ wiaKey' = wiaKey + 1 /\ present' = TRUE
    /\ UNCHANGED <<fl, gen, requests, accepted>>

Awaited(f) ==
    \/ EvaluateRelyingPartyTrust(f)
    \/ CreateDPopHeader(f)
    \/ CreateDPopSign(f)
    \/ FetchRequestObject(f)
    \/ VerifyRequestObject(f)
    \/ PostResponse(f)

Step(f) == Awaited(f) \/ PrepareResponse(f)

Next ==
    \/ \E f \in Flow : StartFlowFromQR(f) \/ Step(f)
    \/ \E rp \in RP : RotateKeys(rp)
    \/ WiaDelete \/ WiaGenerate

Spec == Init /\ [][Next]_vars

(* Promises of the platform settle.  Nothing makes the user answer: a flow *)
(* may wait for the consent forever.                                       *)
FairSpec == Spec /\ \A f \in Flow : WF_vars(Awaited(f))

-----------------------------------------------------------------------------
Answering == {"consent", "sending", "done"}

Why == {"none", "AuthRequestDecodeError", "network", "UnexpectedStatusCodeError",
        "NoSuitableKeysFoundInEntityConfiguration", "SyntaxError",
        "ClaimsNotFoundBetweenDisclosures", "ClaimsNotFoundInToken",
        "KeyNotFound"}

Disclosable == {p \in Vc \X SUBSET Claim : Disclose(p[1].token, p[2]).error = "none"}

VpToken == {PrepareVpToken(p[1], p[2], n) : p \in Disclosable, n \in DOMAIN requests}

FlowState == [
    at : {"idle", "scanned", "trusted", "header", "asking", "answered", "failed"}
            \cup Answering,
    client : RP \cup {None}, uri : RP \cup {None}, attested : 0 .. MaxWia,
    conf : RpConf \cup {None}, head : 0 .. MaxWia, sig : 0 .. MaxWia, req : Nat,
    vc : Vc \cup {None}, claims : SUBSET Claim, vp : VpToken \cup {None},
    why : Why]

(* Type invariant.                                                         *)
TypeOK ==
    /\ gen \in [RP -> 1 .. MaxGen]
    /\ wiaKey \in 1 .. MaxWia /\ present \in BOOLEAN
    /\ requests \in Seq([rp : RP, sig : RP \X (1 .. MaxGen)])
    /\ fl \in [Flow -> FlowState]
    /\ \A f \in Flow : fl[f].at = "failed" <=> fl[f].why # "none"

(* The code compares neither the client of the QR code with the request    *)
(* object nor the host of response_uri with anything: only the signature   *)
(* is checked.  Still, a flow asks for consent, and sends, only for a      *)
(* request of the relying party whose client id was scanned, to it, and    *)
(* encrypted with a key of its own, whatever rotations came in between.    *)
AnswersScannedClient ==
    \A f \in Flow : fl[f].at \in Answering =>
        /\ requests[fl[f].req].rp = fl[f].client
        /\ fl[f].conf.enc # None => fl[f].conf.enc[1] = fl[f].client

(* What a relying party accepts reveals the claims the user consented to   *)
(* in that flow and no others, whichever flows ran beside it.              *)
AcceptedIsConsented ==
    \A a \in accepted :
        /\ Names(a.vp.vp.rest) = fl[a.flow].claims
        /\ a.vp.vp.jwt = fl[a.flow].vc.token.jwt

(* Keys changed since the configuration was read or the request was made.  *)
Rotated(f) ==
    LET rp == fl[f].client
    IN  \/ fl[f].conf # Configuration(rp, gen[rp])
        \/ requests[fl[f].req].sig # <<rp, gen[rp]>>

(* A flow with a sound QR code, whose relying party kept its keys and has  *)
(* one to encrypt with, and whose attestation is of the key on the device, *)
(* is not refused for its keys, its proof or its token, unless it answers  *)
(* a session that was answered already.                                    *)
RefusedForAReason ==
    \A f \in Flow :
        /\ fl[f].why = "UnexpectedStatusCodeError" =>
            \/ fl[f].attested # wiaKey
            \/ fl[f].req # 0 /\ Rotated(f)
            \/ \E a \in accepted : a.session = fl[f].req
        /\ fl[f].why = "KeyNotFound" => ~ present \/ fl[f].attested # wiaKey
        /\ fl[f].why = "NoSuitableKeysFoundInEntityConfiguration" =>
            \/ fl[f].client # fl[f].uri
            \/ Rotated(f)
            \/ gen[fl[f].client] \notin RsaGen

(* Every flow begun comes to the consent screen or ends, and so does a     *)
(* flow whose response was prepared, whatever is refused, lost or rotated. *)
FlowEnds == \A f \in Flow :
    fl[f].at \notin {"idle", "consent"} ~> fl[f].at \in {"consent", "done", "failed"}
=============================================================================
