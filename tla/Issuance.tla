------------------------------ MODULE Issuance ------------------------------
(***************************************************************************)
(* The credential issuance flow of src/src/credential/issuance, from the   *)
(* evaluation of the issuer to the verified credential, run by several     *)
(* callers at once as getCredential and getPidCieID do in the application. *)
(*                                                                         *)
(* The flows share two keystore entries: the key of the wallet attestation *)
(* (WIA_KEYTAG), which an attestation refresh may replace at any time, and *)
(* the DPoP key (DPOP_KEYTAG), which every flow replaces for itself.  They *)
(* also share the redirect URI on which authorisation codes come back.     *)
(* Each action is the code of a flow between two awaits.                   *)
(***************************************************************************)
EXTENDS Naturals

CONSTANTS
    Flow,           \* the flows
    QueryFlow,      \* those for a PID, whose response mode is "query"
    None,           \* undefined
    MaxWia,         \* bound: keys generated under WIA_KEYTAG
    MaxDpop,        \* bound: keys generated under DPOP_KEYTAG
    MaxIssuerKey    \* bound: keys of the issuer

WiaKey == 1 .. MaxWia
DpopKey == 1 .. MaxDpop
IssuerKey == 1 .. MaxIssuerKey

(* Random values of a flow (its code verifier, its holder key) are named   *)
(* by the flow that drew them; so are the request and the code the issuer  *)
(* creates for it.                                                         *)
Request == [client : WiaKey, challenge : Flow]
Token == [code : Flow, dpop : DpopKey, granted : BOOLEAN]
Credential == [grant : Flow, holder : Flow, signer : IssuerKey]

ASSUME IssuanceAssumption ==
    /\ QueryFlow \subseteq Flow
    /\ MaxWia \in Nat \ {0} /\ MaxDpop \in Nat \ {0} /\ MaxIssuerKey \in Nat \ {0}
    /\ None \notin Flow \cup WiaKey \cup DpopKey \cup IssuerKey
    /\ None \notin Request \cup Token \cup Credential

VARIABLES
    wiaKey, wiaKeys,    \* device: the key under WIA_KEYTAG; keys generated
    dpopKey, dpopKeys,  \* device: the key under DPOP_KEYTAG; keys generated
    issuerKey,          \* issuer: the key it signs credentials with
    requests,           \* issuer: the pushed authorization request of a flow
    codes, used,        \* issuer: codes created, codes spent
    issued,             \* issuer: credentials issued
    fl                  \* the flows

device == <<wiaKey, wiaKeys, dpopKey, dpopKeys>>
issuer == <<issuerKey, requests, codes, used, issued>>
vars == <<device, issuer, fl>>

Idle == [pc |-> "idle", wia |-> None, conf |-> None, client |-> None,
         verifier |-> None, kid |-> None, pop |-> None, sig |-> None,
         code |-> None, dpop |-> None, token |-> None, cred |-> None]

Init ==
    /\ wiaKey = 1 /\ wiaKeys = 1
    /\ \/ dpopKey = None /\ dpopKeys = 0
       \/ dpopKey = 1 /\ dpopKeys = 1          \* left by an earlier run
    /\ issuerKey = 1
    /\ requests = [f \in Flow |-> None]
    /\ codes = {} /\ used = {} /\ issued = {}
    /\ fl = [f \in Flow |-> Idle]

At(f, pc) == fl[f].pc = pc
Goto(f, pc) == fl' = [fl EXCEPT ![f].pc = pc]

(* The next step of a flow when an operation succeeds, else it has failed. *)
If(succeeds, pc) == IF succeeds THEN pc ELSE "failed"

-----------------------------------------------------------------------------
(* Steps 1 to 3: startFlow, evaluateIssuerTrust, startUserAuthorization.   *)

(* The caller passes an attestation obtained for a key of WIA_KEYTAG, by   *)
(* now perhaps not the current one, and makes a holder key of its own.     *)
StartFlow(f) ==
    /\ At(f, "idle")
    /\ \E k \in 1 .. wiaKeys :
            fl' = [fl EXCEPT ![f].wia = k, ![f].pc = "trust"]
    /\ UNCHANGED <<device, issuer>>

(* The issuer's configuration, and in it the keys that will verify the     *)
(* credential, is fetched once.                                            *)
EvaluateIssuerTrust(f) ==
    /\ At(f, "trust")
    /\ fl' = [fl EXCEPT ![f].conf = issuerKey, ![f].pc = "client"]
    /\ UNCHANGED <<device, issuer>>

(* The client id is the kid of the WIA key now; the verifier is random.    *)
StartUserAuthorization(f) ==
    /\ At(f, "client")
    /\ fl' = [fl EXCEPT ![f].client = wiaKey, ![f].verifier = f,
                        ![f].pc = If(wiaKey # None, "kid")]
    /\ UNCHANGED <<device, issuer>>

(* makeParRequest reads the key again for the header of the request, makes *)
(* the proof of possession and signs the request.  Like every token with   *)
(* the key in its header, the proof takes two awaits, and is no proof of   *)
(* any key (None) when the key is replaced between them.                   *)
ParKid(f) ==
    /\ At(f, "kid")
    /\ fl' = [fl EXCEPT ![f].kid = wiaKey, ![f].pc = If(wiaKey # None, "par_pop")]
    /\ UNCHANGED <<device, issuer>>

ParPopHeader(f) ==
    /\ At(f, "par_pop")
    /\ fl' = [fl EXCEPT ![f].pop = wiaKey, ![f].pc = If(wiaKey # None, "par_pop_sign")]
    /\ UNCHANGED <<device, issuer>>

ParPopSign(f) ==
    /\ At(f, "par_pop_sign")
    /\ fl' = [fl EXCEPT ![f].pop = IF @ = wiaKey THEN @ ELSE None,
                        ![f].pc = If(wiaKey # None, "par_sign")]
    /\ UNCHANGED <<device, issuer>>

ParSign(f) ==
    /\ At(f, "par_sign")
    /\ fl' = [fl EXCEPT ![f].sig = wiaKey, ![f].pc = If(wiaKey # None, "par_post")]
    /\ UNCHANGED <<device, issuer>>

(* The issuer accepts a request whose signatures, kid and client id all    *)
(* are of the key the attestation was issued for.                          *)
ParPost(f) ==
    LET r == fl[f]
        accepted == {r.client, r.kid, r.pop, r.sig} = {r.wia}
    IN  /\ At(f, "par_post")
        /\ requests' = IF accepted
                       THEN [requests EXCEPT ![f] =
                                [client |-> r.client, challenge |-> r.verifier]]
                       ELSE requests
        /\ Goto(f, If(accepted, IF f \in QueryFlow THEN "redirect"
                                ELSE "request_object"))
        /\ UNCHANGED <<device, issuerKey, codes, used, issued>>

-----------------------------------------------------------------------------
(* Step 4: completeUserAuthorization.                                      *)

(* Environment: the user authorises the request of a flow in the browser,  *)
(* which opens the redirect URI with the code.  The event reaches every    *)
(* flow that listens, and a later event overwrites an earlier one; when    *)
(* none listens the code is lost.                                          *)
Redirect(g) ==
    /\ g \in QueryFlow \ codes
    /\ requests[g] # None
    /\ codes' = codes \cup {g}
    /\ fl' = [f \in Flow |-> IF At(f, "redirect") THEN [fl[f] EXCEPT !.code = g]
                             ELSE fl[f]]
    /\ UNCHANGED <<device, issuerKey, requests, used, issued>>

(* until() sees the URL; state and iss of the response are not compared    *)
(* with anything.                                                          *)
CompleteWithQueryMode(f) ==
    /\ At(f, "redirect")
    /\ fl[f].code # None
    /\ Goto(f, "dpop_delete")
    /\ UNCHANGED <<device, issuer>>

(* until() gives up when no redirect has come in 120 seconds.              *)
RedirectTimeout_Never(f) ==
    /\ At(f, "redirect")
    /\ fl[f].code # None
    /\ Goto(f, "failed")
    /\ UNCHANGED <<device, issuer>>

RedirectTimeout(f) ==
    /\ At(f, "redirect")
    /\ fl[f].code = None
    /\ Goto(f, "failed")
    /\ UNCHANGED <<device, issuer>>

GetRequestedCredential(f) ==
    /\ At(f, "request_object")
    /\ Goto(f, "wia_vp")
    /\ UNCHANGED <<device, issuer>>

SignWiaPresentation(f) ==
    /\ At(f, "wia_vp")
    /\ fl' = [fl EXCEPT ![f].sig = wiaKey, ![f].pc = If(wiaKey # None, "form_post")]
    /\ UNCHANGED <<device, issuer>>

(* The PID presentation is signed, both are posted to the response URI and *)
(* the code is read from the form behind the redirect URI.                 *)
CompleteWithFormPostJwtMode(f) ==
    LET accepted == fl[f].sig = fl[f].wia
    IN  /\ At(f, "form_post")
        /\ codes' = IF accepted THEN codes \cup {f} ELSE codes
        /\ fl' = [fl EXCEPT ![f].code = IF accepted THEN f ELSE None,
                            ![f].pc = If(accepted, "dpop_delete")]
        /\ UNCHANGED <<device, issuerKey, requests, used, issued>>
-----------------------------------------------------------------------------
(* Step 5: regenerateCryptoKey(DPOP_KEYTAG), then authorizeAccess.         *)

DpopDelete_Skipped(f) ==
    /\ At(f, "dpop_delete")
    /\ Goto(f, "dpop_generate")
    /\ UNCHANGED <<device, issuer>>

DpopDelete(f) ==
    /\ At(f, "dpop_delete")
    /\ dpopKey' = None
    /\ Goto(f, "dpop_generate")
    /\ UNCHANGED <<wiaKey, wiaKeys, dpopKeys, issuer>>

(* generate throws when another flow generated a key meanwhile.            *)
DpopGenerate(f) ==
    /\ At(f, "dpop_generate")
    /\ IF dpopKey # None
       THEN Goto(f, "failed") /\ UNCHANGED <<dpopKey, dpopKeys>>
       ELSE /\ dpopKeys < MaxDpop
            /\ dpopKeys' = dpopKeys + 1 /\ dpopKey' = dpopKeys + 1
            /\ Goto(f, "token_dpop")
    /\ UNCHANGED <<wiaKey, wiaKeys, issuer>>

TokenDpopHeader(f) ==
    /\ At(f, "token_dpop")
    /\ fl' = [fl EXCEPT ![f].dpop = dpopKey, ![f].pc = If(dpopKey # None, "token_dpop_sign")]
    /\ UNCHANGED <<device, issuer>>

TokenDpopSign(f) ==
    /\ At(f, "token_dpop_sign")
    /\ fl' = [fl EXCEPT ![f].dpop = IF @ = dpopKey THEN @ ELSE None,
                        ![f].pc = If(dpopKey # None, "token_pop")]
    /\ UNCHANGED <<device, issuer>>

TokenPopHeader(f) ==
    /\ At(f, "token_pop")
    /\ fl' = [fl EXCEPT ![f].pop = wiaKey, ![f].pc = If(wiaKey # None, "token_pop_sign")]
    /\ UNCHANGED <<device, issuer>>

TokenPopSign(f) ==
    /\ At(f, "token_pop_sign")
    /\ fl' = [fl EXCEPT ![f].pop = IF @ = wiaKey THEN @ ELSE None,
                        ![f].pc = If(wiaKey # None, "token_post")]
    /\ UNCHANGED <<device, issuer>>

(* The issuer's token endpoint spends a code once, for the client that     *)
(* pushed the request and knows its verifier (PKCE), and binds the token   *)
(* to the key of the DPoP proof.  It may invalidate a code it refuses, and *)
(* may grant authorization_details other than the requested ones.          *)
AuthorizeAccess(f) ==
    LET r == fl[f]
        request == requests[r.code]
        accepted == /\ r.code \notin used
                    /\ request.challenge = r.verifier
                    /\ request.client = r.client
                    /\ r.pop = r.wia /\ r.dpop # None
    IN  /\ At(f, "token_post")
        /\ \E g \in BOOLEAN :
                fl' = [fl EXCEPT
                    ![f].token = IF accepted
                                 THEN [code |-> r.code, dpop |-> r.dpop, granted |-> g]
                                 ELSE None,
                    ![f].pc = If(accepted, "nonce_proof")]
        /\ used' \in IF accepted THEN {used \cup {r.code}}
                      ELSE {used, used \cup {r.code}}
        /\ UNCHANGED <<device, issuerKey, requests, codes, issued>>

-----------------------------------------------------------------------------
(* Step 6: obtainCredential.                                               *)

(* The proof is signed with the holder key; then the granted details must  *)
(* contain the requested definition.                                       *)
NonceProof_Unchecked(f) ==
    /\ At(f, "nonce_proof")
    /\ fl' = [fl EXCEPT ![f].pc = "cred_dpop"]
    /\ UNCHANGED <<device, issuer>>

NonceProof(f) ==
    /\ At(f, "nonce_proof")
    /\ fl' = [fl EXCEPT ![f].pc = If(fl[f].token.granted, "cred_dpop")]
    /\ UNCHANGED <<device, issuer>>

CredentialDpopHeader(f) ==
    /\ At(f, "cred_dpop")
    /\ fl' = [fl EXCEPT ![f].dpop = dpopKey, ![f].pc = If(dpopKey # None, "cred_dpop_sign")]
    /\ UNCHANGED <<device, issuer>>

CredentialDpopSign(f) ==
    /\ At(f, "cred_dpop_sign")
    /\ fl' = [fl EXCEPT ![f].dpop = IF @ = dpopKey THEN @ ELSE None,
                        ![f].pc = If(dpopKey # None, "cred_post")]
    /\ UNCHANGED <<device, issuer>>

(* The issuer answers a request whose DPoP proof is of the key the token   *)
(* is bound to.  Which key it binds the credential to is up to it.         *)
ObtainCredential(f) ==
    LET r == fl[f]
        accepted == r.dpop = r.token.dpop
    IN  /\ At(f, "cred_post")
        /\ IF accepted
           THEN \E h \in Flow :
                LET c == [grant |-> r.token.code, holder |-> h, signer |-> issuerKey]
                IN  /\ issued' = issued \cup {c}
                    /\ fl' = [fl EXCEPT ![f].cred = c, ![f].pc = "verify"]
           ELSE Goto(f, "failed") /\ UNCHANGED issued
        /\ UNCHANGED <<device, issuerKey, requests, codes, used>>

-----------------------------------------------------------------------------
(* Step 7: verifyAndParseCredential.                                       *)

VerifyAndParseCredential_NoHolder(f) ==
    /\ At(f, "verify")
    /\ Goto(f, If(fl[f].cred.signer = fl[f].conf, "done"))
    /\ UNCHANGED <<device, issuer>>

(* The signature verifies with a key of the configuration fetched in step  *)
(* 2 and cnf names the holder key of this flow.                            *)
VerifyAndParseCredential(f) ==
    /\ At(f, "verify")
    /\ Goto(f, If(fl[f].cred.signer = fl[f].conf /\ fl[f].cred.holder = f, "done"))
    /\ UNCHANGED <<device, issuer>>

-----------------------------------------------------------------------------
Awaiting ==
    {"trust", "client", "kid", "par_pop", "par_pop_sign", "par_sign",
     "par_post", "redirect", "request_object", "wia_vp", "form_post",
     "dpop_delete", "dpop_generate", "token_dpop", "token_dpop_sign",
     "token_pop", "token_pop_sign", "token_post", "nonce_proof",
     "cred_dpop", "cred_dpop_sign", "cred_post", "verify"}

(* What a flow awaits may fail: a call answered with an unexpected status  *)
(* or body, a lost answer, a keystore error, an authorisation the user     *)
(* denied, a caller that aborts, a response of an unknown shape.           *)
Fail(f) ==
    /\ fl[f].pc \in Awaiting
    /\ Goto(f, "failed")
    /\ UNCHANGED <<device, issuer>>

(* Environment: an attestation refresh replaces the WIA key (module        *)
(* WalletInstance), in two steps like every regenerateCryptoKey.           *)
WiaDelete ==
    /\ wiaKey' = None
    /\ UNCHANGED <<wiaKeys, dpopKey, dpopKeys, issuer, fl>>

WiaGenerate ==
    /\ wiaKey = None
    /\ wiaKeys < MaxWia
    /\ wiaKeys' = wiaKeys + 1 /\ wiaKey' = wiaKeys + 1
    /\ UNCHANGED <<dpopKey, dpopKeys, issuer, fl>>

(* Environment: the issuer starts to sign with a new key.                  *)
RotateIssuerKey ==
    /\ issuerKey < MaxIssuerKey
    /\ issuerKey' = issuerKey + 1
    /\ UNCHANGED <<device, requests, codes, used, issued, fl>>

Step(f) ==
    \/ EvaluateIssuerTrust(f) \/ StartUserAuthorization(f)
    \/ ParKid(f) \/ ParPopHeader(f) \/ ParPopSign(f) \/ ParSign(f) \/ ParPost(f)
    \/ CompleteWithQueryMode(f) \/ RedirectTimeout(f)
    \/ GetRequestedCredential(f) \/ SignWiaPresentation(f)
    \/ CompleteWithFormPostJwtMode(f)
    \/ DpopDelete(f) \/ DpopGenerate(f)
    \/ TokenDpopHeader(f) \/ TokenDpopSign(f)
    \/ TokenPopHeader(f) \/ TokenPopSign(f) \/ AuthorizeAccess(f)
    \/ NonceProof(f) \/ CredentialDpopHeader(f) \/ CredentialDpopSign(f)
    \/ ObtainCredential(f) \/ VerifyAndParseCredential(f)

Next ==
    \/ \E f \in Flow : StartFlow(f) \/ Step(f) \/ Fail(f) \/ Redirect(f)
    \/ WiaDelete \/ WiaGenerate \/ RotateIssuerKey

Spec == Init /\ [][Next]_vars

(* Every await settles, so a flow that is not over takes its next step;    *)
(* the wait for a redirect by its timeout, if nothing else ends it.        *)
FairSpec == Spec /\ \A f \in Flow : WF_vars(Step(f))

-----------------------------------------------------------------------------
Wia == WiaKey \cup {None}
Dpop == DpopKey \cup {None}
FlowState == [pc : Awaiting \cup {"idle", "done", "failed"},
              wia : Wia, conf : IssuerKey \cup {None}, client : Wia,
              verifier : Flow \cup {None}, kid : Wia, pop : Wia, sig : Wia,
              code : Flow \cup {None}, dpop : Dpop,
              token : Token \cup {None}, cred : Credential \cup {None}]

(* The flows, the keystore and the issuer stay in their domains.           *)
TypeOK ==
    /\ wiaKey \in Wia /\ wiaKeys \in WiaKey
    /\ dpopKey \in Dpop /\ dpopKeys \in 0 .. MaxDpop
    /\ issuerKey \in IssuerKey
    /\ requests \in [Flow -> Request \cup {None}]
    /\ codes \subseteq Flow /\ used \subseteq codes
    /\ issued \subseteq Credential
    /\ fl \in [Flow -> FlowState]

(* A credential returned by a flow was issued on the authorisation of that *)
(* very flow, for a definition the token granted, is bound to its holder   *)
(* key and verifies under the configuration it fetched, although redirect  *)
(* events reach every listening flow and neither the state nor the iss of  *)
(* the response is compared: the code verifier of startUserAuthorization   *)
(* makes the token endpoint refuse a code of another flow.                 *)
DeliveredIsOwn ==
    \A f \in Flow : At(f, "done") =>
        /\ f \in codes /\ fl[f].token.granted
        /\ fl[f].cred \in issued
        /\ fl[f].cred = [grant |-> f, holder |-> f, signer |-> fl[f].conf]

(* A flow that runs alone does not stand in its own way: the keys it reads *)
(* again at each step, the codes and the tokens stay consistent, so that a *)
(* step none of whose awaits fails makes the issuance fail only because    *)
(* no redirect came, the wallet attestation key was replaced, or the       *)
(* issuer granted something else, rotated its key or bound the credential  *)
(* to another key.                                                         *)
LoneFlowFailsForAReason ==
    [][\A f \in Flow :
        (/\ Step(f) /\ fl'[f].pc = "failed"
         /\ \A g \in Flow \ {f} : At(g, "idle"))
            => \/ RedirectTimeout(f)
               \/ wiaKey # fl[f].wia
               \/ At(f, "nonce_proof") /\ ~ fl[f].token.granted
               \/ At(f, "verify") /\ fl[f].cred.signer # fl[f].conf
               \/ At(f, "verify") /\ fl[f].cred.holder # f]_vars

(* The token and the credential request of a flow carry DPoP proofs of one *)
(* key: getCredential and getPidCieID make a key "which will be used for   *)
(* the whole issuance flow".                                               *)
(* The code does not keep this (README, Findings).                         *)
OneDpopKeyPerFlow ==
    \A f \in Flow : At(f, "cred_post") => fl[f].dpop = fl[f].token.dpop

(* Every flow that was started returns a credential or fails: no await of  *)
(* the issuance is left pending, whichever flow caught the redirect.       *)
FlowEnds ==
    \A f \in Flow : fl[f].pc = "trust" ~> fl[f].pc \in {"done", "failed"}

-----------------------------------------------------------------------------
(* The promise of IssuanceContract, read off the state of the flows.       *)
statusOf(pc) == IF pc \in {"idle", "done", "failed"} THEN pc ELSE "running"
parties(c) == [grant |-> c.grant, holder |-> c.holder]

statuses == [f \in Flow |-> statusOf(fl[f].pc)]
deliveries == [f \in Flow |-> IF At(f, "done") THEN parties(fl[f].cred) ELSE None]

Contract == INSTANCE IssuanceContract WITH
    status <- statuses, authorized <- codes,
    issued <- {parties(c) : c \in issued}, delivered <- deliveries

(* The protocol, with its shared keys, mixed-up redirects and refreshes,   *)
(* implements the contract: callers of issuance see independent flows.     *)
ImplementsContract == Contract!CSpec
=============================================================================
