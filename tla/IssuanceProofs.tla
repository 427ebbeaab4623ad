--------------------------- MODULE IssuanceProofs ---------------------------
(***************************************************************************)
(* For any number of flows, keys and rotations: a delivered credential     *)
(* belongs to the flow that returns it, the protocol implements            *)
(* IssuanceContract, and a flow that runs alone fails for a reason.        *)
(* DeliveredIsOwn speaks of the last step of a flow only; the inductive    *)
(* invariant follows the verifier, the code, the token and the credential  *)
(* through the steps in between.                                           *)
(***************************************************************************)
EXTENDS Issuance, TLAPS

HasVerifier == Awaiting \ {"trust", "client"}
Pushed == {"request_object", "wia_vp", "form_post"}
HasCode == {"dpop_delete", "dpop_generate", "token_dpop", "token_dpop_sign",
            "token_pop", "token_pop_sign", "token_post"}
Granted == {"cred_dpop", "cred_dpop_sign", "cred_post", "verify", "done"}
HasToken == Granted \cup {"nonce_proof"}
HasCredential == {"verify", "done"}

(* What a flow knows at each of its steps.                                 *)
Knows(f) ==
    /\ fl[f].pc \in HasVerifier => fl[f].client # None /\ fl[f].verifier = f
    /\ fl[f].pc \in Pushed => requests[f] # None
    /\ fl[f].pc \in HasCode => fl[f].code # None
    /\ fl[f].code # None => fl[f].code \in codes
    /\ fl[f].pc \in HasToken => fl[f].token # None
    /\ fl[f].token # None => fl[f].token.code = f /\ f \in codes
    /\ fl[f].pc \in Granted => fl[f].token.granted
    /\ fl[f].pc \in HasCredential => fl[f].cred \in issued /\ fl[f].cred.grant = f
    /\ fl[f].pc = "done" => fl[f].cred.signer = fl[f].conf /\ fl[f].cred.holder = f

(* What the issuer's records say of the flows.                             *)
Records ==
    /\ \A g \in Flow : requests[g] # None =>
            requests[g].challenge = g /\ fl[g].pc # "idle"
    /\ \A g \in codes : requests[g] # None

Inv == TypeOK /\ Records /\ \A f \in Flow : Knows(f)

(* A flow stays in its domain when it gets a token or a credential.        *)
LEMMA WithToken ==
    ASSUME NEW r \in FlowState, NEW token \in Token \cup {None},
           NEW pc \in Awaiting \cup {"failed"}
    PROVE  [r EXCEPT !.token = token, !.pc = pc] \in FlowState
  BY DEF FlowState

LEMMA WithCredential ==
    ASSUME NEW r \in FlowState, NEW c \in Credential
    PROVE  [r EXCEPT !.cred = c, !.pc = "verify"] \in FlowState
  BY DEF FlowState, Awaiting

(* Every step keeps the state in its domains.                              *)
LEMMA NextType == Inv /\ [Next]_vars => TypeOK'
<1> SUFFICES ASSUME Inv, [Next]_vars PROVE TypeOK'
  OBVIOUS
<1> USE IssuanceAssumption DEF Inv, TypeOK, FlowState, Wia, Dpop, Awaiting,
        At, Goto, If, device, issuer
<1>1. ASSUME NEW f \in Flow, EvaluateIssuerTrust(f) PROVE TypeOK'
  BY <1>1 DEF EvaluateIssuerTrust
<1>2. ASSUME NEW f \in Flow, StartUserAuthorization(f) PROVE TypeOK'
  BY <1>2 DEF StartUserAuthorization
<1>3. ASSUME NEW f \in Flow, ParKid(f) PROVE TypeOK'
  BY <1>3 DEF ParKid
<1>4. ASSUME NEW f \in Flow, ParPopHeader(f) PROVE TypeOK'
  BY <1>4 DEF ParPopHeader
<1>5. ASSUME NEW f \in Flow, ParPopSign(f) PROVE TypeOK'
  BY <1>5 DEF ParPopSign
<1>6. ASSUME NEW f \in Flow, ParSign(f) PROVE TypeOK'
  BY <1>6 DEF ParSign
<1>7. ASSUME NEW f \in Flow, CompleteWithQueryMode(f) PROVE TypeOK'
  BY <1>7 DEF CompleteWithQueryMode
<1>8. ASSUME NEW f \in Flow, RedirectTimeout(f) PROVE TypeOK'
  BY <1>8 DEF RedirectTimeout
<1>9. ASSUME NEW f \in Flow, GetRequestedCredential(f) PROVE TypeOK'
  BY <1>9 DEF GetRequestedCredential
<1>10. ASSUME NEW f \in Flow, SignWiaPresentation(f) PROVE TypeOK'
  BY <1>10 DEF SignWiaPresentation
<1>11. ASSUME NEW f \in Flow, CompleteWithFormPostJwtMode(f) PROVE TypeOK'
  BY <1>11 DEF CompleteWithFormPostJwtMode
<1>12. ASSUME NEW f \in Flow, DpopDelete(f) PROVE TypeOK'
  BY <1>12 DEF DpopDelete
<1>13. ASSUME NEW f \in Flow, TokenDpopHeader(f) PROVE TypeOK'
  BY <1>13 DEF TokenDpopHeader
<1>14. ASSUME NEW f \in Flow, TokenDpopSign(f) PROVE TypeOK'
  BY <1>14 DEF TokenDpopSign
<1>15. ASSUME NEW f \in Flow, TokenPopHeader(f) PROVE TypeOK'
  BY <1>15 DEF TokenPopHeader
<1>16. ASSUME NEW f \in Flow, TokenPopSign(f) PROVE TypeOK'
  BY <1>16 DEF TokenPopSign
<1>17. ASSUME NEW f \in Flow, NonceProof(f) PROVE TypeOK'
  BY <1>17 DEF NonceProof
<1>18. ASSUME NEW f \in Flow, CredentialDpopHeader(f) PROVE TypeOK'
  BY <1>18 DEF CredentialDpopHeader
<1>19. ASSUME NEW f \in Flow, CredentialDpopSign(f) PROVE TypeOK'
  BY <1>19 DEF CredentialDpopSign
<1>20. ASSUME NEW f \in Flow, VerifyAndParseCredential(f) PROVE TypeOK'
  BY <1>20 DEF VerifyAndParseCredential
<1>21. ASSUME NEW f \in Flow, Fail(f) PROVE TypeOK'
  BY <1>21 DEF Fail
<1>22. ASSUME NEW f \in Flow, StartFlow(f) PROVE TypeOK'
  BY <1>22 DEF StartFlow, WiaKey
<1>23. ASSUME NEW f \in Flow, DpopGenerate(f) PROVE TypeOK'
  BY <1>23 DEF DpopGenerate, DpopKey
<1>24. ASSUME NEW f \in Flow, ParPost(f) PROVE TypeOK'
  <2> DEFINE r == fl[f]
             accepted == {r.client, r.kid, r.pop, r.sig} = {r.wia}
             request == [client |-> r.client, challenge |-> r.verifier]
  <2>1. request \in Request
    BY <1>24 DEF ParPost, Knows, HasVerifier, Request
  <2>2. requests' \in [Flow -> Request \cup {None}]
    BY <1>24, <2>1 DEF ParPost
  <2>3. PICK pc \in Awaiting \cup {"failed"} : fl' = [fl EXCEPT ![f].pc = pc]
    BY <1>24 DEF ParPost
  <2>4. fl' \in [Flow -> FlowState]
    BY <2>3
  <2> QED
    BY <1>24, <2>2, <2>4 DEF ParPost
<1>25. ASSUME NEW f \in Flow, AuthorizeAccess(f) PROVE TypeOK'
  <2> DEFINE r == fl[f]
  <2>1. r.code \in codes
    BY <1>25 DEF AuthorizeAccess, Knows, HasCode
  <2>2. used' \subseteq codes'
    BY <1>25, <2>1 DEF AuthorizeAccess
  <2>3. r.dpop # None =>
          \A g \in BOOLEAN : [code |-> r.code, dpop |-> r.dpop, granted |-> g] \in Token
    BY <2>1 DEF Token
  <2>4. PICK token \in Token \cup {None}, pc \in {"nonce_proof", "failed"} :
            fl' = [fl EXCEPT ![f].token = token, ![f].pc = pc]
    BY <1>25, <2>3 DEF AuthorizeAccess
  <2>5. [r EXCEPT !.token = token, !.pc = pc] \in FlowState
    <3>1. r \in FlowState
      OBVIOUS
    <3> HIDE DEF r, Inv, TypeOK, FlowState
    <3> QED
      BY <2>4, <3>1, WithToken
  <2>6. fl' \in [Flow -> FlowState]
    BY <2>4, <2>5
  <2> QED
    BY <1>25, <2>2, <2>6 DEF AuthorizeAccess
<1>26. ASSUME NEW f \in Flow, ObtainCredential(f) PROVE TypeOK'
  <2> DEFINE r == fl[f]
             credential(h) == [grant |-> r.token.code, holder |-> h, signer |-> issuerKey]
  <2>1. \A h \in Flow : credential(h) \in Credential
    BY <1>26 DEF ObtainCredential, Knows, HasToken, Granted, Credential
  <2>2. CASE r.dpop = r.token.dpop
    <3>1. PICK h \in Flow : /\ issued' = issued \cup {credential(h)}
                            /\ fl' = [fl EXCEPT ![f].cred = credential(h), ![f].pc = "verify"]
      BY <1>26, <2>2 DEF ObtainCredential
    <3> HIDE DEF credential
    <3>2. [r EXCEPT !.cred = credential(h), !.pc = "verify"] \in FlowState
      <4>1. credential(h) \in Credential
        BY <2>1
      <4>2. r \in FlowState
        OBVIOUS
      <4> HIDE DEF r, Inv, TypeOK, FlowState
      <4> QED
        BY <4>1, <4>2, WithCredential
    <3>3. issued' \subseteq Credential /\ fl' \in [Flow -> FlowState]
      BY <2>1, <3>1, <3>2
    <3> QED
      BY <1>26, <3>3 DEF ObtainCredential
  <2>3. CASE r.dpop # r.token.dpop
    BY <1>26, <2>3 DEF ObtainCredential
  <2> QED
    BY <2>2, <2>3
<1>27. ASSUME NEW g \in Flow, Redirect(g) PROVE TypeOK'
  BY <1>27 DEF Redirect
<1>28. CASE WiaDelete
  BY <1>28 DEF WiaDelete
<1>29. CASE WiaGenerate
  BY <1>29 DEF WiaGenerate, WiaKey
<1>30. CASE RotateIssuerKey
  BY <1>30 DEF RotateIssuerKey, IssuerKey
<1>31. CASE UNCHANGED vars
  BY <1>31 DEF vars
<1> QED
  BY <1>1, <1>2, <1>3, <1>4, <1>5, <1>6, <1>7, <1>8, <1>9, <1>10, <1>11, <1>12, <1>13, <1>14, <1>15, <1>16, <1>17, <1>18, <1>19, <1>20, <1>21, <1>22, <1>23, <1>24, <1>25, <1>26, <1>27, <1>28, <1>29, <1>30, <1>31 DEF Next, Step

(* Every step keeps the issuer's records and what the flows know in        *)
(* agreement.  The token endpoint is where redirects meant for another     *)
(* flow are sorted out: the challenge of a request is the flow that made   *)
(* it, so a code whose challenge is this flow's verifier is its own.       *)
LEMMA NextKnows == Inv /\ [Next]_vars => Records' /\ \A f \in Flow : Knows(f)'
<1> SUFFICES ASSUME Inv, [Next]_vars PROVE Records' /\ \A f \in Flow : Knows(f)'
  OBVIOUS
<1> USE IssuanceAssumption DEF Inv, TypeOK, FlowState, At, Goto, If, device, issuer
<1> DEFINE Goal == Records' /\ \A g \in Flow : Knows(g)'
<1>1. ASSUME NEW f \in Flow, EvaluateIssuerTrust(f) PROVE Goal
  <2>1. Records'
    BY <1>1 DEF EvaluateIssuerTrust, Records
  <2>2. ASSUME NEW g \in Flow PROVE Knows(g)'
    BY <1>1, <2>2 DEF EvaluateIssuerTrust, Knows, Awaiting, HasVerifier, Pushed,
          HasCode, Granted, HasToken, HasCredential
  <2> QED
    BY <2>1, <2>2
<1>2. ASSUME NEW f \in Flow, StartUserAuthorization(f) PROVE Goal
  <2>1. Records'
    BY <1>2 DEF StartUserAuthorization, Records
  <2>2. ASSUME NEW g \in Flow PROVE Knows(g)'
    BY <1>2, <2>2 DEF StartUserAuthorization, Knows, Awaiting, HasVerifier, Pushed,
          HasCode, Granted, HasToken, HasCredential
  <2> QED
    BY <2>1, <2>2
<1>3. ASSUME NEW f \in Flow, ParKid(f) PROVE Goal
  <2>1. Records'
    BY <1>3 DEF ParKid, Records
  <2>2. ASSUME NEW g \in Flow PROVE Knows(g)'
    BY <1>3, <2>2 DEF ParKid, Knows, Awaiting, HasVerifier, Pushed,
          HasCode, Granted, HasToken, HasCredential
  <2> QED
    BY <2>1, <2>2
<1>4. ASSUME NEW f \in Flow, ParPopHeader(f) PROVE Goal
  <2>1. Records'
    BY <1>4 DEF ParPopHeader, Records
  <2>2. ASSUME NEW g \in Flow PROVE Knows(g)'
    BY <1>4, <2>2 DEF ParPopHeader, Knows, Awaiting, HasVerifier, Pushed,
          HasCode, Granted, HasToken, HasCredential
  <2> QED
    BY <2>1, <2>2
<1>5. ASSUME NEW f \in Flow, ParPopSign(f) PROVE Goal
  <2>1. Records'
    BY <1>5 DEF ParPopSign, Records
  <2>2. ASSUME NEW g \in Flow PROVE Knows(g)'
    <3>1. CASE g = f
      BY <1>5, <3>1 DEF ParPopSign, Knows, Awaiting,
          HasVerifier, Pushed, HasCode, Granted, HasToken, HasCredential
    <3>2. CASE g # f
      BY <1>5, <3>2 DEF ParPopSign, Knows, Awaiting,
          HasVerifier, Pushed, HasCode, Granted, HasToken, HasCredential
    <3> QED
      BY <3>1, <3>2
  <2> QED
    BY <2>1, <2>2
<1>6. ASSUME NEW f \in Flow, ParSign(f) PROVE Goal
  <2>1. Records'
    BY <1>6 DEF ParSign, Records
  <2>2. ASSUME NEW g \in Flow PROVE Knows(g)'
    BY <1>6, <2>2 DEF ParSign, Knows, Awaiting, HasVerifier, Pushed,
          HasCode, Granted, HasToken, HasCredential
  <2> QED
    BY <2>1, <2>2
<1>7. ASSUME NEW f \in Flow, CompleteWithQueryMode(f) PROVE Goal
  <2>1. Records'
    BY <1>7 DEF CompleteWithQueryMode, Records
  <2>2. ASSUME NEW g \in Flow PROVE Knows(g)'
    BY <1>7, <2>2 DEF CompleteWithQueryMode, Knows, Awaiting, HasVerifier, Pushed,
          HasCode, Granted, HasToken, HasCredential
  <2> QED
    BY <2>1, <2>2
<1>8. ASSUME NEW f \in Flow, RedirectTimeout(f) PROVE Goal
  <2>1. Records'
    BY <1>8 DEF RedirectTimeout, Records
  <2>2. ASSUME NEW g \in Flow PROVE Knows(g)'
    BY <1>8, <2>2 DEF RedirectTimeout, Knows, Awaiting, HasVerifier, Pushed,
          HasCode, Granted, HasToken, HasCredential
  <2> QED
    BY <2>1, <2>2
<1>9. ASSUME NEW f \in Flow, GetRequestedCredential(f) PROVE Goal
  <2>1. Records'
    BY <1>9 DEF GetRequestedCredential, Records
  <2>2. ASSUME NEW g \in Flow PROVE Knows(g)'
    BY <1>9, <2>2 DEF GetRequestedCredential, Knows, Awaiting, HasVerifier, Pushed,
          HasCode, Granted, HasToken, HasCredential
  <2> QED
    BY <2>1, <2>2
<1>10. ASSUME NEW f \in Flow, SignWiaPresentation(f) PROVE Goal
  <2>1. Records'
    BY <1>10 DEF SignWiaPresentation, Records
  <2>2. ASSUME NEW g \in Flow PROVE Knows(g)'
    BY <1>10, <2>2 DEF SignWiaPresentation, Knows, Awaiting, HasVerifier, Pushed,
          HasCode, Granted, HasToken, HasCredential
  <2> QED
    BY <2>1, <2>2
<1>11. ASSUME NEW f \in Flow, CompleteWithFormPostJwtMode(f) PROVE Goal
  <2>1. Records'
    BY <1>11 DEF CompleteWithFormPostJwtMode, Records
  <2>2. ASSUME NEW g \in Flow PROVE Knows(g)'
    <3>1. CASE g = f
      BY <1>11, <3>1 DEF CompleteWithFormPostJwtMode, Knows, Awaiting,
          HasVerifier, Pushed, HasCode, Granted, HasToken, HasCredential
    <3>2. CASE g # f
      BY <1>11, <3>2 DEF CompleteWithFormPostJwtMode, Knows, Awaiting,
          HasVerifier, Pushed, HasCode, Granted, HasToken, HasCredential
    <3> QED
      BY <3>1, <3>2
  <2> QED
    BY <2>1, <2>2
<1>12. ASSUME NEW f \in Flow, DpopDelete(f) PROVE Goal
  <2>1. Records'
    BY <1>12 DEF DpopDelete, Records
  <2>2. ASSUME NEW g \in Flow PROVE Knows(g)'
    BY <1>12, <2>2 DEF DpopDelete, Knows, Awaiting, HasVerifier, Pushed,
          HasCode, Granted, HasToken, HasCredential
  <2> QED
    BY <2>1, <2>2
<1>13. ASSUME NEW f \in Flow, TokenDpopHeader(f) PROVE Goal
  <2>1. Records'
    BY <1>13 DEF TokenDpopHeader, Records
  <2>2. ASSUME NEW g \in Flow PROVE Knows(g)'
    BY <1>13, <2>2 DEF TokenDpopHeader, Knows, Awaiting, HasVerifier, Pushed,
          HasCode, Granted, HasToken, HasCredential
  <2> QED
    BY <2>1, <2>2
<1>14. ASSUME NEW f \in Flow, TokenDpopSign(f) PROVE Goal
  <2>1. Records'
    BY <1>14 DEF TokenDpopSign, Records
  <2>2. ASSUME NEW g \in Flow PROVE Knows(g)'
    <3>1. CASE g = f
      BY <1>14, <3>1 DEF TokenDpopSign, Knows, Awaiting,
          HasVerifier, Pushed, HasCode, Granted, HasToken, HasCredential
    <3>2. CASE g # f
      BY <1>14, <3>2 DEF TokenDpopSign, Knows, Awaiting,
          HasVerifier, Pushed, HasCode, Granted, HasToken, HasCredential
    <3> QED
      BY <3>1, <3>2
  <2> QED
    BY <2>1, <2>2
<1>15. ASSUME NEW f \in Flow, TokenPopHeader(f) PROVE Goal
  <2>1. Records'
    BY <1>15 DEF TokenPopHeader, Records
  <2>2. ASSUME NEW g \in Flow PROVE Knows(g)'
    BY <1>15, <2>2 DEF TokenPopHeader, Knows, Awaiting, HasVerifier, Pushed,
          HasCode, Granted, HasToken, HasCredential
  <2> QED
    BY <2>1, <2>2
<1>16. ASSUME NEW f \in Flow, TokenPopSign(f) PROVE Goal
  <2>1. Records'
    BY <1>16 DEF TokenPopSign, Records
  <2>2. ASSUME NEW g \in Flow PROVE Knows(g)'
    <3>1. CASE g = f
      BY <1>16, <3>1 DEF TokenPopSign, Knows, Awaiting,
          HasVerifier, Pushed, HasCode, Granted, HasToken, HasCredential
    <3>2. CASE g # f
      BY <1>16, <3>2 DEF TokenPopSign, Knows, Awaiting,
          HasVerifier, Pushed, HasCode, Granted, HasToken, HasCredential
    <3> QED
      BY <3>1, <3>2
  <2> QED
    BY <2>1, <2>2
<1>17. ASSUME NEW f \in Flow, NonceProof(f) PROVE Goal
  <2>1. Records'
    BY <1>17 DEF NonceProof, Records
  <2>2. ASSUME NEW g \in Flow PROVE Knows(g)'
    BY <1>17, <2>2 DEF NonceProof, Knows, Awaiting, HasVerifier, Pushed,
          HasCode, Granted, HasToken, HasCredential
  <2> QED
    BY <2>1, <2>2
<1>18. ASSUME NEW f \in Flow, CredentialDpopHeader(f) PROVE Goal
  <2>1. Records'
    BY <1>18 DEF CredentialDpopHeader, Records
  <2>2. ASSUME NEW g \in Flow PROVE Knows(g)'
    BY <1>18, <2>2 DEF CredentialDpopHeader, Knows, Awaiting, HasVerifier, Pushed,
          HasCode, Granted, HasToken, HasCredential
  <2> QED
    BY <2>1, <2>2
<1>19. ASSUME NEW f \in Flow, CredentialDpopSign(f) PROVE Goal
  <2>1. Records'
    BY <1>19 DEF CredentialDpopSign, Records
  <2>2. ASSUME NEW g \in Flow PROVE Knows(g)'
    <3>1. CASE g = f
      BY <1>19, <3>1 DEF CredentialDpopSign, Knows, Awaiting,
          HasVerifier, Pushed, HasCode, Granted, HasToken, HasCredential
    <3>2. CASE g # f
      BY <1>19, <3>2 DEF CredentialDpopSign, Knows, Awaiting,
          HasVerifier, Pushed, HasCode, Granted, HasToken, HasCredential
    <3> QED
      BY <3>1, <3>2
  <2> QED
    BY <2>1, <2>2
<1>20. ASSUME NEW f \in Flow, VerifyAndParseCredential(f) PROVE Goal
  <2>1. Records'
    BY <1>20 DEF VerifyAndParseCredential, Records
  <2>2. ASSUME NEW g \in Flow PROVE Knows(g)'
    BY <1>20, <2>2 DEF VerifyAndParseCredential, Knows, Awaiting, HasVerifier, Pushed,
          HasCode, Granted, HasToken, HasCredential
  <2> QED
    BY <2>1, <2>2
<1>21. ASSUME NEW f \in Flow, Fail(f) PROVE Goal
  <2>1. Records'
    BY <1>21 DEF Fail, Records
  <2>2. ASSUME NEW g \in Flow PROVE Knows(g)'
    BY <1>21, <2>2 DEF Fail, Knows, Awaiting, HasVerifier, Pushed,
          HasCode, Granted, HasToken, HasCredential
  <2> QED
    BY <2>1, <2>2
<1>22. ASSUME NEW f \in Flow, StartFlow(f) PROVE Goal
  <2>1. Records'
    BY <1>22 DEF StartFlow, Records
  <2>2. ASSUME NEW g \in Flow PROVE Knows(g)'
    BY <1>22, <2>2 DEF StartFlow, Knows, Awaiting, HasVerifier, Pushed,
          HasCode, Granted, HasToken, HasCredential
  <2> QED
    BY <2>1, <2>2
<1>23. ASSUME NEW f \in Flow, DpopGenerate(f) PROVE Goal
  <2>1. Records'
    BY <1>23 DEF DpopGenerate, Records
  <2>2. ASSUME NEW g \in Flow PROVE Knows(g)'
    BY <1>23, <2>2 DEF DpopGenerate, Knows, Awaiting, HasVerifier, Pushed,
          HasCode, Granted, HasToken, HasCredential
  <2> QED
    BY <2>1, <2>2
<1>24. ASSUME NEW f \in Flow, ParPost(f) PROVE Goal
  <2> DEFINE r == fl[f]
             request == [client |-> r.client, challenge |-> r.verifier]
  <2>1. /\ request # None /\ request.challenge = f
    BY <1>24 DEF ParPost, Knows, HasVerifier, Awaiting, Request, Wia
  <2>2. requests' = requests \/ requests' = [requests EXCEPT ![f] = request]
    BY <1>24 DEF ParPost
  <2>3. \/ fl' = [fl EXCEPT ![f].pc = "failed"]
        \/ /\ requests' = [requests EXCEPT ![f] = request]
           /\ \/ fl' = [fl EXCEPT ![f].pc = "redirect"]
              \/ fl' = [fl EXCEPT ![f].pc = "request_object"]
    BY <1>24 DEF ParPost
  <2>4. codes' = codes /\ issued' = issued /\ r.pc = "par_post"
    BY <1>24 DEF ParPost
  <2> HIDE DEF request
  <2>5. Records'
    BY <2>1, <2>2, <2>3, <2>4 DEF Records
  <2>6. ASSUME NEW g \in Flow PROVE Knows(g)'
    BY <2>1, <2>2, <2>3, <2>4, <2>6 DEF Knows, Awaiting, HasVerifier, Pushed,
          HasCode, Granted, HasToken, HasCredential
  <2> QED
    BY <2>5, <2>6
<1>25. ASSUME NEW f \in Flow, AuthorizeAccess(f) PROVE Goal
  <2> DEFINE r == fl[f]
             token(g) == [code |-> r.code, dpop |-> r.dpop, granted |-> g]
  <2>1. r.code \in codes /\ r.verifier = f
    BY <1>25 DEF AuthorizeAccess, Knows, HasCode, HasVerifier, Awaiting
  <2>2. requests[r.code].challenge = r.code
    BY <2>1 DEF Records
  <2>3. r.dpop # None => \A g \in BOOLEAN : token(g) # None /\ token(g).code = r.code
    BY <2>1 DEF Token, Dpop
  <2>4. \E tk, pc : /\ fl' = [fl EXCEPT ![f].token = tk, ![f].pc = pc]
                    /\ \/ tk = None /\ pc = "failed"
                       \/ tk # None /\ tk.code = f /\ pc = "nonce_proof"
    BY <1>25, <2>1, <2>2, <2>3 DEF AuthorizeAccess
  <2>5. UNCHANGED <<requests, codes, issued>> /\ r.pc = "token_post"
    BY <1>25 DEF AuthorizeAccess
  <2>6. Records'
    BY <2>4, <2>5 DEF Records
  <2>7. ASSUME NEW g \in Flow PROVE Knows(g)'
    BY <2>1, <2>4, <2>5, <2>7 DEF Knows, Awaiting, HasVerifier, Pushed,
          HasCode, Granted, HasToken, HasCredential
  <2> QED
    BY <2>6, <2>7
<1>26. ASSUME NEW f \in Flow, ObtainCredential(f) PROVE Goal
  <2> DEFINE r == fl[f]
             credential(h) == [grant |-> r.token.code, holder |-> h, signer |-> issuerKey]
  <2>1. r.token.code = f
    BY <1>26 DEF ObtainCredential, Knows, HasToken, Granted
  <2>2. UNCHANGED <<requests, codes>> /\ r.pc = "cred_post"
    BY <1>26 DEF ObtainCredential
  <2>3. CASE r.dpop # r.token.dpop
    <3>1. fl' = [fl EXCEPT ![f].pc = "failed"] /\ issued' = issued
      BY <1>26, <2>3 DEF ObtainCredential
    <3>2. Records'
      BY <2>2, <3>1 DEF Records
    <3>3. ASSUME NEW g \in Flow PROVE Knows(g)'
      BY <2>2, <3>1, <3>3 DEF Knows, Awaiting, HasVerifier, Pushed,
          HasCode, Granted, HasToken, HasCredential
    <3> QED
      BY <3>2, <3>3
  <2>4. CASE r.dpop = r.token.dpop
    <3>1. \A h \in Flow : credential(h).grant = f
      BY <2>1
    <3>2. PICK c : /\ c.grant = f
                   /\ issued' = issued \cup {c}
                   /\ fl' = [fl EXCEPT ![f].cred = c, ![f].pc = "verify"]
      BY <1>26, <2>4, <3>1 DEF ObtainCredential
    <3>3. Records'
      BY <2>2, <3>2 DEF Records
    <3>4. ASSUME NEW g \in Flow PROVE Knows(g)'
      BY <2>2, <3>2, <3>4 DEF Knows, Awaiting, HasVerifier, Pushed,
          HasCode, Granted, HasToken, HasCredential
    <3> QED
      BY <3>3, <3>4
  <2> QED
    BY <2>3, <2>4
<1>27. ASSUME NEW g \in Flow, Redirect(g) PROVE Goal
  <2>1. Records'
    BY <1>27 DEF Redirect, Records
  <2>2. ASSUME NEW f \in Flow PROVE Knows(f)'
    BY <1>27, <2>2 DEF Redirect, Knows, Awaiting, HasVerifier, Pushed,
          HasCode, Granted, HasToken, HasCredential
  <2> QED
    BY <2>1, <2>2
<1>28. CASE WiaDelete \/ WiaGenerate \/ RotateIssuerKey \/ UNCHANGED vars
  BY <1>28 DEF WiaDelete, WiaGenerate, RotateIssuerKey, vars, Records, Knows
<1> QED
  BY <1>1, <1>2, <1>3, <1>4, <1>5, <1>6, <1>7, <1>8, <1>9, <1>10, <1>11, <1>12, <1>13, <1>14, <1>15, <1>16, <1>17, <1>18, <1>19, <1>20, <1>21, <1>22, <1>23, <1>24, <1>25, <1>26, <1>27, <1>28 DEF Next, Step

LEMMA InitInv == Init => Inv
<1> SUFFICES ASSUME Init PROVE Inv
  OBVIOUS
<1> USE IssuanceAssumption DEF Init
<1>1. Idle \in FlowState
  BY DEF Idle, FlowState, Wia, Dpop
<1>2. TypeOK
  BY <1>1 DEF TypeOK, Wia, WiaKey, Dpop, DpopKey, IssuerKey
<1>3. Records
  BY DEF Records
<1>4. ASSUME NEW f \in Flow PROVE Knows(f)
  BY <1>4 DEF Knows, Idle, Awaiting, HasVerifier, Pushed, HasCode, Granted, HasToken,
          HasCredential
<1> QED
  BY <1>2, <1>3, <1>4 DEF Inv

LEMMA Invariance == Spec => []Inv
<1>1. Inv /\ [Next]_vars => Inv'
  BY NextType, NextKnows DEF Inv
<1> QED
  BY InitInv, <1>1, PTL DEF Spec

(* A credential a flow returns was authorised, granted and issued for that *)
(* very flow, is bound to its holder key and verifies under the            *)
(* configuration it fetched, however many flows of getCredential and       *)
(* getPidCieID share the keystore and the redirect URI.                    *)
THEOREM DeliveredCredentials == Spec => [](TypeOK /\ DeliveredIsOwn)
<1>1. Inv => TypeOK /\ DeliveredIsOwn
  <2> SUFFICES ASSUME Inv, NEW f \in Flow, At(f, "done")
               PROVE  /\ f \in codes /\ fl[f].token.granted
                      /\ fl[f].cred \in issued
                      /\ fl[f].cred = [grant |-> f, holder |-> f, signer |-> fl[f].conf]
    BY DEF Inv, DeliveredIsOwn
  <2>1. /\ f \in codes /\ fl[f].token.granted /\ fl[f].cred \in issued
        /\ fl[f].cred.grant = f /\ fl[f].cred.holder = f
        /\ fl[f].cred.signer = fl[f].conf
    BY DEF Inv, Knows, At, HasToken, Granted, HasCredential
  <2>2. fl[f].cred \in [grant : Flow, holder : Flow, signer : IssuerKey]
    BY <2>1 DEF Inv, TypeOK, Credential
  <2> QED
    BY <2>1, <2>2
<1> QED
  BY Invariance, <1>1, PTL

-----------------------------------------------------------------------------
(* The refinement.                                                         *)

(* A step of a running flow that leaves it running shows nothing to the    *)
(* callers, and one that gives up shows as a failure of that flow.         *)
LEMMA RunningStep ==
    ASSUME NEW f \in Flow, \A g \in Flow \ {f} : fl'[g] = fl[g],
           fl[f].pc \in Awaiting, fl'[f].pc \in Awaiting \cup {"failed"}
    PROVE  /\ deliveries' = deliveries
           /\ fl'[f].pc \in Awaiting => statuses' = statuses
           /\ UNCHANGED <<codes, issued>> =>
                Contract!Fail(f) \/ UNCHANGED Contract!cvars
<1>1. deliveries' = deliveries
  BY DEF deliveries, At, Awaiting
<1>2. statuses[f] = "running"
  BY DEF statuses, statusOf, Awaiting
<1>3. fl'[f].pc \in Awaiting => statuses' = statuses
  BY DEF statuses, statusOf, Awaiting
<1>4. fl'[f].pc = "failed" => statuses' = [statuses EXCEPT ![f] = "failed"]
  BY DEF statuses, statusOf
<1>5. UNCHANGED <<codes, issued>> => Contract!Fail(f) \/ UNCHANGED Contract!cvars
  BY <1>1, <1>2, <1>3, <1>4 DEF Contract!Fail, Contract!cvars
<1> QED
  BY <1>1, <1>3, <1>5

LEMMA StepRefines == Inv /\ [Next]_vars => [Contract!CNext]_Contract!cvars
<1> SUFFICES ASSUME Inv, [Next]_vars PROVE [Contract!CNext]_Contract!cvars
  OBVIOUS
<1> USE DEF Inv, TypeOK, FlowState, At, Goto, If, device, issuer
<1> DEFINE Goal == Contract!CNext \/ UNCHANGED Contract!cvars
<1>1. ASSUME NEW f \in Flow, EvaluateIssuerTrust(f) PROVE Goal
  <2>1. /\ \A g \in Flow \ {f} : fl'[g] = fl[g]
        /\ fl[f].pc \in Awaiting /\ fl'[f].pc \in Awaiting \cup {"failed"}
        /\ UNCHANGED <<codes, issued>>
    BY <1>1 DEF EvaluateIssuerTrust, Awaiting
  <2> QED
    BY <2>1, RunningStep DEF Contract!CNext
<1>2. ASSUME NEW f \in Flow, StartUserAuthorization(f) PROVE Goal
  <2>1. /\ \A g \in Flow \ {f} : fl'[g] = fl[g]
        /\ fl[f].pc \in Awaiting /\ fl'[f].pc \in Awaiting \cup {"failed"}
        /\ UNCHANGED <<codes, issued>>
    BY <1>2 DEF StartUserAuthorization, Awaiting
  <2> QED
    BY <2>1, RunningStep DEF Contract!CNext
<1>3. ASSUME NEW f \in Flow, ParKid(f) PROVE Goal
  <2>1. /\ \A g \in Flow \ {f} : fl'[g] = fl[g]
        /\ fl[f].pc \in Awaiting /\ fl'[f].pc \in Awaiting \cup {"failed"}
        /\ UNCHANGED <<codes, issued>>
    BY <1>3 DEF ParKid, Awaiting
  <2> QED
    BY <2>1, RunningStep DEF Contract!CNext
<1>4. ASSUME NEW f \in Flow, ParPopHeader(f) PROVE Goal
  <2>1. /\ \A g \in Flow \ {f} : fl'[g] = fl[g]
        /\ fl[f].pc \in Awaiting /\ fl'[f].pc \in Awaiting \cup {"failed"}
        /\ UNCHANGED <<codes, issued>>
    BY <1>4 DEF ParPopHeader, Awaiting
  <2> QED
    BY <2>1, RunningStep DEF Contract!CNext
<1>5. ASSUME NEW f \in Flow, ParPopSign(f) PROVE Goal
  <2>1. /\ \A g \in Flow \ {f} : fl'[g] = fl[g]
        /\ fl[f].pc \in Awaiting /\ fl'[f].pc \in Awaiting \cup {"failed"}
        /\ UNCHANGED <<codes, issued>>
    BY <1>5 DEF ParPopSign, Awaiting
  <2> QED
    BY <2>1, RunningStep DEF Contract!CNext
<1>6. ASSUME NEW f \in Flow, ParSign(f) PROVE Goal
  <2>1. /\ \A g \in Flow \ {f} : fl'[g] = fl[g]
        /\ fl[f].pc \in Awaiting /\ fl'[f].pc \in Awaiting \cup {"failed"}
        /\ UNCHANGED <<codes, issued>>
    BY <1>6 DEF ParSign, Awaiting
  <2> QED
    BY <2>1, RunningStep DEF Contract!CNext
<1>7. ASSUME NEW f \in Flow, CompleteWithQueryMode(f) PROVE Goal
  <2>1. /\ \A g \in Flow \ {f} : fl'[g] = fl[g]
        /\ fl[f].pc \in Awaiting /\ fl'[f].pc \in Awaiting \cup {"failed"}
        /\ UNCHANGED <<codes, issued>>
    BY <1>7 DEF CompleteWithQueryMode, Awaiting
  <2> QED
    BY <2>1, RunningStep DEF Contract!CNext
<1>8. ASSUME NEW f \in Flow, RedirectTimeout(f) PROVE Goal
  <2>1. /\ \A g \in Flow \ {f} : fl'[g] = fl[g]
        /\ fl[f].pc \in Awaiting /\ fl'[f].pc \in Awaiting \cup {"failed"}
        /\ UNCHANGED <<codes, issued>>
    BY <1>8 DEF RedirectTimeout, Awaiting
  <2> QED
    BY <2>1, RunningStep DEF Contract!CNext
<1>9. ASSUME NEW f \in Flow, GetRequestedCredential(f) PROVE Goal
  <2>1. /\ \A g \in Flow \ {f} : fl'[g] = fl[g]
        /\ fl[f].pc \in Awaiting /\ fl'[f].pc \in Awaiting \cup {"failed"}
        /\ UNCHANGED <<codes, issued>>
    BY <1>9 DEF GetRequestedCredential, Awaiting
  <2> QED
    BY <2>1, RunningStep DEF Contract!CNext
<1>10. ASSUME NEW f \in Flow, SignWiaPresentation(f) PROVE Goal
  <2>1. /\ \A g \in Flow \ {f} : fl'[g] = fl[g]
        /\ fl[f].pc \in Awaiting /\ fl'[f].pc \in Awaiting \cup {"failed"}
        /\ UNCHANGED <<codes, issued>>
    BY <1>10 DEF SignWiaPresentation, Awaiting
  <2> QED
    BY <2>1, RunningStep DEF Contract!CNext
<1>11. ASSUME NEW f \in Flow, DpopDelete(f) PROVE Goal
  <2>1. /\ \A g \in Flow \ {f} : fl'[g] = fl[g]
        /\ fl[f].pc \in Awaiting /\ fl'[f].pc \in Awaiting \cup {"failed"}
        /\ UNCHANGED <<codes, issued>>
    BY <1>11 DEF DpopDelete, Awaiting
  <2> QED
    BY <2>1, RunningStep DEF Contract!CNext
<1>12. ASSUME NEW f \in Flow, TokenDpopHeader(f) PROVE Goal
  <2>1. /\ \A g \in Flow \ {f} : fl'[g] = fl[g]
        /\ fl[f].pc \in Awaiting /\ fl'[f].pc \in Awaiting \cup {"failed"}
        /\ UNCHANGED <<codes, issued>>
    BY <1>12 DEF TokenDpopHeader, Awaiting
  <2> QED
    BY <2>1, RunningStep DEF Contract!CNext
<1>13. ASSUME NEW f \in Flow, TokenDpopSign(f) PROVE Goal
  <2>1. /\ \A g \in Flow \ {f} : fl'[g] = fl[g]
        /\ fl[f].pc \in Awaiting /\ fl'[f].pc \in Awaiting \cup {"failed"}
        /\ UNCHANGED <<codes, issued>>
    BY <1>13 DEF TokenDpopSign, Awaiting
  <2> QED
    BY <2>1, RunningStep DEF Contract!CNext
<1>14. ASSUME NEW f \in Flow, TokenPopHeader(f) PROVE Goal
  <2>1. /\ \A g \in Flow \ {f} : fl'[g] = fl[g]
        /\ fl[f].pc \in Awaiting /\ fl'[f].pc \in Awaiting \cup {"failed"}
        /\ UNCHANGED <<codes, issued>>
    BY <1>14 DEF TokenPopHeader, Awaiting
  <2> QED
    BY <2>1, RunningStep DEF Contract!CNext
<1>15. ASSUME NEW f \in Flow, TokenPopSign(f) PROVE Goal
  <2>1. /\ \A g \in Flow \ {f} : fl'[g] = fl[g]
        /\ fl[f].pc \in Awaiting /\ fl'[f].pc \in Awaiting \cup {"failed"}
        /\ UNCHANGED <<codes, issued>>
    BY <1>15 DEF TokenPopSign, Awaiting
  <2> QED
    BY <2>1, RunningStep DEF Contract!CNext
<1>16. ASSUME NEW f \in Flow, NonceProof(f) PROVE Goal
  <2>1. /\ \A g \in Flow \ {f} : fl'[g] = fl[g]
        /\ fl[f].pc \in Awaiting /\ fl'[f].pc \in Awaiting \cup {"failed"}
        /\ UNCHANGED <<codes, issued>>
    BY <1>16 DEF NonceProof, Awaiting
  <2> QED
    BY <2>1, RunningStep DEF Contract!CNext
<1>17. ASSUME NEW f \in Flow, CredentialDpopHeader(f) PROVE Goal
  <2>1. /\ \A g \in Flow \ {f} : fl'[g] = fl[g]
        /\ fl[f].pc \in Awaiting /\ fl'[f].pc \in Awaiting \cup {"failed"}
        /\ UNCHANGED <<codes, issued>>
    BY <1>17 DEF CredentialDpopHeader, Awaiting
  <2> QED
    BY <2>1, RunningStep DEF Contract!CNext
<1>18. ASSUME NEW f \in Flow, CredentialDpopSign(f) PROVE Goal
  <2>1. /\ \A g \in Flow \ {f} : fl'[g] = fl[g]
        /\ fl[f].pc \in Awaiting /\ fl'[f].pc \in Awaiting \cup {"failed"}
        /\ UNCHANGED <<codes, issued>>
    BY <1>18 DEF CredentialDpopSign, Awaiting
  <2> QED
    BY <2>1, RunningStep DEF Contract!CNext
<1>19. ASSUME NEW f \in Flow, Fail(f) PROVE Goal
  <2>1. /\ \A g \in Flow \ {f} : fl'[g] = fl[g]
        /\ fl[f].pc \in Awaiting /\ fl'[f].pc \in Awaiting \cup {"failed"}
        /\ UNCHANGED <<codes, issued>>
    BY <1>19 DEF Fail, Awaiting
  <2> QED
    BY <2>1, RunningStep DEF Contract!CNext
<1>20. ASSUME NEW f \in Flow, DpopGenerate(f) PROVE Goal
  <2>1. /\ \A g \in Flow \ {f} : fl'[g] = fl[g]
        /\ fl[f].pc \in Awaiting /\ fl'[f].pc \in Awaiting \cup {"failed"}
        /\ UNCHANGED <<codes, issued>>
    BY <1>20 DEF DpopGenerate, Awaiting
  <2> QED
    BY <2>1, RunningStep DEF Contract!CNext
<1>21. ASSUME NEW f \in Flow, ParPost(f) PROVE Goal
  <2>1. /\ \A g \in Flow \ {f} : fl'[g] = fl[g]
        /\ fl[f].pc \in Awaiting /\ fl'[f].pc \in Awaiting \cup {"failed"}
        /\ UNCHANGED <<codes, issued>>
    BY <1>21 DEF ParPost, Awaiting
  <2> QED
    BY <2>1, RunningStep DEF Contract!CNext
<1>22. ASSUME NEW f \in Flow, AuthorizeAccess(f) PROVE Goal
  <2>1. /\ \A g \in Flow \ {f} : fl'[g] = fl[g]
        /\ fl[f].pc \in Awaiting /\ fl'[f].pc \in Awaiting \cup {"failed"}
        /\ UNCHANGED <<codes, issued>>
    BY <1>22 DEF AuthorizeAccess, Awaiting
  <2> QED
    BY <2>1, RunningStep DEF Contract!CNext
<1>23. ASSUME NEW f \in Flow, StartFlow(f) PROVE Goal
  <2>1. statuses[f] = "idle" /\ statuses' = [statuses EXCEPT ![f] = "running"]
    BY <1>23 DEF StartFlow, statuses, statusOf
  <2>2. deliveries' = deliveries
    BY <1>23 DEF StartFlow, deliveries
  <2> QED
    BY <1>23, <2>1, <2>2 DEF StartFlow, Contract!CNext, Contract!Begin
<1>24. ASSUME NEW f \in Flow, CompleteWithFormPostJwtMode(f) PROVE Goal
  <2>1. /\ \A g \in Flow \ {f} : fl'[g] = fl[g]
        /\ fl[f].pc \in Awaiting /\ fl'[f].pc \in Awaiting \cup {"failed"}
        /\ issued' = issued
        /\ \/ codes' = codes
           \/ codes' = codes \cup {f} /\ fl'[f].pc \in Awaiting
    BY <1>24 DEF CompleteWithFormPostJwtMode, Awaiting
  <2>2. statuses[f] # "idle"
    BY <2>1 DEF statuses, statusOf, Awaiting
  <2> QED
    BY <2>1, <2>2, RunningStep DEF Contract!CNext, Contract!Authorize
<1>25. ASSUME NEW g \in Flow, Redirect(g) PROVE Goal
  <2>1. fl[g].pc # "idle"
    BY <1>25 DEF Redirect, Records
  <2>2. \A f \in Flow : fl'[f].pc = fl[f].pc /\ fl'[f].cred = fl[f].cred
    BY <1>25 DEF Redirect
  <2>3. statuses[g] # "idle" /\ statuses' = statuses
    BY <2>1, <2>2 DEF statuses, statusOf
  <2>4. deliveries' = deliveries
    BY <2>2 DEF deliveries
  <2>5. codes' = codes \cup {g} /\ issued' = issued
    BY <1>25 DEF Redirect
  <2> QED
    BY <2>3, <2>4, <2>5 DEF Contract!CNext, Contract!Authorize
<1>26. ASSUME NEW f \in Flow, ObtainCredential(f) PROVE Goal
  <2> DEFINE credential(h) == [grant |-> fl[f].token.code, holder |-> h, signer |-> issuerKey]
  <2>1. /\ \A g \in Flow \ {f} : fl'[g] = fl[g]
        /\ fl[f].pc \in Awaiting /\ fl'[f].pc \in Awaiting \cup {"failed"}
        /\ codes' = codes
    <3>1. \/ fl' = [fl EXCEPT ![f].pc = "failed"]
          \/ \E c : fl' = [fl EXCEPT ![f].cred = c, ![f].pc = "verify"]
      BY <1>26 DEF ObtainCredential
    <3>2. codes' = codes /\ fl[f].pc = "cred_post"
      BY <1>26 DEF ObtainCredential
    <3>3. CASE fl' = [fl EXCEPT ![f].pc = "failed"]
      BY <3>2, <3>3 DEF Awaiting
    <3>4. ASSUME NEW c, fl' = [fl EXCEPT ![f].cred = c, ![f].pc = "verify"]
          PROVE  (\A g \in Flow \ {f} : fl'[g] = fl[g]) /\ fl'[f].pc = "verify"
      BY <3>4
    <3> QED
      BY <3>1, <3>2, <3>3, <3>4 DEF Awaiting
  <2>2. CASE issued' = issued
    BY <2>1, <2>2, RunningStep DEF Contract!CNext
  <2>3. CASE issued' # issued
    <3>1. PICK h \in Flow : issued' = issued \cup {credential(h)} /\ fl'[f].pc = "verify"
      BY <1>26, <2>3, ZenonT(30) DEF ObtainCredential
    <3>2. fl[f].token.code = f /\ f \in codes
      BY <1>26 DEF ObtainCredential, Knows, HasToken, Granted
    <3>3. parties(credential(h)) = [grant |-> f, holder |-> h]
      BY <3>2 DEF parties
    <3>4. {parties(c) : c \in issued'} =
            {parties(c) : c \in issued} \cup {[grant |-> f, holder |-> h]}
      BY <3>1, <3>3
    <3>5. deliveries' = deliveries /\ statuses' = statuses
      BY <2>1, <3>1, RunningStep DEF Awaiting
    <3>6. [grant |-> f, holder |-> h] \in Contract!CredentialOf
      BY DEF Contract!CredentialOf
    <3>7. Contract!Issue(f)
      BY <2>1, <3>2, <3>4, <3>5, <3>6 DEF Contract!Issue
    <3> QED
      BY <3>7 DEF Contract!CNext
  <2> QED
    BY <2>2, <2>3
<1>27. ASSUME NEW f \in Flow, VerifyAndParseCredential(f) PROVE Goal
  <2>1. /\ \A g \in Flow \ {f} : fl'[g] = fl[g]
        /\ fl[f].pc = "verify" /\ fl'[f].pc \in {"done", "failed"}
        /\ fl'[f].cred = fl[f].cred
        /\ UNCHANGED <<codes, issued>>
    BY <1>27 DEF VerifyAndParseCredential
  <2>2. CASE fl'[f].pc = "failed"
    BY <2>1, <2>2, RunningStep DEF Contract!CNext, Awaiting
  <2>3. CASE fl'[f].pc = "done"
    <3>1. fl[f].cred \in issued /\ fl[f].cred.grant = f /\ fl[f].cred.holder = f
      BY <1>27, <2>3 DEF VerifyAndParseCredential, Knows, HasCredential
    <3>2. parties(fl[f].cred) = [grant |-> f, holder |-> f]
      BY <3>1 DEF parties
    <3>3. statuses[f] = "running" /\ statuses' = [statuses EXCEPT ![f] = "done"]
      BY <2>1, <2>3 DEF statuses, statusOf
    <3>4. deliveries' = [deliveries EXCEPT ![f] = [grant |-> f, holder |-> f]]
      BY <2>1, <2>3, <3>2 DEF deliveries
    <3>5. [grant |-> f, holder |-> f] \in {parties(c) : c \in issued}
      BY <3>1, <3>2
    <3>6. Contract!Deliver(f)
      BY <2>1, <3>3, <3>4, <3>5 DEF Contract!Deliver
    <3> QED
      BY <3>6 DEF Contract!CNext
  <2> QED
    BY <2>1, <2>2, <2>3
<1>28. CASE WiaDelete \/ WiaGenerate \/ RotateIssuerKey \/ UNCHANGED vars
  BY <1>28 DEF WiaDelete, WiaGenerate, RotateIssuerKey, vars, Contract!cvars,
     statuses, deliveries
<1> QED
  BY <1>1, <1>2, <1>3, <1>4, <1>5, <1>6, <1>7, <1>8, <1>9, <1>10, <1>11, <1>12, <1>13, <1>14, <1>15, <1>16, <1>17, <1>18, <1>19, <1>20, <1>21, <1>22, <1>23, <1>24, <1>25, <1>26, <1>27, <1>28 DEF Next, Step

(* Callers of the issuance see what IssuanceContract promises: independent *)
(* flows that deliver a credential authorised and issued for them, or      *)
(* nothing.                                                                *)
THEOREM ContractRefinement == Spec => ImplementsContract
<1>1. Init => Contract!CInit
  BY IssuanceAssumption DEF Init, Idle, Contract!CInit, statuses, statusOf, deliveries, At
<1> QED
  BY <1>1, Invariance, StepRefines, PTL DEF Spec, ImplementsContract, Contract!CSpec

-----------------------------------------------------------------------------
(* A flow alone.  While the key of the attestation is in place, what the   *)
(* flow read of it is that key; and no other flow touches the DPoP key,    *)
(* the codes or the tokens.                                                *)
Unpushed == {"idle", "trust", "client", "kid", "par_pop", "par_pop_sign",
             "par_sign", "par_post"}
Keyed == {"token_dpop", "token_dpop_sign", "token_pop", "token_pop_sign",
          "token_post", "nonce_proof", "cred_dpop", "cred_dpop_sign", "cred_post"}

Reads(r) ==
    /\ r.pc \in HasVerifier => r.client = r.wia
    /\ r.pc \in {"par_pop", "par_pop_sign", "par_sign", "par_post"} => r.kid = r.wia
    /\ r.pc \in {"par_pop_sign", "par_sign", "par_post", "token_pop_sign",
                 "token_post"} => r.pop = r.wia
    /\ r.pc \in {"par_post", "form_post"} => r.sig = r.wia

Attested(f) ==
    /\ fl[f].pc # "idle" => fl[f].wia \in 1 .. wiaKeys
    /\ wiaKey = fl[f].wia => Reads(fl[f])
    /\ requests[f] # None =>
        requests[f].client = fl[f].client /\ fl[f].pc \notin Unpushed

Alone(f) == \A g \in Flow \ {f} : fl[g].pc = "idle"

HoldsDpop(r, key) ==
    /\ r.pc = "dpop_generate" => key = None
    /\ r.pc \in Keyed => key # None
    /\ r.pc \in Keyed \ {"token_dpop", "nonce_proof", "cred_dpop"} => r.dpop = key
    /\ r.pc \in {"nonce_proof", "cred_dpop", "cred_dpop_sign", "cred_post"} =>
        r.token.dpop = key

Undisturbed(f) ==
    Alone(f) =>
        /\ HoldsDpop(fl[f], dpopKey)
        /\ f \in used => fl[f].pc \in HasToken \cup {"failed"}

Lone ==
    /\ wiaKey \in {None, wiaKeys}
    /\ \A f \in Flow : Attested(f) /\ Undisturbed(f)

(* One flow moves; the others, if it is alone, are idle and stay so.       *)
LEMMA Moves ==
    ASSUME Lone, NEW f \in Flow, fl'[f].pc # "idle",
           \A g \in Flow \ {f} : fl'[g] = fl[g] /\ requests'[g] = requests[g],
           UNCHANGED <<wiaKey, wiaKeys>>,
           Attested(f)',
           Alone(f) => HoldsDpop(fl[f], dpopKey)' /\
                       (f \in used => fl[f].pc \in HasToken \cup {"failed"})'
    PROVE  Lone'
<1>1. Undisturbed(f)'
  BY DEF Undisturbed, Alone
<1>2. ASSUME NEW g \in Flow \ {f} PROVE Attested(g)' /\ Undisturbed(g)'
  BY <1>2 DEF Lone, Attested, Undisturbed, Alone
<1> QED
  BY <1>1, <1>2 DEF Lone

LEMMA NextLone == Inv /\ Lone /\ [Next]_vars => Lone'
<1> SUFFICES ASSUME Inv, Lone, [Next]_vars PROVE Lone'
  OBVIOUS
<1> USE DEF At, Goto, If, device, issuer
<1>0. /\ fl \in [Flow -> FlowState] /\ \A f \in Flow : fl[f] \in FlowState
      /\ \A f \in Flow : Knows(f) /\ Attested(f) /\ Undisturbed(f)
      /\ wiaKeys \in Nat /\ None \notin WiaKey \cup DpopKey
      /\ wiaKey \in {None, wiaKeys}
  BY IssuanceAssumption DEF Inv, TypeOK, Lone, WiaKey
<1>1. ASSUME NEW f \in Flow, UNCHANGED <<wiaKey, wiaKeys, requests, dpopKey, used>>,
             fl'[f].pc # "idle", \A g \in Flow \ {f} : fl'[g] = fl[g],
             Attested(f)', Alone(f) => HoldsDpop(fl'[f], dpopKey),
             Alone(f) /\ f \in used => fl'[f].pc \in HasToken \cup {"failed"}
      PROVE  Lone'
  BY <1>1, Moves
<1> USE DEF FlowState, Attested, Reads, Undisturbed, HoldsDpop, HasVerifier,
            HasToken, Granted, Keyed, Unpushed, Awaiting
(* The steps that only read what is shared.                                *)
<1>2. ASSUME NEW f \in Flow, EvaluateIssuerTrust(f) PROVE Lone'
  BY <1>0, <1>1, <1>2 DEF EvaluateIssuerTrust
<1>3. ASSUME NEW f \in Flow, StartUserAuthorization(f) PROVE Lone'
  BY <1>0, <1>1, <1>3 DEF StartUserAuthorization
<1>4. ASSUME NEW f \in Flow, ParKid(f) PROVE Lone'
  BY <1>0, <1>1, <1>4 DEF ParKid
<1>5. ASSUME NEW f \in Flow, ParPopHeader(f) PROVE Lone'
  BY <1>0, <1>1, <1>5 DEF ParPopHeader
<1>6. ASSUME NEW f \in Flow, ParPopSign(f) PROVE Lone'
  <2>1. /\ UNCHANGED <<wiaKey, wiaKeys, requests, dpopKey, used>>
        /\ fl'[f].pc # "idle" /\ \A g \in Flow \ {f} : fl'[g] = fl[g]
    BY <1>0, <1>6 DEF ParPopSign
  <2>2. Attested(f)'
    BY <1>0, <1>6 DEF ParPopSign
  <2>3. Alone(f) => HoldsDpop(fl'[f], dpopKey)
    BY <1>0, <1>6 DEF ParPopSign
  <2>4. Alone(f) /\ f \in used => fl'[f].pc \in HasToken \cup {"failed"}
    BY <1>0, <1>6 DEF ParPopSign
  <2> QED
    BY <1>1, <2>1, <2>2, <2>3, <2>4
<1>7. ASSUME NEW f \in Flow, ParSign(f) PROVE Lone'
  BY <1>0, <1>1, <1>7 DEF ParSign
<1>8. ASSUME NEW f \in Flow, CompleteWithQueryMode(f) PROVE Lone'
  BY <1>0, <1>1, <1>8 DEF CompleteWithQueryMode
<1>9. ASSUME NEW f \in Flow, RedirectTimeout(f) PROVE Lone'
  BY <1>0, <1>1, <1>9 DEF RedirectTimeout
<1>10. ASSUME NEW f \in Flow, GetRequestedCredential(f) PROVE Lone'
  BY <1>0, <1>1, <1>10 DEF GetRequestedCredential
<1>11. ASSUME NEW f \in Flow, SignWiaPresentation(f) PROVE Lone'
  BY <1>0, <1>1, <1>11 DEF SignWiaPresentation
<1>12. ASSUME NEW f \in Flow, TokenDpopHeader(f) PROVE Lone'
  BY <1>0, <1>1, <1>12 DEF TokenDpopHeader
<1>13. ASSUME NEW f \in Flow, TokenDpopSign(f) PROVE Lone'
  <2>1. /\ UNCHANGED <<wiaKey, wiaKeys, requests, dpopKey, used>>
        /\ fl'[f].pc # "idle" /\ \A g \in Flow \ {f} : fl'[g] = fl[g]
    BY <1>0, <1>13 DEF TokenDpopSign
  <2>2. Attested(f)'
    BY <1>0, <1>13 DEF TokenDpopSign
  <2>3. Alone(f) => HoldsDpop(fl'[f], dpopKey)
    BY <1>0, <1>13 DEF TokenDpopSign
  <2>4. Alone(f) /\ f \in used => fl'[f].pc \in HasToken \cup {"failed"}
    BY <1>0, <1>13 DEF TokenDpopSign
  <2> QED
    BY <1>1, <2>1, <2>2, <2>3, <2>4
<1>14. ASSUME NEW f \in Flow, TokenPopHeader(f) PROVE Lone'
  BY <1>0, <1>1, <1>14 DEF TokenPopHeader
<1>15. ASSUME NEW f \in Flow, TokenPopSign(f) PROVE Lone'
  <2>1. /\ UNCHANGED <<wiaKey, wiaKeys, requests, dpopKey, used>>
        /\ fl'[f].pc # "idle" /\ \A g \in Flow \ {f} : fl'[g] = fl[g]
    BY <1>0, <1>15 DEF TokenPopSign
  <2>2. Attested(f)'
    BY <1>0, <1>15 DEF TokenPopSign
  <2>3. Alone(f) => HoldsDpop(fl'[f], dpopKey)
    BY <1>0, <1>15 DEF TokenPopSign
  <2>4. Alone(f) /\ f \in used => fl'[f].pc \in HasToken \cup {"failed"}
    BY <1>0, <1>15 DEF TokenPopSign
  <2> QED
    BY <1>1, <2>1, <2>2, <2>3, <2>4
<1>16. ASSUME NEW f \in Flow, NonceProof(f) PROVE Lone'
  BY <1>0, <1>1, <1>16 DEF NonceProof
<1>17. ASSUME NEW f \in Flow, CredentialDpopHeader(f) PROVE Lone'
  BY <1>0, <1>1, <1>17 DEF CredentialDpopHeader
<1>18. ASSUME NEW f \in Flow, CredentialDpopSign(f) PROVE Lone'
  <2>1. /\ UNCHANGED <<wiaKey, wiaKeys, requests, dpopKey, used>>
        /\ fl'[f].pc # "idle" /\ \A g \in Flow \ {f} : fl'[g] = fl[g]
    BY <1>0, <1>18 DEF CredentialDpopSign
  <2>2. Attested(f)'
    BY <1>0, <1>18 DEF CredentialDpopSign
  <2>3. Alone(f) => HoldsDpop(fl'[f], dpopKey)
    BY <1>0, <1>18 DEF CredentialDpopSign
  <2>4. Alone(f) /\ f \in used => fl'[f].pc \in HasToken \cup {"failed"}
    BY <1>0, <1>18 DEF CredentialDpopSign
  <2> QED
    BY <1>1, <2>1, <2>2, <2>3, <2>4
<1>19. ASSUME NEW f \in Flow, VerifyAndParseCredential(f) PROVE Lone'
  BY <1>0, <1>1, <1>19 DEF VerifyAndParseCredential
<1>20. ASSUME NEW f \in Flow, Fail(f) PROVE Lone'
  BY <1>0, <1>1, <1>20 DEF Fail
<1>21. ASSUME NEW f \in Flow, StartFlow(f) PROVE Lone'
  <2>1. requests[f] = None
    BY <1>21 DEF StartFlow, Inv, Records
  <2>2. f \notin used
    BY <2>1 DEF Inv, TypeOK, Records
  <2> QED
    BY <1>0, <1>1, <1>21, <2>1, <2>2 DEF StartFlow
(* The steps that change what is shared.                                   *)
<1>22. ASSUME NEW f \in Flow, ParPost(f) PROVE Lone'
  <2> DEFINE request == [client |-> fl[f].client, challenge |-> fl[f].verifier]
  <2>0. UNCHANGED <<wiaKey, wiaKeys, dpopKey, used>> /\ fl[f].pc = "par_post"
    BY <1>22 DEF ParPost
  <2>1. \A g \in Flow \ {f} : fl'[g] = fl[g] /\ requests'[g] = requests[g]
    BY <1>0, <1>22 DEF ParPost, Inv, TypeOK
  <2>2. /\ fl'[f].pc \in {"redirect", "request_object", "failed"}
        /\ fl'[f].wia = fl[f].wia /\ fl'[f].client = fl[f].client
        /\ requests'[f] = requests[f] \/ requests'[f] = request
    BY <1>0, <1>22 DEF ParPost, Inv, TypeOK
  <2>3. f \notin used /\ requests[f] = None
    BY <1>0, <1>22 DEF ParPost, Inv, TypeOK, Records
  <2>4. Attested(f)'
    BY <1>0, <2>0, <2>2, <2>3
  <2> QED
    BY <2>0, <2>1, <2>2, <2>3, <2>4, Moves
<1>23. ASSUME NEW f \in Flow, CompleteWithFormPostJwtMode(f) PROVE Lone'
  <2>1. /\ UNCHANGED <<wiaKey, wiaKeys, requests, dpopKey, used>>
        /\ \A g \in Flow \ {f} : fl'[g] = fl[g]
        /\ fl'[f].pc \in {"dpop_delete", "failed"} /\ fl[f].pc = "form_post"
    BY <1>0, <1>23 DEF CompleteWithFormPostJwtMode
  <2>2. Attested(f)'
    BY <1>0, <1>23 DEF CompleteWithFormPostJwtMode
  <2> QED
    BY <1>0, <1>1, <2>1, <2>2
<1>24. ASSUME NEW f \in Flow, DpopDelete(f) PROVE Lone'
  <2>1. /\ UNCHANGED <<wiaKey, wiaKeys, requests, used>> /\ dpopKey' = None
        /\ fl'[f].pc = "dpop_generate"
        /\ \A g \in Flow \ {f} : fl'[g] = fl[g]
    BY <1>0, <1>24 DEF DpopDelete
  <2>2. Attested(f)'
    BY <1>0, <1>24 DEF DpopDelete
  <2> QED
    BY <1>0, <1>24, <2>1, <2>2, Moves DEF DpopDelete
<1>25. ASSUME NEW f \in Flow, DpopGenerate(f) PROVE Lone'
  <2>1. /\ UNCHANGED <<wiaKey, wiaKeys, requests, used>>
        /\ fl'[f].pc \in {"token_dpop", "failed"}
        /\ fl'[f].pc = "token_dpop" => dpopKey' = dpopKeys + 1 /\ dpopKeys + 1 \in DpopKey
        /\ \A g \in Flow \ {f} : fl'[g] = fl[g]
    BY <1>0, <1>25, IssuanceAssumption DEF DpopGenerate, Inv, TypeOK, DpopKey
  <2>2. Attested(f)'
    BY <1>0, <1>25 DEF DpopGenerate
  <2> QED
    BY <1>0, <1>25, <2>1, <2>2, Moves DEF DpopGenerate
(* The code is spent by the step that ends with a token or in failure.     *)
<1>26. ASSUME NEW f \in Flow, AuthorizeAccess(f) PROVE Lone'
  <2> DEFINE token(g) == [code |-> fl[f].code, dpop |-> fl[f].dpop, granted |-> g]
  <2>1. /\ UNCHANGED <<wiaKey, wiaKeys, requests, dpopKey>>
        /\ \A g \in Flow \ {f} : fl'[g] = fl[g]
        /\ fl'[f].wia = fl[f].wia /\ fl'[f].client = fl[f].client
        /\ fl'[f].dpop = fl[f].dpop /\ fl[f].pc = "token_post"
        /\ fl'[f].pc \in {"nonce_proof", "failed"}
        /\ fl'[f].pc = "nonce_proof" => \E g \in BOOLEAN : fl'[f].token = token(g)
    BY <1>0, <1>26 DEF AuthorizeAccess
  <2>2. ASSUME fl'[f].pc = "nonce_proof" PROVE fl'[f].token.dpop = fl[f].dpop
    <3>1. PICK g \in BOOLEAN : fl'[f].token = token(g)
      BY <2>1, <2>2
    <3>2. token(g).dpop = fl[f].dpop
      OBVIOUS
    <3> QED
      BY <3>1, <3>2
  <2>3. Attested(f)'
    BY <1>0, <2>1
  <2> QED
    BY <1>0, <2>1, <2>2, <2>3, Moves
<1>27. ASSUME NEW f \in Flow, ObtainCredential(f) PROVE Lone'
  <2>1. /\ UNCHANGED <<wiaKey, wiaKeys, requests, dpopKey, used>>
        /\ \A g \in Flow \ {f} : fl'[g] = fl[g]
        /\ fl'[f].wia = fl[f].wia /\ fl'[f].client = fl[f].client
        /\ fl[f].pc = "cred_post" /\ fl'[f].pc \in {"verify", "failed"}
    <3>1. UNCHANGED <<wiaKey, wiaKeys, requests, dpopKey, used>> /\ fl[f].pc = "cred_post"
      BY <1>27 DEF ObtainCredential
    <3>2. CASE Goto(f, "failed")
      BY <1>0, <3>1, <3>2
    <3>3. ASSUME NEW c, fl' = [fl EXCEPT ![f].cred = c, ![f].pc = "verify"]
          PROVE  /\ \A g \in Flow \ {f} : fl'[g] = fl[g]
                 /\ fl'[f].wia = fl[f].wia /\ fl'[f].client = fl[f].client
                 /\ fl'[f].pc \in {"verify", "failed"}
      BY <1>0, <3>3
    <3> HIDE DEF Goto
    <3> QED
      BY <1>27, <3>1, <3>2, <3>3 DEF ObtainCredential
  <2> QED
    BY <1>0, <1>1, <2>1
(* A redirect changes the code of flows, and nothing else of them.         *)
<1>28. ASSUME NEW g \in Flow, Redirect(g) PROVE Lone'
  <2>1. /\ UNCHANGED <<wiaKey, wiaKeys, requests, dpopKey, used>>
        /\ \A f \in Flow :
            /\ fl'[f].pc = fl[f].pc /\ fl'[f].wia = fl[f].wia
            /\ fl'[f].client = fl[f].client /\ fl'[f].kid = fl[f].kid
            /\ fl'[f].pop = fl[f].pop /\ fl'[f].sig = fl[f].sig
            /\ fl'[f].dpop = fl[f].dpop /\ fl'[f].token = fl[f].token
    BY <1>0, <1>28 DEF Redirect
  <2>2. ASSUME NEW f \in Flow PROVE Attested(f)' /\ Undisturbed(f)'
    BY <1>0, <2>1, <2>2 DEF Alone
  <2> QED
    BY <1>0, <2>1, <2>2 DEF Lone
(* Only an attestation key newer than any flow's comes after the present.  *)
<1>29. CASE WiaDelete \/ WiaGenerate
  <2>1. /\ UNCHANGED <<fl, requests, dpopKey, used>> /\ wiaKeys' \in {wiaKeys, wiaKeys + 1}
        /\ wiaKey' \in {None, wiaKeys'} /\ (wiaKey' # None => wiaKey' = wiaKeys + 1)
    BY <1>29 DEF WiaDelete, WiaGenerate
  <2>2. ASSUME NEW f \in Flow PROVE Attested(f)' /\ Undisturbed(f)'
    <3>1. fl[f].pc = "idle" => Reads(fl[f])
      OBVIOUS
    <3>2. fl[f].pc # "idle" => wiaKey' # fl[f].wia
      <4>1. ASSUME fl[f].pc # "idle" PROVE fl[f].wia \in 1 .. wiaKeys /\ fl[f].wia \in WiaKey
        BY <1>0, <4>1, IssuanceAssumption DEF Inv, TypeOK, WiaKey
      <4> QED
        BY <1>0, <2>1, <4>1
    <3>3. fl[f].pc # "idle" => fl[f].wia \in 1 .. wiaKeys'
      BY <1>0, <2>1
    <3>4. Attested(f)'
      BY <1>0, <2>1, <3>1, <3>2, <3>3
    <3>5. Undisturbed(f)'
      BY <1>0, <2>1 DEF Alone
    <3> QED
      BY <3>4, <3>5
  <2> QED
    BY <2>1, <2>2 DEF Lone
<1>30. CASE UNCHANGED <<wiaKey, wiaKeys, requests, dpopKey, used, fl>>
  BY <1>0, <1>30 DEF Lone, Alone
<1> HIDE DEF FlowState, Attested, Reads, Undisturbed, HoldsDpop
<1> QED
  BY <1>2, <1>3, <1>4, <1>5, <1>6, <1>7, <1>8, <1>9, <1>10, <1>11, <1>12, <1>13,
     <1>14, <1>15, <1>16, <1>17, <1>18, <1>19, <1>20, <1>21, <1>22, <1>23, <1>24,
     <1>25, <1>26, <1>27, <1>28, <1>29, <1>30
  DEF Next, Step, RotateIssuerKey, vars

LEMMA InitLone == Init => Lone
<1> SUFFICES ASSUME Init PROVE Lone
  OBVIOUS
<1>1. /\ wiaKey = 1 /\ wiaKeys = 1 /\ used = {}
      /\ \A f \in Flow : requests[f] = None /\ fl[f].pc = "idle"
  BY DEF Init, Idle
<1>2. ASSUME NEW f \in Flow PROVE Attested(f) /\ Undisturbed(f)
  BY <1>1 DEF Attested, Reads, Undisturbed, HoldsDpop, HasVerifier, Keyed, Awaiting
<1> QED
  BY <1>1, <1>2 DEF Lone

(* The steps of startUserAuthorization to verifyAndParseCredential do not  *)
(* stand in one another's way: of a flow of getCredential or getPidCieID   *)
(* that runs alone, a step none of whose awaits fails fails only for want  *)
(* of a redirect, for a replaced attestation key, or for what the issuer   *)
(* granted, signed with or bound the credential to.                        *)
THEOREM LoneFlow == Spec => LoneFlowFailsForAReason
<1> DEFINE Reason(f) ==
        \/ RedirectTimeout(f)
        \/ wiaKey # fl[f].wia
        \/ At(f, "nonce_proof") /\ ~ fl[f].token.granted
        \/ At(f, "verify") /\ fl[f].cred.signer # fl[f].conf
        \/ At(f, "verify") /\ fl[f].cred.holder # f
    Justified == \A f \in Flow :
        (/\ Step(f) /\ fl'[f].pc = "failed"
         /\ \A g \in Flow \ {f} : At(g, "idle")) => Reason(f)
<1>1. Inv /\ Lone => Justified
  <2> SUFFICES ASSUME Inv, Lone, NEW f \in Flow, Step(f), fl'[f].pc = "failed",
                      \A g \in Flow \ {f} : At(g, "idle"), wiaKey = fl[f].wia
               PROVE  Reason(f)
    OBVIOUS
  <2> USE DEF At, Goto, If
  <2>0. /\ fl \in [Flow -> FlowState] /\ Knows(f) /\ Attested(f)
        /\ Alone(f) /\ HoldsDpop(fl[f], dpopKey)
        /\ f \in used => fl[f].pc \in HasToken \cup {"failed"}
        /\ None \notin WiaKey
    BY IssuanceAssumption DEF Inv, TypeOK, Lone, Undisturbed, Alone
  <2>1. Reads(fl[f]) /\ (fl[f].pc # "idle" => wiaKey # None)
    BY <2>0, IssuanceAssumption DEF Attested, Inv, TypeOK, WiaKey
  <2>2. CASE \/ EvaluateIssuerTrust(f) \/ CompleteWithQueryMode(f)
             \/ GetRequestedCredential(f) \/ DpopDelete(f)
    BY <2>0, <2>2 DEF EvaluateIssuerTrust, CompleteWithQueryMode, FlowState,
                      GetRequestedCredential, DpopDelete
  <2>3. CASE \/ StartUserAuthorization(f) \/ ParKid(f) \/ ParPopHeader(f)
             \/ ParPopSign(f) \/ ParSign(f) \/ SignWiaPresentation(f)
             \/ TokenPopHeader(f) \/ TokenPopSign(f)
    BY <2>0, <2>1, <2>3
    DEF StartUserAuthorization, ParKid, ParPopHeader, ParPopSign, ParSign, FlowState,
        SignWiaPresentation, TokenPopHeader, TokenPopSign
  <2>4. CASE ParPost(f)
    BY <2>0, <2>1, <2>4 DEF ParPost, Reads, HasVerifier, Awaiting, FlowState
  <2>5. CASE CompleteWithFormPostJwtMode(f)
    BY <2>0, <2>1, <2>5 DEF CompleteWithFormPostJwtMode, Reads, FlowState
  <2>6. CASE \/ DpopGenerate(f) \/ TokenDpopHeader(f) \/ TokenDpopSign(f)
             \/ CredentialDpopHeader(f) \/ CredentialDpopSign(f)
    BY <2>0, <2>6 DEF DpopGenerate, TokenDpopHeader, TokenDpopSign, FlowState,
                      CredentialDpopHeader, CredentialDpopSign, HoldsDpop, Keyed
  <2>7. CASE AuthorizeAccess(f)
    <3>1. fl[f].pc = "token_post"
      BY <2>7 DEF AuthorizeAccess
    <3>2. fl[f].code \in codes /\ requests[fl[f].code] # None /\ fl[f].code \in Flow
      BY <2>0, <3>1 DEF Knows, HasCode, Inv, TypeOK, Records
    <3>3. fl[f].code = f
      BY <2>0, <3>2 DEF Alone, Inv, Records
    <3>4. /\ requests[f].challenge = f /\ fl[f].verifier = f
          /\ requests[f].client = fl[f].client
      <4>1. requests[f] # None
        BY <3>2, <3>3
      <4>2. requests[f].challenge = f
        BY <4>1 DEF Inv, Records
      <4>3. requests[f].client = fl[f].client
        BY <2>0, <4>1 DEF Attested
      <4>4. fl[f].verifier = f
        BY <2>0, <3>1 DEF Knows, HasVerifier, Awaiting
      <4> QED
        BY <4>2, <4>3, <4>4
    <3>5. fl[f].pop = fl[f].wia /\ fl[f].dpop # None /\ f \notin used
      BY <2>0, <2>1, <3>1 DEF Reads, HoldsDpop, Keyed, HasToken, Granted
    <3>6. fl'[f].pc = "nonce_proof"
      BY <2>0, <2>7, <3>3, <3>4, <3>5 DEF AuthorizeAccess, FlowState
    <3> QED
      BY <3>6
  <2>8. CASE NonceProof(f)
    BY <2>0, <2>8 DEF NonceProof, FlowState
  <2>9. CASE ObtainCredential(f)
    <3>1. fl[f].dpop = fl[f].token.dpop
      BY <2>0, <2>9 DEF ObtainCredential, HoldsDpop, Keyed
    <3>2. PICK c : fl' = [fl EXCEPT ![f].cred = c, ![f].pc = "verify"]
      BY <2>9, <3>1 DEF ObtainCredential
    <3> QED
      BY <2>0, <3>2 DEF FlowState
  <2>10. CASE VerifyAndParseCredential(f)
    BY <2>0, <2>10 DEF VerifyAndParseCredential, FlowState
  <2> QED
    BY <2>2, <2>3, <2>4, <2>5, <2>6, <2>7, <2>8, <2>9, <2>10 DEF Step
<1>2. Spec => []Lone
  <2>1. Inv /\ Lone /\ [Next]_vars => Lone'
    BY NextLone
  <2> QED
    BY Invariance, InitLone, <2>1, PTL DEF Spec
<1>3. Spec => [][Justified]_vars
  BY <1>1, <1>2, Invariance, PTL
<1> QED
  BY <1>3 DEF LoneFlowFailsForAReason
=============================================================================
