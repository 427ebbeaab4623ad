----------------------- MODULE PresentationReasons --------------------------
(***************************************************************************)
(* For any number of flows, relying parties, credentials and rotations: a  *)
(* presentation flow is refused for a reason, and what a relying party     *)
(* accepted is what was consented to.                                      *)
(***************************************************************************)
EXTENDS PresentationProofs

(* A verified token that disclose takes: what it gives verifies, and is    *)
(* of the claims asked for.                                                *)
LEMMA DisclosedVerifies ==
    ASSUME NEW S, NEW t, t.rest \in Seq(S), NEW claims, NEW keys, Verify(t, keys),
           NEW r, r = Disclose(t, claims), r.error = "none"
    PROVE  /\ Verify(r.token, keys) /\ r.token.jwt = t.jwt
           /\ Names(r.token.rest) = claims
<1>1. /\ Clear(t.rest) /\ RawDisclosures(t) = t.rest
      /\ claims \subseteq Names(t.rest)
      /\ \A c \in claims : t.rest[FirstNamed(t.rest, c)] \in Elements(t.jwt.sd)
      /\ r.token.jwt = t.jwt
      /\ r.token.rest = FilteredDisclosures(t.rest, claims)
      /\ "paths" \in DOMAIN r /\ r.paths = [c \in claims |-> Path(t, c)]
  BY Disclosed
<1>2. PICK part, whole : part = r.token.rest /\ whole = t.rest
  OBVIOUS
<1>3. whole \in Seq(S) /\ part = FilteredDisclosures(whole, claims)
  BY <1>1, <1>2
<1>4. part \in Seq(S) /\ Picks(part, whole, claims)
  BY <1>3, FilterPicks
<1>5. /\ \A i \in DOMAIN part : \E k \in DOMAIN whole :
            part[i] = whole[k] /\ whole[k].name \in claims
      /\ \A k \in DOMAIN whole : whole[k].name \in claims =>
            \E i \in DOMAIN part : part[i] = whole[k]
  BY <1>4, PickedElements
<1>6. Clear(part) /\ Elements(part) \subseteq Elements(whole)
  BY <1>1, <1>2, <1>5 DEF Clear, Elements
<1>7. RawDisclosures(r.token) = r.token.rest /\ Decodes(r.token)
  BY <1>2, <1>4, <1>6, ClearTokens
<1>8. Verify(r.token, keys)
  BY <1>1, <1>2, <1>6, <1>7 DEF Verify
<1>9. Names(part) = claims
  <2>1. ASSUME NEW n \in claims PROVE n \in Names(part)
    <3>1. PICK k \in DOMAIN whole : whole[k].name = n
      BY <1>1, <1>2 DEF Names
    <3> QED
      BY <1>5, <3>1 DEF Names
  <2>2. ASSUME NEW n \in Names(part) PROVE n \in claims
    BY <1>5 DEF Names
  <2> QED
    BY <2>1, <2>2
<1> QED
  BY <1>1, <1>2, <1>8, <1>9

(* The keys a flow has read were those of the time: none is newer than the *)
(* present one, and they were read in this order.                          *)
Ordered(f) ==
    /\ fl[f].attested <= wiaKey
    /\ fl[f].at = "header" => fl[f].attested <= fl[f].head /\ fl[f].head <= wiaKey
    /\ fl[f].at = "asking" =>
        /\ fl[f].attested <= fl[f].head
        /\ fl[f].head <= fl[f].sig /\ fl[f].sig <= wiaKey
    /\ fl[f].at \in WithConf =>
        \E g \in 1 .. gen[fl[f].client] : fl[f].conf = Configuration(fl[f].client, g)
    /\ fl[f].at \in WithRequest => requests[fl[f].req].rp = fl[f].uri
    /\ fl[f].at = "sending" =>
        /\ fl[f].conf.enc # None
        /\ fl[f].vp.nonce = fl[f].req
        /\ fl[f].vp.holder = fl[f].vc.holder
        /\ Verify(fl[f].vp.vp, {IssuerKey})

(* The configuration is of keys the relying party has no more.             *)
Stale(f) ==
    /\ fl[f].client \in RP
    /\ \E g \in 1 .. MaxGen :
        fl[f].conf = Configuration(fl[f].client, g) /\ g < gen[fl[f].client]

(* The configuration and the request are of different keys of one party.   *)
Mixed(f) ==
    /\ fl[f].req \in DOMAIN requests
    /\ \E g, h \in 1 .. MaxGen :
        /\ fl[f].conf = Configuration(fl[f].client, g)
        /\ requests[fl[f].req].sig = <<fl[f].client, h>>
        /\ g # h

NoKeyToEncrypt(f) ==
    \E g \in (1 .. MaxGen) \ RsaGen : fl[f].conf = Configuration(fl[f].client, g)

Blamed(f) ==
    /\ fl[f].why = "UnexpectedStatusCodeError" =>
        \/ fl[f].attested < wiaKey
        \/ fl[f].req # 0 /\ Stale(f)
        \/ \E a \in accepted : a.session = fl[f].req
    /\ fl[f].why = "KeyNotFound" => ~ present \/ fl[f].attested < wiaKey
    /\ fl[f].why = "NoSuitableKeysFoundInEntityConfiguration" =>
        fl[f].client # fl[f].uri \/ Mixed(f) \/ NoKeyToEncrypt(f)

(* What a flow sends is what was consented to; an answer that was accepted *)
(* is of a flow that has ended.                                            *)
Consented(f) ==
    /\ Names(fl[f].vp.vp.rest) = fl[f].claims
    /\ fl[f].vp.vp.jwt = fl[f].vc.token.jwt

Sent ==
    /\ \A f \in Flow : fl[f].at = "sending" => Consented(f)
    /\ \A a \in accepted :
        /\ a.flow \in Flow /\ fl[a.flow].at \in {"done", "failed"}
        /\ a.vp = fl[a.flow].vp /\ Consented(a.flow)

Reasons == \A f \in Flow : Ordered(f) /\ Blamed(f)

(* Keys, requests and accepted answers are only added to; where there is   *)
(* no key, the next one is new.                                            *)
Grows ==
    /\ wiaKey' \in Nat /\ wiaKey <= wiaKey'
    /\ ~ present => ~ present' \/ wiaKey < wiaKey'
    /\ \A rp \in RP : gen'[rp] \in Nat /\ gen[rp] <= gen'[rp]
    /\ \A n \in DOMAIN requests : n \in DOMAIN requests' /\ requests'[n] = requests[n]
    /\ accepted \subseteq accepted'

LEMMA NextGrows == Inv /\ [Next]_vars => Grows
<1> SUFFICES ASSUME Inv, [Next]_vars PROVE Grows
  OBVIOUS
<1>0. /\ wiaKey \in Nat /\ \A rp \in RP : gen[rp] \in Nat
      /\ requests \in Seq([rp : RP, sig : RP \X (1 .. MaxGen)])
  BY PresentationAssumption DEF Inv, TypeOK
<1>1. ASSUME NEW rp \in RP, RotateKeys(rp) PROVE Grows
  <2>1. gen' = [gen EXCEPT ![rp] = @ + 1] /\ UNCHANGED <<requests, accepted, wiaKey, present>>
    BY <1>1 DEF RotateKeys, device
  <2>2. \A r \in RP : gen'[r] \in {gen[r], gen[r] + 1}
    BY <2>1 DEF Inv, TypeOK
  <2> QED
    BY <1>0, <2>1, <2>2 DEF Grows
<1>2. CASE WiaDelete \/ WiaGenerate
  BY <1>0, <1>2 DEF WiaDelete, WiaGenerate, Grows
<1>3. CASE UNCHANGED <<gen, requests, device>> /\ accepted \subseteq accepted'
  BY <1>0, <1>3 DEF Grows, device
<1>4. ASSUME NEW f \in Flow, FetchRequestObject(f) PROVE Grows
  <2>1. UNCHANGED <<gen, accepted, wiaKey, present>>
    BY <1>4 DEF FetchRequestObject, device
  <2>2. PICK r : UNCHANGED requests \/ requests' = Append(requests, r)
    BY <1>4 DEF FetchRequestObject
  <2>3. \A n \in DOMAIN requests : n \in DOMAIN requests' /\ requests'[n] = requests[n]
    <3>1. CASE UNCHANGED requests
      BY <3>1
    <3>2. CASE requests' = Append(requests, r)
      BY <1>0, <3>2
    <3> QED
      BY <2>2, <3>1, <3>2
  <2> QED
    BY <1>0, <2>1, <2>3 DEF Grows
<1>5. ASSUME NEW f \in Flow, Step(f), ~ FetchRequestObject(f)
      PROVE  UNCHANGED <<gen, requests, device>> /\ accepted \subseteq accepted'
  BY <1>5 DEF Step, Awaited, EvaluateRelyingPartyTrust, CreateDPopHeader, CreateDPopSign,
              VerifyRequestObject, PrepareResponse, PostResponse
<1>6. ASSUME NEW f \in Flow, StartFlowFromQR(f)
      PROVE  UNCHANGED <<gen, requests, device, accepted>>
  BY <1>6 DEF StartFlowFromQR
<1> QED
  BY <1>1, <1>2, <1>3, <1>4, <1>5, <1>6 DEF Next, vars

(* A flow that does not move keeps its reasons.                            *)
LEMMA StillReasons ==
    ASSUME Inv, Grows, NEW f \in Flow, Ordered(f), Blamed(f), fl'[f] = fl[f]
    PROVE  Ordered(f)' /\ Blamed(f)'
<1>0. /\ fl[f].attested \in Nat /\ fl[f].head \in Nat /\ fl[f].sig \in Nat
      /\ wiaKey \in Nat /\ \A rp \in RP : gen[rp] \in Nat
  BY PresentationAssumption DEF Inv, TypeOK, FlowState
<1>1. Has(f)
  BY DEF Inv
<1>2. Ordered(f)'
  <2>1. fl[f].at \in WithConf =>
          \E g \in 1 .. gen'[fl[f].client] : fl[f].conf = Configuration(fl[f].client, g)
    <3> SUFFICES ASSUME fl[f].at \in WithConf
                 PROVE  \E g \in 1 .. gen'[fl[f].client] :
                            fl[f].conf = Configuration(fl[f].client, g)
      OBVIOUS
    <3>1. PICK g \in 1 .. gen[fl[f].client] :
            fl[f].conf = Configuration(fl[f].client, g)
      BY DEF Ordered
    <3>2. fl[f].client \in RP
      BY <1>1 DEF Has
    <3>3. g \in 1 .. gen'[fl[f].client]
      BY <1>0, <3>2 DEF Grows
    <3> QED
      BY <3>1, <3>3
  <2>2. fl[f].at \in WithRequest => requests'[fl[f].req].rp = fl[f].uri
    BY <1>1 DEF Has, Ordered, Grows
  <2>3. fl[f].attested <= wiaKey' /\ (fl[f].head <= wiaKey => fl[f].head <= wiaKey')
        /\ (fl[f].sig <= wiaKey => fl[f].sig <= wiaKey')
    BY <1>0 DEF Ordered, Grows
  <2> QED
    BY <2>1, <2>2, <2>3 DEF Ordered
<1>3. Blamed(f)'
  <2>1. /\ fl[f].attested < wiaKey => fl[f].attested < wiaKey'
        /\ ~ present => ~ present' \/ fl[f].attested < wiaKey'
    BY <1>0 DEF Grows, Ordered
  <2>2. Stale(f) => Stale(f)'
    <3> SUFFICES ASSUME Stale(f) PROVE Stale(f)'
      OBVIOUS
    <3>1. PICK g \in 1 .. MaxGen :
            fl[f].conf = Configuration(fl[f].client, g) /\ g < gen[fl[f].client]
      BY DEF Stale
    <3>2. fl[f].client \in RP /\ g \in Nat
      BY PresentationAssumption DEF Stale
    <3>3. g < gen'[fl[f].client]
      BY <1>0, <3>1, <3>2 DEF Grows
    <3> QED
      BY <3>1, <3>2, <3>3 DEF Stale
  <2>3. Mixed(f) => Mixed(f)'
    BY DEF Mixed, Grows
  <2>4. NoKeyToEncrypt(f) => NoKeyToEncrypt(f)'
    BY DEF NoKeyToEncrypt
  <2> QED
    BY <2>1, <2>2, <2>3, <2>4 DEF Blamed, Grows
<1> QED
  BY <1>2, <1>3

(* A flow that is refused or fails, with what its reason needs.            *)
LEMMA EndReasons ==
    ASSUME Inv, NEW f \in Flow, Ordered(f), NEW why \in Why \ {"none"}, Ends(f, why),
           UNCHANGED <<gen, requests, device>>, accepted \subseteq accepted',
           why = "UnexpectedStatusCodeError" =>
            \/ fl[f].attested < wiaKey
            \/ fl[f].req # 0 /\ Stale(f)
            \/ \E a \in accepted : a.session = fl[f].req,
           why = "KeyNotFound" => ~ present,
           why = "NoSuitableKeysFoundInEntityConfiguration" =>
            fl[f].client # fl[f].uri \/ Mixed(f) \/ NoKeyToEncrypt(f)
    PROVE  Ordered(f)' /\ Blamed(f)'
<1>1. /\ fl'[f].at = "failed" /\ fl'[f].why = why
      /\ fl'[f].attested = fl[f].attested /\ fl'[f].req = fl[f].req
      /\ fl'[f].client = fl[f].client /\ fl'[f].uri = fl[f].uri
      /\ fl'[f].conf = fl[f].conf
  BY DEF Ends, Inv, TypeOK, FlowState
<1>2. Ordered(f)'
  BY <1>1 DEF Ordered, WithConf, WithRequest, Answering, device
<1>3. (Stale(f) => Stale(f)') /\ (Mixed(f) => Mixed(f)')
      /\ (NoKeyToEncrypt(f) => NoKeyToEncrypt(f)')
  BY <1>1 DEF Stale, Mixed, NoKeyToEncrypt
<1>4. Blamed(f)'
  BY <1>1, <1>3 DEF Blamed, device
<1> QED
  BY <1>2, <1>4
LEMMA Member == ASSUME NEW S, NEW s \in Seq(S), NEW n \in DOMAIN s PROVE s[n] \in S
  OBVIOUS

LEMMA NextReasons == Inv /\ Reasons /\ [Next]_vars => Reasons'
<1> SUFFICES ASSUME Inv, Reasons, [Next]_vars PROVE Reasons'
  OBVIOUS
<1> USE DEF At, device
<1> DEFINE Rest == UNCHANGED <<gen, requests, device>> /\ accepted \subseteq accepted'
<1>0. /\ fl \in [Flow -> FlowState] /\ \A f \in Flow : fl[f] \in FlowState
      /\ \A f \in Flow : Has(f) /\ Ordered(f) /\ Blamed(f)
      /\ wiaKey \in Nat /\ Grows
  BY PresentationAssumption, NextGrows DEF Inv, TypeOK, Reasons
<1>1. ASSUME NEW f \in Flow, Ordered(f)' /\ Blamed(f)',
             \A g \in Flow \ {f} : fl'[g] = fl[g]
      PROVE  Reasons'
  BY <1>0, <1>1, StillReasons DEF Reasons
<1>2. ASSUME NEW f \in Flow, NEW why \in Why \ {"none"}, Ends(f, why), Rest,
             why = "UnexpectedStatusCodeError" =>
                \/ fl[f].attested < wiaKey
                \/ fl[f].req # 0 /\ Stale(f)
                \/ \E a \in accepted : a.session = fl[f].req,
             why = "KeyNotFound" => ~ present,
             why = "NoSuitableKeysFoundInEntityConfiguration" =>
                fl[f].client # fl[f].uri \/ Mixed(f) \/ NoKeyToEncrypt(f)
      PROVE  Reasons'
  <2>1. Ordered(f)' /\ Blamed(f)'
    BY <1>0, <1>2, EndReasons
  <2>2. \A g \in Flow \ {f} : fl'[g] = fl[g]
    BY <1>0, <1>2 DEF Ends
  <2> QED
    BY <1>1, <2>1, <2>2
<1>3. ASSUME NEW f \in Flow, fl[f].at # "failed" PROVE fl[f].why = "none"
  BY <1>3 DEF Inv, TypeOK
<1>4. ASSUME NEW f \in Flow, StartFlowFromQR(f) PROVE Reasons'
  <2>0. Rest /\ fl[f].why = "none"
    BY <1>3, <1>4 DEF StartFlowFromQR
  <2>1. CASE Ends(f, "AuthRequestDecodeError")
    BY <1>2, <2>0, <2>1 DEF Why
  <2>2. ASSUME NEW c \in RP, NEW u \in RP, NEW k \in 1 .. wiaKey,
               fl' = [fl EXCEPT ![f].at = "scanned", ![f].client = c,
                                ![f].uri = u, ![f].attested = k]
        PROVE  Reasons'
    <3>1. /\ fl'[f].at = "scanned" /\ fl'[f].attested = k /\ fl'[f].why = "none"
          /\ \A g \in Flow \ {f} : fl'[g] = fl[g]
      BY <1>0, <2>0, <2>2 DEF FlowState
    <3>2. Ordered(f)' /\ Blamed(f)'
      BY <1>0, <2>0, <3>1 DEF Ordered, Blamed, WithConf, WithRequest, Answering
    <3> QED
      BY <1>1, <3>1, <3>2
  <2> QED
    BY <1>4, <2>1, <2>2 DEF StartFlowFromQR
<1>5. ASSUME NEW f \in Flow, EvaluateRelyingPartyTrust(f) PROVE Reasons'
  <2>0. Rest /\ fl[f].why = "none" /\ fl[f].at = "scanned" /\ fl[f].client \in RP
    BY <1>0, <1>3, <1>5 DEF EvaluateRelyingPartyTrust, Has
  <2>1. CASE Ends(f, "network")
    BY <1>2, <2>0, <2>1 DEF Why
  <2>2. CASE fl' = [fl EXCEPT ![f].at = "trusted",
                    ![f].conf = Configuration(fl[f].client, gen[fl[f].client])]
    <3>1. /\ fl'[f].at = "trusted" /\ fl'[f].attested = fl[f].attested
          /\ fl'[f].conf = Configuration(fl[f].client, gen[fl[f].client])
          /\ fl'[f].client = fl[f].client /\ fl'[f].why = "none"
          /\ \A g \in Flow \ {f} : fl'[g] = fl[g]
      BY <1>0, <2>0, <2>2 DEF FlowState
    <3>2. gen[fl[f].client] \in 1 .. gen[fl[f].client]
      BY <2>0, PresentationAssumption DEF Inv, TypeOK
    <3>3. Ordered(f)'
      BY <1>0, <2>0, <3>1, <3>2 DEF Ordered, WithRequest, Answering
    <3>4. Blamed(f)'
      BY <3>1 DEF Blamed
    <3> QED
      BY <1>1, <3>1, <3>3, <3>4
  <2> QED
    BY <1>5, <2>1, <2>2 DEF EvaluateRelyingPartyTrust
<1>6. ASSUME NEW f \in Flow, CreateDPopHeader(f) PROVE Reasons'
  <2>0. Rest /\ fl[f].why = "none" /\ fl[f].at = "trusted"
    BY <1>3, <1>6 DEF CreateDPopHeader
  <2>1. CASE ~ present /\ Ends(f, "KeyNotFound")
    BY <1>2, <2>0, <2>1 DEF Why
  <2>2. CASE fl' = [fl EXCEPT ![f].at = "header", ![f].head = wiaKey]
    <3>1. /\ fl'[f].at = "header" /\ fl'[f].attested = fl[f].attested
          /\ fl'[f].head = wiaKey /\ fl'[f].conf = fl[f].conf
          /\ fl'[f].client = fl[f].client /\ fl'[f].why = "none"
          /\ \A g \in Flow \ {f} : fl'[g] = fl[g]
      BY <1>0, <2>0, <2>2 DEF FlowState
    <3>2. Ordered(f)'
      BY <1>0, <2>0, <3>1 DEF Ordered, WithConf, WithRequest, Answering
    <3>3. Blamed(f)'
      BY <3>1 DEF Blamed
    <3> QED
      BY <1>1, <3>1, <3>2, <3>3
  <2> QED
    BY <1>6, <2>1, <2>2 DEF CreateDPopHeader
<1>7. ASSUME NEW f \in Flow, CreateDPopSign(f) PROVE Reasons'
  <2>0. Rest /\ fl[f].why = "none" /\ fl[f].at = "header"
    BY <1>3, <1>7 DEF CreateDPopSign
  <2>1. CASE ~ present /\ Ends(f, "KeyNotFound")
    BY <1>2, <2>0, <2>1 DEF Why
  <2>2. CASE fl' = [fl EXCEPT ![f].at = "asking", ![f].sig = wiaKey]
    <3>1. /\ fl'[f].at = "asking" /\ fl'[f].attested = fl[f].attested
          /\ fl'[f].head = fl[f].head /\ fl'[f].sig = wiaKey
          /\ fl'[f].conf = fl[f].conf
          /\ fl'[f].client = fl[f].client /\ fl'[f].why = "none"
          /\ \A g \in Flow \ {f} : fl'[g] = fl[g]
      BY <1>0, <2>0, <2>2 DEF FlowState
    <3>2. Ordered(f)'
      BY <1>0, <2>0, <3>1 DEF Ordered, WithConf, WithRequest, Answering
    <3>3. Blamed(f)'
      BY <3>1 DEF Blamed
    <3> QED
      BY <1>1, <3>1, <3>2, <3>3
  <2> QED
    BY <1>7, <2>1, <2>2 DEF CreateDPopSign
(* The proof is of one key, unless the key was renewed under way.          *)
<1>8. ASSUME NEW f \in Flow, FetchRequestObject(f) PROVE Reasons'
  <2>0. /\ fl[f].why = "none" /\ fl[f].at = "asking"
        /\ UNCHANGED <<gen, accepted, device>>
    BY <1>3, <1>8 DEF FetchRequestObject
  <2>1. CASE Ends(f, "network") /\ UNCHANGED requests
    BY <1>2, <2>0, <2>1 DEF Why
  <2>2. CASE /\ ~ DPopIsValid(fl[f])
             /\ Ends(f, "UnexpectedStatusCodeError") /\ UNCHANGED requests
    <3>1. /\ fl[f].attested \in Nat /\ fl[f].head \in Nat /\ fl[f].sig \in Nat
      BY <1>0, PresentationAssumption DEF FlowState
    <3>2. fl[f].attested < wiaKey
      BY <1>0, <2>0, <2>2, <3>1 DEF Ordered, DPopIsValid
    <3> QED
      BY <1>2, <2>0, <2>2, <3>2 DEF Why
  <2>3. ASSUME NEW n \in DOMAIN requests', requests'[n].rp = fl[f].uri,
               fl' = [fl EXCEPT ![f].at = "answered", ![f].req = n]
        PROVE  Reasons'
    <3>1. /\ fl'[f].at = "answered" /\ fl'[f].attested = fl[f].attested
          /\ fl'[f].req = n /\ fl'[f].uri = fl[f].uri
          /\ fl'[f].conf = fl[f].conf
          /\ fl'[f].client = fl[f].client /\ fl'[f].why = "none"
          /\ \A g \in Flow \ {f} : fl'[g] = fl[g]
      BY <1>0, <2>0, <2>3 DEF FlowState
    <3>2. Ordered(f)'
      BY <1>0, <2>0, <2>3, <3>1 DEF Ordered, WithConf
    <3>3. Blamed(f)'
      BY <3>1 DEF Blamed
    <3> QED
      BY <1>1, <3>1, <3>2, <3>3
  <2>4. ASSUME requests' = Append(requests,
                    [rp |-> fl[f].uri, sig |-> <<fl[f].uri, gen[fl[f].uri]>>])
        PROVE  /\ Len(requests) + 1 \in DOMAIN requests'
               /\ requests'[Len(requests) + 1].rp = fl[f].uri
    <3>1. PICK r : r = [rp |-> fl[f].uri, sig |-> <<fl[f].uri, gen[fl[f].uri]>>]
      OBVIOUS
    <3>2. requests \in Seq([rp : RP, sig : RP \X (1 .. MaxGen)])
      BY DEF Inv, TypeOK
    <3>3. requests' = Append(requests, r) /\ r.rp = fl[f].uri
      BY <2>4, <3>1
    <3> QED
      BY <3>2, <3>3
  <2> QED
    BY <1>8, <2>1, <2>2, <2>3, <2>4 DEF FetchRequestObject
(* One party, two keys: if the signature does not match, the configuration *)
(* or the request is not of the present key.                               *)
<1>9. ASSUME NEW f \in Flow, VerifyRequestObject(f) PROVE Reasons'
  <2>0. Rest /\ fl[f].why = "none" /\ fl[f].at = "answered"
    BY <1>3, <1>9 DEF VerifyRequestObject
  <2>1. CASE fl' = [fl EXCEPT ![f].at = "consent"]
    <3>1. /\ fl'[f].at = "consent" /\ fl'[f].attested = fl[f].attested
          /\ fl'[f].req = fl[f].req /\ fl'[f].uri = fl[f].uri
          /\ fl'[f].conf = fl[f].conf
          /\ fl'[f].client = fl[f].client /\ fl'[f].why = "none"
          /\ \A g \in Flow \ {f} : fl'[g] = fl[g]
      BY <1>0, <2>0, <2>1 DEF FlowState
    <3>2. Ordered(f)'
      BY <1>0, <2>0, <3>1 DEF Ordered, WithConf, WithRequest
    <3>3. Blamed(f)'
      BY <3>1 DEF Blamed
    <3> QED
      BY <1>1, <3>1, <3>2, <3>3
  <2>2. CASE /\ requests[fl[f].req].sig # fl[f].conf.sig
             /\ Ends(f, "NoSuitableKeysFoundInEntityConfiguration")
    <3>1. PICK g \in 1 .. MaxGen : fl[f].conf = Configuration(fl[f].client, g)
      BY <1>0, <2>0 DEF Has, WithConf
    <3>2. fl[f].req \in DOMAIN requests /\ requests[fl[f].req].rp = fl[f].uri
      BY <1>0, <2>0 DEF Has, Ordered, WithRequest
    <3>3. PICK r : r = requests[fl[f].req]
      OBVIOUS
    <3>4. r \in [rp : RP, sig : RP \X (1 .. MaxGen)] /\ r.sig[1] = r.rp
      <4>1. requests \in Seq([rp : RP, sig : RP \X (1 .. MaxGen)])
        BY DEF Inv, TypeOK
      <4>2. r \in [rp : RP, sig : RP \X (1 .. MaxGen)]
        BY <3>2, <3>3, <4>1, Member
      <4> QED
        BY <3>2, <3>3, <4>2 DEF Inv
    <3>5. PICK h \in 1 .. MaxGen : r.sig = <<fl[f].uri, h>>
      BY <3>2, <3>3, <3>4
    <3>6. fl[f].conf.sig = <<fl[f].client, g>>
      BY <3>1 DEF Configuration
    <3>7. fl[f].client # fl[f].uri \/ Mixed(f)
      BY <2>2, <3>1, <3>2, <3>3, <3>5, <3>6 DEF Mixed
    <3> QED
      BY <1>2, <2>0, <2>2, <3>7 DEF Why
  <2> QED
    BY <1>9, <2>1, <2>2 DEF VerifyRequestObject
<1>10. ASSUME NEW f \in Flow, PrepareResponse(f) PROVE Reasons'
  <2>0. Rest /\ fl[f].why = "none" /\ fl[f].at = "consent"
    BY <1>3, <1>10 DEF PrepareResponse
  <2>1. PICK vc \in Vc, claims \in SUBSET Claim :
          LET error == Disclose(vc.token, claims).error
          IN  IF fl[f].conf.enc = None
              THEN Ends(f, "NoSuitableKeysFoundInEntityConfiguration")
              ELSE IF error # "none" THEN Ends(f, error)
              ELSE fl' = [fl EXCEPT ![f].at = "sending", ![f].vc = vc,
                          ![f].claims = claims,
                          ![f].vp = PrepareVpToken(vc, claims, fl[f].req)]
    BY <1>10, Zenon DEF PrepareResponse
  <2>2. PICK r : r = Disclose(vc.token, claims)
    OBVIOUS
  <2>3. CASE fl[f].conf.enc = None
    <3>1. PICK g \in 1 .. MaxGen : fl[f].conf = Configuration(fl[f].client, g)
      BY <1>0, <2>0 DEF Has, WithConf, Answering
    <3>2. fl[f].client \in RP
      BY <1>0, <2>0 DEF Has, WithConf, Answering
    <3>3. g \notin RsaGen
      BY <2>3, <3>1, <3>2, PresentationAssumption DEF Configuration
    <3>4. NoKeyToEncrypt(f)
      BY <3>1, <3>3 DEF NoKeyToEncrypt
    <3> QED
      BY <1>2, <2>0, <2>1, <2>3, <3>4 DEF Why
  <2>4. CASE fl[f].conf.enc # None /\ r.error # "none"
    <3>1. r.error \in {"SyntaxError", "ClaimsNotFoundBetweenDisclosures",
                       "ClaimsNotFoundInToken"}
      BY <2>2, <2>4 DEF Disclose, Error
    <3>2. Ends(f, r.error)
      BY <2>1, <2>2, <2>4
    <3> QED
      BY <1>2, <2>0, <3>1, <3>2 DEF Why
  <2>5. CASE fl[f].conf.enc # None /\ r.error = "none"
    <3>1. PICK vp : vp = PrepareVpToken(vc, claims, fl[f].req)
      OBVIOUS
    <3>2. vp.nonce = fl[f].req /\ vp.holder = vc.holder /\ vp.vp = r.token
      BY <2>2, <3>1 DEF PrepareVpToken
    <3>3. Verify(r.token, {IssuerKey})
      BY <2>2, <2>5, VcAssumption, DisclosedVerifies
    <3>4. fl' = [fl EXCEPT ![f].at = "sending", ![f].vc = vc,
                           ![f].claims = claims, ![f].vp = vp]
      BY <2>1, <2>2, <2>5, <3>1
    <3>5. /\ fl'[f].at = "sending" /\ fl'[f].attested = fl[f].attested
          /\ fl'[f].req = fl[f].req /\ fl'[f].uri = fl[f].uri
          /\ fl'[f].conf = fl[f].conf /\ fl'[f].vc = vc /\ fl'[f].vp = vp
          /\ fl'[f].client = fl[f].client /\ fl'[f].why = "none"
          /\ \A g \in Flow \ {f} : fl'[g] = fl[g]
      BY <1>0, <2>0, <3>4 DEF FlowState
    <3>6. Ordered(f)'
      BY <1>0, <2>0, <2>5, <3>2, <3>3, <3>5
      DEF Ordered, WithConf, WithRequest, Answering
    <3>7. Blamed(f)'
      BY <3>5 DEF Blamed
    <3> QED
      BY <1>1, <3>5, <3>6, <3>7
  <2> QED
    BY <2>3, <2>4, <2>5
(* The token is good: what is not acceptable is the key or the session.    *)
<1>11. ASSUME NEW f \in Flow, PostResponse(f) PROVE Reasons'
  <2>0. Rest /\ fl[f].why = "none" /\ fl[f].at = "sending"
    BY <1>3, <1>11 DEF PostResponse
  <2>1. CASE Ends(f, "network")
    BY <1>2, <2>0, <2>1 DEF Why
  <2>2. CASE fl' = [fl EXCEPT ![f].at = "done"]
    <3>1. /\ fl'[f].at = "done" /\ fl'[f].attested = fl[f].attested
          /\ fl'[f].req = fl[f].req /\ fl'[f].uri = fl[f].uri
          /\ fl'[f].conf = fl[f].conf
          /\ fl'[f].client = fl[f].client /\ fl'[f].why = "none"
          /\ \A g \in Flow \ {f} : fl'[g] = fl[g]
      BY <1>0, <2>0, <2>2 DEF FlowState
    <3>2. Ordered(f)'
      BY <1>0, <2>0, <3>1 DEF Ordered, WithConf, WithRequest, Answering
    <3>3. Blamed(f)'
      BY <3>1 DEF Blamed
    <3> QED
      BY <1>1, <3>1, <3>2, <3>3
  <2>3. CASE /\ ~ Acceptable(fl[f], fl[f].req)
             /\ Ends(f, "UnexpectedStatusCodeError")
    <3>1. PICK g \in 1 .. gen[fl[f].client] :
            fl[f].conf = Configuration(fl[f].client, g)
      BY <1>0, <2>0 DEF Ordered, WithConf, Answering
    <3>2. /\ fl[f].client \in RP /\ fl[f].req \in DOMAIN requests
          /\ requests[fl[f].req].sig = fl[f].conf.sig
          /\ requests[fl[f].req].sig[1] = requests[fl[f].req].rp
      BY <1>0, <2>0 DEF Inv, Has, WithConf, WithRequest, Answering
    <3>3. /\ gen[fl[f].client] \in 1 .. MaxGen /\ MaxGen \in Nat
          /\ g \in 1 .. MaxGen /\ g <= gen[fl[f].client]
      BY <3>2, PresentationAssumption DEF Inv, TypeOK
    <3>4. fl[f].conf.sig = <<fl[f].client, g>> /\ fl[f].conf.enc = <<fl[f].client, g>>
      BY <1>0, <2>0, <3>1 DEF Ordered, Configuration
    <3>5. requests[fl[f].req].rp = fl[f].client
      BY <3>2, <3>4
    <3>6. CASE g = gen[fl[f].client]
      <4>1. \E a \in accepted : a.session = fl[f].req
        BY <1>0, <2>0, <2>3, <3>4, <3>5, <3>6 DEF Acceptable, Ordered
      <4> QED
        BY <1>2, <2>0, <2>3, <4>1 DEF Why
    <3>7. CASE g # gen[fl[f].client]
      <4>1. g < gen[fl[f].client]
        BY <3>3, <3>7
      <4>2. Stale(f)
        BY <3>1, <3>2, <3>3, <4>1 DEF Stale
      <4>3. fl[f].req # 0
        BY <3>2 DEF Inv, TypeOK
      <4> QED
        BY <1>2, <2>0, <2>3, <4>2, <4>3 DEF Why
    <3> QED
      BY <3>6, <3>7
  <2> QED
    BY <1>11, <2>1, <2>2, <2>3 DEF PostResponse
<1>12. ASSUME UNCHANGED fl PROVE Reasons'
  BY <1>0, <1>12, StillReasons DEF Reasons
<1> QED
  BY <1>4, <1>5, <1>6, <1>7, <1>8, <1>9, <1>10, <1>11, <1>12
  DEF Next, Step, Awaited, RotateKeys, WiaDelete, WiaGenerate, vars

LEMMA InitReasons == Init => Reasons /\ Sent
<1> SUFFICES ASSUME Init PROVE Reasons /\ Sent
  OBVIOUS
<1>1. wiaKey = 1 /\ accepted = {} /\ \A f \in Flow : fl[f] = NoFlow
  BY DEF Init
<1>2. \A f \in Flow : /\ fl[f].at = "idle" /\ fl[f].attested = 0
                      /\ fl[f].why = "none"
  BY <1>1 DEF NoFlow
<1>3. ASSUME NEW f \in Flow PROVE Ordered(f) /\ Blamed(f)
  <2>1. fl[f].attested <= wiaKey
    BY <1>1, <1>2
  <2>2. Ordered(f)
    BY <1>2, <2>1, Zenon DEF Ordered, WithConf, WithRequest, Answering
  <2>3. Blamed(f)
    BY <1>2, Zenon DEF Blamed
  <2> QED
    BY <2>2, <2>3
<1> QED
  BY <1>1, <1>2, <1>3 DEF Reasons, Sent

(* The relying party refuses an answer, and the wallet finds no key, only  *)
(* if keys were rotated, the attestation is renewed or being renewed, the  *)
(* session was answered, or the QR code or the keys of the relying party   *)
(* are unsound: the order in which 02-evaluate-rp-trust.ts,                *)
(* 03-get-request-object.ts and 04-send-authorization-response.ts read the *)
(* keys is no reason by itself.                                            *)
THEOREM RefusalReasons == Spec => []RefusedForAReason
<1>1. Inv /\ Reasons => RefusedForAReason
  <2> SUFFICES ASSUME Inv, Reasons, NEW f \in Flow
               PROVE  /\ fl[f].why = "UnexpectedStatusCodeError" =>
                          \/ fl[f].attested # wiaKey
                          \/ fl[f].req # 0 /\ Rotated(f)
                          \/ \E a \in accepted : a.session = fl[f].req
                      /\ fl[f].why = "KeyNotFound" =>
                          ~ present \/ fl[f].attested # wiaKey
                      /\ fl[f].why = "NoSuitableKeysFoundInEntityConfiguration" =>
                          \/ fl[f].client # fl[f].uri
                          \/ Rotated(f)
                          \/ gen[fl[f].client] \notin RsaGen
    BY DEF RefusedForAReason
  <2>0. Blamed(f) /\ wiaKey \in Nat /\ fl[f].attested \in Nat
    BY PresentationAssumption DEF Inv, TypeOK, FlowState, Reasons
  <2>1. Stale(f) => Rotated(f)
    <3> SUFFICES ASSUME Stale(f) PROVE Rotated(f)
      OBVIOUS
    <3>1. PICK g \in 1 .. MaxGen : /\ fl[f].conf = Configuration(fl[f].client, g)
                                   /\ g < gen[fl[f].client]
      BY DEF Stale
    <3>2. gen[fl[f].client] \in Nat
      BY PresentationAssumption DEF Stale, Inv, TypeOK
    <3> QED
      BY <3>1, <3>2 DEF Rotated, Configuration
  <2>2. Mixed(f) => Rotated(f)
    BY DEF Mixed, Rotated, Configuration
  <2>3. NoKeyToEncrypt(f) => Rotated(f) \/ gen[fl[f].client] \notin RsaGen
    BY DEF NoKeyToEncrypt, Rotated, Configuration
  <2> QED
    BY <2>0, <2>1, <2>2, <2>3 DEF Blamed
<1> QED
  BY <1>1, InitInv, NextInv, InitReasons, NextReasons, PTL DEF Spec

LEMMA NextSent == Inv /\ Sent /\ [Next]_vars => Sent'
<1> SUFFICES ASSUME Inv, Sent, [Next]_vars PROVE Sent'
  OBVIOUS
<1> USE DEF At
<1>0. fl \in [Flow -> FlowState] /\ \A f \in Flow : fl[f] \in FlowState
  BY DEF Inv, TypeOK
<1>1. ASSUME NEW f \in Flow, fl[f].at \notin {"done", "failed"},
             \A g \in Flow \ {f} : fl'[g] = fl[g],
             fl'[f].at = "sending" => Consented(f)', accepted' = accepted
      PROVE  Sent'
  <2>1. ASSUME NEW g \in Flow, fl'[g].at = "sending" PROVE Consented(g)'
    BY <1>1, <2>1 DEF Sent, Consented
  <2>2. ASSUME NEW a \in accepted
        PROVE  /\ a.flow \in Flow /\ fl'[a.flow].at \in {"done", "failed"}
               /\ a.vp = fl'[a.flow].vp /\ Consented(a.flow)'
    BY <1>1, <2>2 DEF Sent, Consented
  <2> QED
    BY <1>1, <2>1, <2>2 DEF Sent
<1>2. ASSUME NEW f \in Flow, fl[f].at \notin {"done", "failed"}, NEW why,
             Ends(f, why), accepted' = accepted
      PROVE  Sent'
  <2>1. fl'[f].at = "failed" /\ \A g \in Flow \ {f} : fl'[g] = fl[g]
    BY <1>0, <1>2 DEF Ends, FlowState
  <2> QED
    BY <1>1, <1>2, <2>1
<1>3. ASSUME NEW f \in Flow, StartFlowFromQR(f) PROVE Sent'
  <2>0. fl[f].at = "idle" /\ accepted' = accepted
    BY <1>3 DEF StartFlowFromQR
  <2>1. CASE Ends(f, "AuthRequestDecodeError")
    BY <1>2, <2>0, <2>1
  <2>2. ASSUME NEW c \in RP, NEW u \in RP, NEW k \in 1 .. wiaKey,
               fl' = [fl EXCEPT ![f].at = "scanned", ![f].client = c,
                                ![f].uri = u, ![f].attested = k]
        PROVE  Sent'
    <3>1. fl'[f].at = "scanned" /\ \A g \in Flow \ {f} : fl'[g] = fl[g]
      BY <1>0, <2>2 DEF FlowState
    <3> QED
      BY <1>1, <2>0, <3>1
  <2> QED
    BY <1>3, <2>1, <2>2 DEF StartFlowFromQR
<1>4. ASSUME NEW f \in Flow,
             \/ EvaluateRelyingPartyTrust(f) \/ CreateDPopHeader(f)
             \/ CreateDPopSign(f) \/ VerifyRequestObject(f)
      PROVE  Sent'
  <2>1. /\ fl[f].at \in {"scanned", "trusted", "header", "answered"}
        /\ fl'[f].at \in {"trusted", "header", "asking", "consent", "failed"}
        /\ accepted' = accepted /\ \A g \in Flow \ {f} : fl'[g] = fl[g]
    BY <1>0, <1>4 DEF EvaluateRelyingPartyTrust, CreateDPopHeader, CreateDPopSign,
                      VerifyRequestObject, Ends, FlowState
  <2> QED
    BY <1>1, <2>1
<1>5. ASSUME NEW f \in Flow, FetchRequestObject(f) PROVE Sent'
  <2>1. /\ fl[f].at = "asking" /\ fl'[f].at \in {"answered", "failed"}
        /\ accepted' = accepted /\ \A g \in Flow \ {f} : fl'[g] = fl[g]
    BY <1>0, <1>5 DEF FetchRequestObject, Ends, FlowState
  <2> QED
    BY <1>1, <2>1
<1>6. ASSUME NEW f \in Flow, PrepareResponse(f) PROVE Sent'
  <2>0. fl[f].at = "consent" /\ accepted' = accepted
    BY <1>6 DEF PrepareResponse
  <2>1. PICK vc \in Vc, claims \in SUBSET Claim :
          LET error == Disclose(vc.token, claims).error
          IN  IF fl[f].conf.enc = None
              THEN Ends(f, "NoSuitableKeysFoundInEntityConfiguration")
              ELSE IF error # "none" THEN Ends(f, error)
              ELSE fl' = [fl EXCEPT ![f].at = "sending", ![f].vc = vc,
                          ![f].claims = claims,
                          ![f].vp = PrepareVpToken(vc, claims, fl[f].req)]
    BY <1>6, Zenon DEF PrepareResponse
  <2>2. PICK r : r = Disclose(vc.token, claims)
    OBVIOUS
  <2>3. CASE fl[f].conf.enc = None
    BY <1>2, <2>0, <2>1, <2>3
  <2>4. CASE fl[f].conf.enc # None /\ r.error # "none"
    BY <1>2, <2>0, <2>1, <2>2, <2>4
  <2>5. CASE fl[f].conf.enc # None /\ r.error = "none"
    <3>1. PICK vp : vp = PrepareVpToken(vc, claims, fl[f].req)
      OBVIOUS
    <3>2. vp.vp = r.token
      BY <2>2, <3>1 DEF PrepareVpToken
    <3>3. Names(r.token.rest) = claims /\ r.token.jwt = vc.token.jwt
      BY <2>2, <2>5, VcAssumption, DisclosedVerifies
    <3>4. fl' = [fl EXCEPT ![f].at = "sending", ![f].vc = vc,
                           ![f].claims = claims, ![f].vp = vp]
      BY <2>1, <2>2, <2>5, <3>1
    <3>5. /\ fl'[f].claims = claims /\ fl'[f].vc = vc /\ fl'[f].vp = vp
          /\ \A g \in Flow \ {f} : fl'[g] = fl[g]
      BY <1>0, <3>4 DEF FlowState
    <3>6. Consented(f)'
      BY <3>2, <3>3, <3>5 DEF Consented
    <3> QED
      BY <1>1, <2>0, <3>5, <3>6
  <2> QED
    BY <2>3, <2>4, <2>5
<1>7. ASSUME NEW f \in Flow, PostResponse(f) PROVE Sent'
  <2>0. fl[f].at = "sending"
    BY <1>7 DEF PostResponse
  <2>1. CASE accepted' = accepted /\ \E why : Ends(f, why)
    BY <1>2, <2>0, <2>1
  <2>2. CASE /\ Acceptable(fl[f], fl[f].req)
             /\ accepted' = accepted \cup
                    {[session |-> fl[f].req, flow |-> f, vp |-> fl[f].vp]}
             /\ fl' = [fl EXCEPT ![f].at = "done"] \/ Ends(f, "network")
    <3>1. /\ fl'[f].at \in {"done", "failed"} /\ fl'[f].vp = fl[f].vp
          /\ fl'[f].claims = fl[f].claims /\ fl'[f].vc = fl[f].vc
          /\ \A g \in Flow \ {f} : fl'[g] = fl[g]
      BY <1>0, <2>2 DEF Ends, FlowState
    <3>2. PICK new : new = [session |-> fl[f].req, flow |-> f, vp |-> fl[f].vp]
      OBVIOUS
    <3>3. /\ accepted' = accepted \cup {new}
          /\ new.flow = f /\ new.vp = fl[f].vp
      BY <2>2, <3>2
    <3>4. Consented(f)'
      BY <2>0, <3>1 DEF Sent, Consented
    <3>5. ASSUME NEW g \in Flow, fl'[g].at = "sending" PROVE Consented(g)'
      BY <3>1, <3>5 DEF Sent, Consented
    <3>6. ASSUME NEW a \in accepted
          PROVE  /\ a.flow \in Flow /\ fl'[a.flow].at \in {"done", "failed"}
                 /\ a.vp = fl'[a.flow].vp /\ Consented(a.flow)'
      BY <2>0, <3>1, <3>6 DEF Sent, Consented
    <3> QED
      BY <3>1, <3>3, <3>4, <3>5, <3>6 DEF Sent
  <2> QED
    BY <1>7, <2>1, <2>2 DEF PostResponse
<1>8. ASSUME UNCHANGED <<fl, accepted>> PROVE Sent'
  BY <1>8 DEF Sent, Consented
<1> QED
  BY <1>3, <1>4, <1>5, <1>6, <1>7, <1>8
  DEF Next, Step, Awaited, RotateKeys, WiaDelete, WiaGenerate, vars

(* sendAuthorizationResponse: an accepted answer reveals the claims of its *)
(* own flow's consent and no others, whichever flows ran beside it.        *)
THEOREM AcceptedAnswers == Spec => []AcceptedIsConsented
<1>1. Sent => AcceptedIsConsented
  BY DEF Sent, Consented, AcceptedIsConsented
<1> QED
  BY <1>1, InitInv, NextInv, InitReasons, NextSent, PTL DEF Spec
=============================================================================
