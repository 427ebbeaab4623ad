----------------------- MODULE StatusAttestationProofs ----------------------
(***************************************************************************)
(* For any number of flows, credentials and rotations: a status            *)
(* attestation that a flow returns is about its credential, and what the   *)
(* issuer decided on a credential is told under CredentialInvalidStatus.   *)
(*   Of the calls of the wallet provider, for any number of callers and of *)
(* calls, and any failures a gateway may give: what a caller is told is an *)
(* error of the provider's class with the status that was answered, a call *)
(* that succeeds was carried out, and the codes an application acts upon   *)
(* tell the state of the instance when the provider gave them.             *)
(***************************************************************************)
EXTENDS StatusAttestation, ProviderCalls, TLAPS

(* What a request that the issuer itself answered came to.                 *)
Decided(by, answer, result, refusals, st) ==
    by = "issuer" =>
        /\ result.code = "CredentialInvalidStatus" <=> answer \in refusals
        /\ answer \in refusals => st = "invalid"

(* Attestations carry the key of their credential, if any; a flow on its   *)
(* way has a credential, one that received an attestation has it, and one  *)
(* that is done compared the keys.                                         *)
Inv ==
    /\ TypeOK
    /\ \A a \in issued : a.key = KeyOf[a.cred]
    /\ \A f \in Flow :
        /\ fl[f].at # "idle" => fl[f].cred \in Cred
        /\ fl[f].at \in {"received", "done"} =>
            /\ fl[f].att \in Attestations
            /\ fl[f].att.key \in {KeyOf[fl[f].att.cred], None}
            /\ fl[f].answer = 201 /\ fl[f].result = Value
        /\ fl[f].at \notin {"received", "done", "failed"} =>
            fl[f].by = "nobody" /\ fl[f].result = Value
        /\ fl[f].at = "done" =>
            fl[f].att.key # None /\ fl[f].att.key = KeyOf[fl[f].cred]
        /\ Decided(fl[f].by, fl[f].answer, fl[f].result, {404}, state[fl[f].cred])
    /\ \A c \in Cred :
        Decided(told[c].by, told[c].answer, told[c].result, {403, 404}, state[c])

-----------------------------------------------------------------------------
(* buildFrom finds the case of a status that is handled once.              *)
LEMMA CaseOf ==
    ASSUME NEW cases, NEW s, NEW i \in DOMAIN cases,
           DOMAIN cases = 1 .. Len(cases), Len(cases) \in Nat,
           cases[i].status = s,
           \A j \in DOMAIN cases : cases[j].status = s => j = i
    PROVE  Case(cases, s) = cases[i] /\ Handled(cases, s)
<1>1. \A j \in (i + 1) .. Len(cases) : j \in DOMAIN cases /\ j # i
  OBVIOUS
<1> DEFINE P(k) == /\ cases[k].status = s
                   /\ \A j \in (k + 1) .. Len(cases) : cases[j].status # s
<1>2. i \in DOMAIN cases /\ P(i)
  BY <1>1
<1>3. (CHOOSE k \in DOMAIN cases : P(k)) = i
  BY <1>2
<1> QED
  BY <1>3 DEF Case, Handled

(* The handler of the status request: CredentialInvalidStatus for 404, the *)
(* general code for any other status.                                      *)
LEMMA StatusErrors ==
    ASSUME NEW e, IsUnexpectedStatusCodeError(e), e.status \in Nat, e.status # 0
    PROVE  HandleStatusAttestationError(e) =
            [class |-> "IssuerResponseError",
             code |-> IF e.status = 404 THEN "CredentialInvalidStatus"
                      ELSE "StatusAttestationRequestFailed",
             status |-> e.status]
<1> DEFINE cases == <<Handle(404, "CredentialInvalidStatus"),
                      Handle(Fallback, "StatusAttestationRequestFailed")>>
<1>1. DOMAIN cases = 1 .. Len(cases) /\ Len(cases) = 2 /\ DOMAIN cases = {1, 2}
  OBVIOUS
<1>2. cases[1].status = 404 /\ cases[2].status = 0
  BY DEF Handle, Fallback
<1>3. cases[1].code = "CredentialInvalidStatus"
      /\ cases[2].code = "StatusAttestationRequestFailed"
  BY DEF Handle
<1> HIDE DEF cases
<1>4. Case(cases, 404) = cases[1] /\ Handled(cases, 404)
  BY <1>1, <1>2, CaseOf
<1>5. Case(cases, 0) = cases[2] /\ Handled(cases, 0)
  BY <1>1, <1>2, CaseOf
<1>6. e.status # 404 => ~ Handled(cases, e.status)
  BY <1>1, <1>2 DEF Handled
<1>7. HandleStatusAttestationError(e) = BuildFrom("IssuerResponseError", cases, e)
  BY DEF HandleStatusAttestationError, cases
<1> QED
  BY <1>3, <1>4, <1>5, <1>6, <1>7 DEF BuildFrom, Fallback

Results == [class : {"none", "TypeError", "SyntaxError", "ValidationFailed",
                     "IssuerResponseError"},
            code : {"NotAsked", "none", "CredentialIssuingNotSynchronous",
                    "CredentialInvalidStatus", "CredentialRequestFailed"},
            status : Nat]

(* The handler of the credential request: the code for 403 and 404 only.   *)
LEMMA ObtainErrors ==
    ASSUME NEW e, IsUnexpectedStatusCodeError(e), e.status \in Nat, e.status # 0
    PROVE  LET r == HandleObtainCredentialError(e)
           IN  /\ r \in Results
               /\ r.code = "CredentialInvalidStatus" <=> e.status \in {403, 404}
<1> DEFINE cases == <<Handle(201, "CredentialIssuingNotSynchronous"),
                      Handle(403, "CredentialInvalidStatus"),
                      Handle(404, "CredentialInvalidStatus"),
                      Handle(Fallback, "CredentialRequestFailed")>>
<1>1. DOMAIN cases = 1 .. Len(cases) /\ Len(cases) = 4 /\ DOMAIN cases = {1, 2, 3, 4}
  OBVIOUS
<1>2. /\ cases[1].status = 201 /\ cases[2].status = 403
      /\ cases[3].status = 404 /\ cases[4].status = 0
  BY DEF Handle, Fallback
<1>3. /\ cases[1].code = "CredentialIssuingNotSynchronous"
      /\ cases[2].code = "CredentialInvalidStatus"
      /\ cases[3].code = "CredentialInvalidStatus"
      /\ cases[4].code = "CredentialRequestFailed"
  BY DEF Handle
<1> HIDE DEF cases
<1>u. \A i, j \in DOMAIN cases : cases[i].status = cases[j].status => i = j
  BY <1>1, <1>2
<1>c. \A i \in DOMAIN cases : Case(cases, cases[i].status) = cases[i]
                              /\ Handled(cases, cases[i].status)
  <2> SUFFICES ASSUME NEW i \in DOMAIN cases
               PROVE  Case(cases, cases[i].status) = cases[i]
                      /\ Handled(cases, cases[i].status)
    OBVIOUS
  <2>1. \A j \in DOMAIN cases : cases[j].status = cases[i].status => j = i
    BY <1>u
  <2>2. PICK s : s = cases[i].status
    OBVIOUS
  <2>3. \A j \in DOMAIN cases : cases[j].status = s => j = i
    BY <2>1, <2>2
  <2>4. Len(cases) \in Nat
    BY <1>1
  <2>5. Case(cases, s) = cases[i] /\ Handled(cases, s)
    BY <1>1, <2>2, <2>3, <2>4, CaseOf
  <2> QED
    BY <2>2, <2>5
<1>4. /\ Case(cases, 201) = cases[1] /\ Case(cases, 403) = cases[2]
      /\ Case(cases, 404) = cases[3] /\ Case(cases, 0) = cases[4]
      /\ Handled(cases, 0)
  BY <1>1, <1>2, <1>c
<1>8. Handled(cases, e.status) => e.status \in {201, 403, 404}
  BY <1>1, <1>2 DEF Handled
<1>9. HandleObtainCredentialError(e) = BuildFrom("IssuerResponseError", cases, e)
  BY DEF HandleObtainCredentialError, cases
<1> DEFINE key == IF Handled(cases, e.status) THEN e.status ELSE 0
<1>10. /\ key \in {201, 403, 404, 0} /\ Handled(cases, key)
       /\ key \in {403, 404} <=> e.status \in {403, 404}
  <2>1. Handled(cases, 403) /\ Handled(cases, 404)
    BY <1>1, <1>2, <1>c
  <2> QED
    BY <1>4, <1>8, <2>1
<1>11. BuildFrom("IssuerResponseError", cases, e) =
        [class |-> "IssuerResponseError", code |-> Case(cases, key).code,
         status |-> e.status]
  BY <1>10 DEF BuildFrom, Fallback
<1>12. /\ Case(cases, key).code \in
            {"CredentialIssuingNotSynchronous", "CredentialInvalidStatus",
             "CredentialRequestFailed"}
       /\ Case(cases, key).code = "CredentialInvalidStatus" <=> key \in {403, 404}
  <2>1. CASE key = 201
    BY <1>3, <1>4, <2>1
  <2>2. CASE key = 403
    BY <1>3, <1>4, <2>2
  <2>3. CASE key = 404
    BY <1>3, <1>4, <2>3
  <2>4. CASE key = 0
    BY <1>3, <1>4, <2>4
  <2> HIDE DEF key
  <2> QED
    BY <1>10, <2>1, <2>2, <2>3, <2>4
<1> QED
  BY <1>9, <1>10, <1>11, <1>12 DEF Results

(* hasStatusOrThrow with its default class.                                *)
LEMMA Thrown ==
    ASSUME NEW s \in Nat, NEW res, res.status \in Nat, res.status # 0
    PROVE  LET e == HasStatusOrThrow(s, "UnexpectedStatusCodeError", res)
           IN  \/ e = Value /\ res.status = s
               \/ e = SyntaxError /\ res.body = "broken"
               \/ IsUnexpectedStatusCodeError(e) /\ e.status = res.status
<1>1. ResponseError("UnexpectedStatusCodeError", res.status).class
            = "UnexpectedStatusCodeError"
      /\ ResponseError("UnexpectedStatusCodeError", res.status).status = res.status
  BY DEF ResponseError
<1> QED
  BY <1>1 DEF HasStatusOrThrow, IsUnexpectedStatusCodeError, ParseRawHttpResponse

(* Values and other errors pass the handlers.                              *)
LEMMA PassesHandlers ==
    ASSUME NEW e \in {Value, SyntaxError, NetworkError, ZodError}
    PROVE  /\ HandleObtainCredentialError(e) = e
           /\ HandleStatusAttestationError(e) = e
           /\ e \in Outcome /\ e.code = "none"
           /\ e # ZodError => e \in Results
<1>1. /\ e.class \in {"none", "SyntaxError", "TypeError", "ZodError"}
      /\ e.code = "none" /\ e \in Outcome /\ (e # ZodError => e \in Results)
  BY DEF Value, SyntaxError, NetworkError, ZodError, Outcome, Results
<1>2. ~ IsUnexpectedStatusCodeError(e)
  BY <1>1 DEF IsUnexpectedStatusCodeError
<1> QED
  BY <1>1, <1>2 DEF HandleObtainCredentialError, HandleStatusAttestationError

LEMMA Statuses ==
    ASSUME NEW res \in GatewayResponses
    PROVE  res.status \in Nat /\ res.status # 0
  BY GatewayAssumption DEF GatewayResponses

(* What a credential request that was answered comes to.                   *)
LEMMA ObtainOutcome ==
    ASSUME NEW res, res.status \in Nat, res.status # 0
    PROVE  LET r == HandleObtainCredentialError(
                        HasStatusOrThrow(200, "UnexpectedStatusCodeError", res))
           IN  /\ r \in Results
               /\ res.body = "json" =>
                    (r.code = "CredentialInvalidStatus" <=> res.status \in {403, 404})
<1> DEFINE e == HasStatusOrThrow(200, "UnexpectedStatusCodeError", res)
<1>2. \/ e = Value /\ res.status = 200
      \/ e = SyntaxError /\ res.body = "broken"
      \/ IsUnexpectedStatusCodeError(e) /\ e.status = res.status
  BY Thrown
<1> HIDE DEF e
<1>3. CASE e = Value /\ res.status = 200
  <2>1. HandleObtainCredentialError(e) \in Results
        /\ HandleObtainCredentialError(e).code = "none"
    BY <1>3, PassesHandlers DEF Value, ZodError
  <2> QED
    BY <1>3, <2>1 DEF e
<1>4. CASE e = SyntaxError /\ res.body = "broken"
  <2>1. HandleObtainCredentialError(e) \in Results
    BY <1>4, PassesHandlers DEF SyntaxError, ZodError
  <2> QED
    BY <1>4, <2>1 DEF e
<1>5. CASE IsUnexpectedStatusCodeError(e) /\ e.status = res.status
  BY <1>5, ObtainErrors DEF e
<1> QED
  BY <1>2, <1>3, <1>4, <1>5 DEF e

(* What a refused status request comes to.                                 *)
LEMMA StatusOutcome ==
    ASSUME NEW res, res.status \in Nat, res.status # 0
    PROVE  LET r == HandleStatusAttestationError(
                        HasStatusOrThrow(201, "UnexpectedStatusCodeError", res))
           IN  /\ r \in Outcome
               /\ res.body = "json" =>
                    (r.code = "CredentialInvalidStatus" <=> res.status = 404)
<1> DEFINE e == HasStatusOrThrow(201, "UnexpectedStatusCodeError", res)
<1>2. \/ e = Value /\ res.status = 201
      \/ e = SyntaxError /\ res.body = "broken"
      \/ IsUnexpectedStatusCodeError(e) /\ e.status = res.status
  BY Thrown
<1> HIDE DEF e
<1>3. CASE e = Value /\ res.status = 201
  <2>1. HandleStatusAttestationError(e) \in Outcome
        /\ HandleStatusAttestationError(e).code = "none"
    BY <1>3, PassesHandlers
  <2> QED
    BY <1>3, <2>1 DEF e
<1>4. CASE e = SyntaxError /\ res.body = "broken"
  <2>1. HandleStatusAttestationError(e) \in Outcome
    BY <1>4, PassesHandlers
  <2> QED
    BY <1>4, <2>1 DEF e
<1>5. CASE IsUnexpectedStatusCodeError(e) /\ e.status = res.status
  BY <1>5, StatusErrors DEF e, Outcome
<1> QED
  BY <1>2, <1>3, <1>4, <1>5 DEF e

-----------------------------------------------------------------------------
LEMMA InitInv == Init => Inv
<1> SUFFICES ASSUME Init PROVE Inv
  OBVIOUS
<1>1. NoFlow \in FlowState /\ NoFlow.at = "idle" /\ NoFlow.by = "nobody"
      /\ NoFlow.result = Value
  <2>1. 0 \in 0 .. MaxGen
    BY StatusAssumption
  <2> QED
    BY <2>1 DEF NoFlow, FlowState, Value, Outcome, By
<1>2. NotAsked \in Told /\ NotAsked.by = "nobody"
  BY DEF NotAsked, Told, By
<1>3. TypeOK
  <2>1. 1 \in 1 .. MaxGen
    BY StatusAssumption
  <2> QED
    BY <1>1, <1>2, <2>1 DEF Init, TypeOK
<1> QED
  BY <1>1, <1>2, <1>3 DEF Inv, Init, Decided

(* What Inv says of one flow.                                              *)
FlowInv(k, st) ==
    /\ k.at # "idle" => k.cred \in Cred
    /\ k.at \in {"received", "done"} =>
        /\ k.att \in Attestations
        /\ k.att.key \in {KeyOf[k.att.cred], None}
        /\ k.answer = 201 /\ k.result = Value
    /\ k.at \notin {"received", "done", "failed"} => k.by = "nobody" /\ k.result = Value
    /\ k.at = "done" => k.att.key # None /\ k.att.key = KeyOf[k.cred]
    /\ Decided(k.by, k.answer, k.result, {404}, st[k.cred])

(* A step of one flow.                                                     *)
LEMMA OneFlow ==
    ASSUME Inv, NEW f \in Flow, NEW new \in FlowState, FlowInv(new, state),
           fl' = [fl EXCEPT ![f] = new], UNCHANGED <<state, told, gen>>,
           issued' \subseteq Attestations, \A a \in issued' : a.key = KeyOf[a.cred]
    PROVE  Inv'
<1>1. /\ fl' \in [Flow -> FlowState] /\ fl'[f] = new
      /\ \A g \in Flow : g # f => fl'[g] = fl[g]
  BY DEF Inv, TypeOK
<1>2. ASSUME NEW g \in Flow PROVE FlowInv(fl'[g], state)
  <2>1. CASE g = f
    BY <1>1, <2>1
  <2>2. CASE g # f
    BY <1>1, <2>2 DEF Inv, FlowInv
  <2> QED
    BY <2>1, <2>2
<1> QED
  BY <1>1, <1>2 DEF Inv, TypeOK, FlowInv

(* A flow that fails keeps its record.                                     *)
LEMMA Ending ==
    ASSUME Inv, NEW f \in Flow, fl[f].at # "idle", NEW by \in By, NEW n \in Nat,
           NEW r \in Outcome, Decided(by, n, r, {404}, state[fl[f].cred]),
           Ends(f, by, n, r), UNCHANGED <<state, told, gen, issued>>
    PROVE  Inv'
<1>1. PICK new : new = [fl[f] EXCEPT !.at = "failed", !.by = by, !.answer = n,
                                     !.result = r]
  OBVIOUS
<1>2. fl[f] \in FlowState /\ fl[f].cred \in Cred
  BY DEF Inv, TypeOK
<1>3. /\ new \in FlowState /\ new.at = "failed" /\ new.cred = fl[f].cred
      /\ new.by = by /\ new.answer = n /\ new.result = r
  BY <1>1, <1>2 DEF FlowState
<1>4. FlowInv(new, state)
  BY <1>2, <1>3 DEF FlowInv
<1>5. fl' = [fl EXCEPT ![f] = new]
  <2>1. fl \in [Flow -> FlowState]
    BY DEF Inv, TypeOK
  <2> QED
    BY <1>1, <2>1 DEF Ends
<1> QED
  BY <1>3, <1>4, <1>5, OneFlow, ZenonT(30) DEF Inv, TypeOK

(* A failure that the issuer did not decide on.                            *)
LEMMA EndingOtherwise ==
    ASSUME Inv, NEW f \in Flow, fl[f].at # "idle", NEW by \in By, NEW n \in Nat,
           NEW r \in Outcome,
           by # "issuer" \/ (n # 404 /\ r.code # "CredentialInvalidStatus"),
           Ends(f, by, n, r), UNCHANGED <<state, told, gen, issued>>
    PROVE  Inv'
<1>1. Decided(by, n, r, {404}, state[fl[f].cred])
  BY DEF Decided
<1> QED
  BY <1>1, Ending

(* An attestation arrives.                                                 *)
LEMMA Receiving ==
    ASSUME Inv, NEW f \in Flow, fl[f].at = "asking", NEW by \in By,
           NEW att \in Attestations, att.key = KeyOf[att.cred],
           Receives(f, by, att), UNCHANGED <<state, told, gen>>,
           issued' \subseteq Attestations, \A a \in issued' : a.key = KeyOf[a.cred]
    PROVE  Inv'
<1>1. PICK form \in {"whole", "noKid", "unparsed"} :
        fl' = [fl EXCEPT ![f].at = "received", ![f].by = by, ![f].answer = 201,
                         ![f].att = Arrived(att, form)]
  BY DEF Receives
<1>2. PICK a : a = Arrived(att, form)
  OBVIOUS
<1>3. a \in Attestations /\ a.key \in {KeyOf[a.cred], None}
  BY <1>2 DEF Arrived, Attestations
<1>4. PICK new : new = [fl[f] EXCEPT !.at = "received", !.by = by, !.answer = 201,
                                     !.att = a]
  OBVIOUS
<1>5. fl[f] \in FlowState /\ fl[f].cred \in Cred
  BY DEF Inv, TypeOK
<1>6. /\ new \in FlowState /\ new.at = "received" /\ new.cred = fl[f].cred
      /\ new.by = by /\ new.answer = 201 /\ new.result = fl[f].result /\ new.att = a
  BY <1>3, <1>4, <1>5, ZenonT(30) DEF FlowState
<1>7. fl[f].result = Value
  BY DEF Inv
<1>8. FlowInv(new, state)
  BY <1>3, <1>5, <1>6, <1>7 DEF FlowInv, Decided, Value
<1>9. fl' = [fl EXCEPT ![f] = new]
  BY <1>1, <1>2, <1>4, ZenonT(30) DEF Inv, TypeOK
<1> QED
  BY <1>6, <1>8, <1>9, OneFlow

LEMMA RequestInv ==
    ASSUME Inv, NEW f \in Flow, RequestStatusAttestation(f) PROVE Inv'
<1>1. PICK c : c = fl[f].cred
  OBVIOUS
<1>2. /\ c \in Cred /\ fl[f].at = "asking" /\ UNCHANGED <<state, told, gen>>
      /\ issued \subseteq Attestations /\ \A a \in issued : a.key = KeyOf[a.cred]
  BY <1>1 DEF Inv, TypeOK, RequestStatusAttestation
<1>3. By = {"nobody", "issuer", "gateway"}
  BY DEF By
<1>4. CASE issued' = issued \cup {Attestation(c)} /\ Receives(f, "issuer", Attestation(c))
  <2>1. PICK a : a = Attestation(c)
    OBVIOUS
  <2>2. a \in Attestations /\ a.key = KeyOf[a.cred]
    BY <1>2, <2>1 DEF Attestation, Attestations, Inv, TypeOK
  <2> QED
    BY <1>2, <1>3, <1>4, <2>1, <2>2, Receiving
<1>5. ASSUME NEW att \in issued, Receives(f, "gateway", att), UNCHANGED issued
      PROVE  Inv'
  BY <1>2, <1>3, <1>5, Receiving
<1>6. ASSUME NEW e \in {SyntaxError, ZodError}, UNCHANGED issued,
             Ends(f, "issuer", 201, HandleStatusAttestationError(e))
      PROVE  Inv'
  <2>1. HandleStatusAttestationError(e) = e /\ e \in Outcome /\ e.code = "none"
    BY PassesHandlers
  <2>2. Ends(f, "issuer", 201, e)
    BY <1>6, <2>1
  <2> QED
    BY <1>2, <1>3, <1>6, <2>1, <2>2, EndingOtherwise
<1>7. ASSUME NEW by \in By, NEW res, res.status \in Nat, res.status # 0,
             by = "issuer" => res.body = "json" /\ (res.status = 404 => state[c] = "invalid"),
             Ends(f, by, res.status, HandleStatusAttestationError(
                    HasStatusOrThrow(201, "UnexpectedStatusCodeError", res))),
             UNCHANGED issued
      PROVE  Inv'
  <2>1. PICK r : r = HandleStatusAttestationError(
                        HasStatusOrThrow(201, "UnexpectedStatusCodeError", res))
    OBVIOUS
  <2>2. /\ r \in Outcome
        /\ res.body = "json" => (r.code = "CredentialInvalidStatus" <=> res.status = 404)
    BY <1>7, <2>1, StatusOutcome
  <2>3. Decided(by, res.status, r, {404}, state[c])
    BY <1>7, <2>2 DEF Decided
  <2> QED
    BY <1>1, <1>2, <1>7, <2>1, <2>2, <2>3, Ending
<1>8. ASSUME NEW res \in Failures(c)
      PROVE  /\ res.status \in Nat /\ res.status # 0 /\ res.body = "json"
             /\ res.status = 404 => state[c] = "invalid"
  BY DEF Failures, IssuerResponse
<1>9. CASE Ends(f, "nobody", 0, HandleStatusAttestationError(NetworkError))
           /\ UNCHANGED issued
  <2>1. /\ HandleStatusAttestationError(NetworkError) = NetworkError
        /\ NetworkError \in Outcome
    BY PassesHandlers
  <2>2. Ends(f, "nobody", 0, NetworkError)
    BY <1>9, <2>1
  <2> QED
    BY <1>2, <1>3, <1>9, <2>1, <2>2, EndingOtherwise
<1> QED
  BY <1>1, <1>3, <1>4, <1>5, <1>6, <1>7, <1>8, <1>9, Statuses
  DEF RequestStatusAttestation

LEMMA ObtainInv ==
    ASSUME Inv, NEW c \in Cred, ObtainCredential(c) PROVE Inv'
<1>0. UNCHANGED <<state, gen, issued, fl>>
  BY DEF ObtainCredential
<1>1. ASSUME NEW by \in By, NEW n \in Nat, NEW r \in Results, Tell(c, by, n, r),
             Decided(by, n, r, {403, 404}, state[c])
      PROVE  Inv'
  <2>1. PICK new : new = [by |-> by, answer |-> n, result |-> r]
    OBVIOUS
  <2>2. new \in Told /\ new.by = by /\ new.answer = n /\ new.result = r
    BY <2>1 DEF Told, Results
  <2>3. told' = [told EXCEPT ![c] = new]
    BY <1>1, <2>1 DEF Tell
  <2>4. /\ told' \in [Cred -> Told] /\ told'[c] = new
        /\ \A d \in Cred : d # c => told'[d] = told[d]
    BY <2>2, <2>3 DEF Inv, TypeOK
  <2>5. ASSUME NEW d \in Cred
        PROVE  Decided(told'[d].by, told'[d].answer, told'[d].result, {403, 404}, state[d])
    <3>1. CASE d = c
      BY <1>1, <2>2, <2>4, <3>1
    <3>2. CASE d # c
      BY <2>4, <3>2 DEF Inv
    <3> QED
      BY <3>1, <3>2
  <2> QED
    BY <1>0, <2>4, <2>5 DEF Inv, TypeOK
<1>2. ASSUME NEW by \in By, NEW res, res.status \in Nat, res.status # 0,
             by = "issuer" =>
                res.body = "json" /\ (res.status \in {403, 404} => state[c] = "invalid"),
             Tell(c, by, res.status, HandleObtainCredentialError(
                    HasStatusOrThrow(200, "UnexpectedStatusCodeError", res)))
      PROVE  Inv'
  <2>1. PICK r : r = HandleObtainCredentialError(
                        HasStatusOrThrow(200, "UnexpectedStatusCodeError", res))
    OBVIOUS
  <2>2. /\ r \in Results
        /\ res.body = "json" =>
            (r.code = "CredentialInvalidStatus" <=> res.status \in {403, 404})
    BY <1>2, <2>1, ObtainOutcome
  <2>3. Decided(by, res.status, r, {403, 404}, state[c])
    BY <1>2, <2>2 DEF Decided
  <2> QED
    BY <1>1, <1>2, <2>1, <2>2, <2>3
<1>3. ASSUME NEW res \in ObtainResponses(c)
      PROVE  /\ res.status \in Nat /\ res.status # 0 /\ res.body = "json"
             /\ res.status \in {403, 404} => state[c] = "invalid"
  <2>1. state[c] \in {"pending", "valid", "invalid"}
    BY DEF Inv, TypeOK
  <2> QED
    BY <2>1 DEF ObtainResponses, IssuerResponse
<1>4. ASSUME NEW e \in {SyntaxError, ValidationFailed}, Tell(c, "issuer", 200, e)
      PROVE  Inv'
  <2>1. e \in Results /\ e.code = "none"
    BY DEF SyntaxError, ValidationFailed, Results
  <2>2. Decided("issuer", 200, e, {403, 404}, state[c])
    BY <2>1 DEF Decided
  <2> QED
    BY <1>1, <1>4, <2>1, <2>2 DEF By
<1>5. CASE Tell(c, "nobody", 0, NetworkError)
  <2>1. NetworkError \in Results
    BY DEF NetworkError, Results
  <2>2. Decided("nobody", 0, NetworkError, {403, 404}, state[c])
    BY DEF Decided
  <2> QED
    BY <1>1, <1>5, <2>1, <2>2 DEF By
<1>6. "issuer" \in By /\ "gateway" \in By
  BY DEF By
<1> QED
  BY <1>2, <1>3, <1>4, <1>5, <1>6, Statuses DEF ObtainCredential

LEMMA NextInv == Inv /\ [Next]_vars => Inv'
<1> SUFFICES ASSUME Inv, [Next]_vars PROVE Inv'
  OBVIOUS
<1>e. /\ NetworkError \in Outcome /\ IoWalletError \in Outcome
      /\ IoWalletError.code = "none" /\ "nobody" \in By
  BY DEF NetworkError, IoWalletError, Outcome, By
<1>i. issued \subseteq Attestations /\ \A a \in issued : a.key = KeyOf[a.cred]
  BY DEF Inv, TypeOK
<1>1. ASSUME NEW f \in Flow, NEW c \in Cred, StartFlow(f, c) PROVE Inv'
  <2>1. PICK new : new = [fl[f] EXCEPT !.at = "started", !.cred = c]
    OBVIOUS
  <2>2. /\ fl[f] \in FlowState /\ fl[f].by = "nobody" /\ fl[f].result = Value
    BY <1>1 DEF Inv, TypeOK, StartFlow
  <2>3. /\ new \in FlowState /\ new.at = "started" /\ new.cred = c
        /\ new.by = "nobody" /\ new.result = Value
    BY <2>1, <2>2 DEF FlowState
  <2>4. FlowInv(new, state)
    BY <2>3 DEF FlowInv, Decided
  <2>5. fl' = [fl EXCEPT ![f] = new] /\ UNCHANGED <<state, told, gen, issued>>
    <3>1. fl \in [Flow -> FlowState]
      BY DEF Inv, TypeOK
    <3> QED
      BY <1>1, <2>1, <3>1 DEF StartFlow
  <2> QED
    BY <1>i, <2>3, <2>4, <2>5, OneFlow
<1>2. ASSUME NEW f \in Flow, EvaluateIssuerTrust(f) PROVE Inv'
  <2>1. CASE Ends(f, "nobody", 0, NetworkError)
    BY <1>2, <1>e, <2>1, EndingOtherwise DEF EvaluateIssuerTrust
  <2>2. CASE fl' = [fl EXCEPT ![f].at = "trusted", ![f].conf = gen]
    <3>1. PICK new : new = [fl[f] EXCEPT !.at = "trusted", !.conf = gen]
      OBVIOUS
    <3>2. /\ fl[f] \in FlowState /\ fl[f].by = "nobody" /\ fl[f].result = Value
          /\ fl[f].cred \in Cred /\ gen \in 0 .. MaxGen
      BY <1>2 DEF Inv, TypeOK, EvaluateIssuerTrust
    <3>3. /\ new \in FlowState /\ new.at = "trusted" /\ new.cred = fl[f].cred
          /\ new.by = "nobody" /\ new.result = Value
      BY <3>1, <3>2 DEF FlowState
    <3>4. FlowInv(new, state)
      BY <3>2, <3>3 DEF FlowInv, Decided
    <3>5. fl' = [fl EXCEPT ![f] = new] /\ UNCHANGED <<state, told, gen, issued>>
      <4>1. fl \in [Flow -> FlowState]
        BY DEF Inv, TypeOK
      <4> QED
        BY <1>2, <2>2, <3>1, <4>1 DEF EvaluateIssuerTrust
    <3> QED
      BY <1>i, <3>3, <3>4, <3>5, OneFlow
  <2> QED
    BY <1>2, <2>1, <2>2 DEF EvaluateIssuerTrust
<1>3. ASSUME NEW f \in Flow, SignCredentialPop(f) PROVE Inv'
  <2>1. CASE Ends(f, "nobody", 0, IoWalletError)
    BY <1>3, <1>e, <2>1, EndingOtherwise DEF SignCredentialPop
  <2>2. CASE fl' = [fl EXCEPT ![f].at = "asking"]
    <3>1. PICK new : new = [fl[f] EXCEPT !.at = "asking"]
      OBVIOUS
    <3>2. /\ fl[f] \in FlowState /\ fl[f].by = "nobody" /\ fl[f].result = Value
          /\ fl[f].cred \in Cred
      BY <1>3 DEF Inv, TypeOK, SignCredentialPop
    <3>3. /\ new \in FlowState /\ new.at = "asking" /\ new.cred = fl[f].cred
          /\ new.by = "nobody" /\ new.result = Value
      BY <3>1, <3>2 DEF FlowState
    <3>4. FlowInv(new, state)
      BY <3>2, <3>3 DEF FlowInv, Decided
    <3>5. fl' = [fl EXCEPT ![f] = new] /\ UNCHANGED <<state, told, gen, issued>>
      BY <1>3, <2>2, <3>1 DEF SignCredentialPop, Inv, TypeOK
    <3> QED
      BY <1>i, <3>3, <3>4, <3>5, OneFlow
  <2> QED
    BY <1>3, <2>1, <2>2 DEF SignCredentialPop
<1>4. ASSUME NEW f \in Flow, VerifyAndParseStatusAttestation(f) PROVE Inv'
  <2>0. /\ fl[f] \in FlowState /\ fl[f].cred \in Cred /\ fl[f].at = "received"
        /\ fl[f].answer = 201 /\ fl[f].result = Value /\ fl[f].by \in By
        /\ FlowInv(fl[f], state) /\ UNCHANGED <<state, told, gen, issued>>
    BY <1>4 DEF Inv, TypeOK, FlowState, FlowInv, VerifyAndParseStatusAttestation
  <2>1. CASE Ends(f, fl[f].by, fl[f].answer, IoWalletError)
    <3>1. Ends(f, fl[f].by, 201, IoWalletError)
      BY <2>0, <2>1
    <3> QED
      BY <1>e, <2>0, <3>1, EndingOtherwise
  <2>2. CASE /\ fl[f].att.key # None /\ fl[f].att.key = KeyOf[fl[f].cred]
             /\ fl' = [fl EXCEPT ![f].at = "done"]
    <3>1. PICK new : new = [fl[f] EXCEPT !.at = "done"]
      OBVIOUS
    <3>2. /\ new \in FlowState /\ new.at = "done" /\ new.cred = fl[f].cred
          /\ new.by = fl[f].by /\ new.answer = fl[f].answer /\ new.att = fl[f].att
          /\ new.result = fl[f].result
      BY <2>0, <3>1 DEF FlowState
    <3>3. FlowInv(new, state)
      BY <2>0, <2>2, <3>2 DEF FlowInv
    <3>4. fl' = [fl EXCEPT ![f] = new]
      BY <2>2, <3>1 DEF Inv, TypeOK
    <3> QED
      BY <1>i, <2>0, <3>2, <3>3, <3>4, OneFlow
  <2> QED
    BY <1>4, <2>1, <2>2 DEF VerifyAndParseStatusAttestation
<1>5. ASSUME NEW c \in Cred, Decide(c) PROVE Inv'
  <2>1. /\ state' \in [Cred -> {"pending", "valid", "invalid"}]
        /\ \A d \in Cred : state[d] = "invalid" => state'[d] = "invalid"
        /\ UNCHANGED <<told, gen, issued, fl>>
    BY <1>5 DEF Decide, Inv, TypeOK
  <2>2. ASSUME NEW f \in Flow
        PROVE  Decided(fl[f].by, fl[f].answer, fl[f].result, {404}, state'[fl[f].cred])
    <3>1. /\ Decided(fl[f].by, fl[f].answer, fl[f].result, {404}, state[fl[f].cred])
          /\ fl[f].at # "idle" => fl[f].cred \in Cred
          /\ fl[f].by = "issuer" => fl[f].at # "idle"
      BY DEF Inv
    <3> QED
      BY <2>1, <3>1 DEF Decided
  <2>3. ASSUME NEW d \in Cred
        PROVE  Decided(told[d].by, told[d].answer, told[d].result, {403, 404}, state'[d])
    BY <2>1 DEF Inv, Decided
  <2> QED
    BY <2>1, <2>2, <2>3 DEF Inv, TypeOK
<1>6. CASE RotateKeys
  BY <1>6, StatusAssumption DEF Inv, TypeOK, RotateKeys
<1>7. CASE UNCHANGED vars
  BY <1>7 DEF Inv, TypeOK, vars
<1> QED
  BY <1>1, <1>2, <1>3, <1>4, <1>5, <1>6, <1>7, RequestInv, ObtainInv DEF Next, Step

(* For any number of concurrent flows and whichever attestation an answer  *)
(* carries, verifyAndParseStatusAttestation lets only the credential's own *)
(* one pass.                                                               *)
THEOREM OwnStatus == Spec => [](TypeOK /\ AttestsOwnCredential)
<1>1. Inv => TypeOK /\ AttestsOwnCredential
  <2> SUFFICES ASSUME Inv, NEW f \in Flow, fl[f].at = "done"
               PROVE  fl[f].att.cred = fl[f].cred
    BY DEF Inv, AttestsOwnCredential
  <2>1. /\ fl[f].att \in Attestations /\ fl[f].cred \in Cred
        /\ fl[f].att.key = KeyOf[fl[f].cred]
        /\ fl[f].att.key = KeyOf[fl[f].att.cred]
    BY DEF Inv
  <2>2. fl[f].att.cred \in Cred
    BY <2>1 DEF Attestations
  <2>3. \A c, d \in Cred : KeyOf[c] = KeyOf[d] => c = d
    BY StatusAssumption, Zenon
  <2> QED
    BY <2>1, <2>2, <2>3, Zenon
<1> QED
  BY <1>1, InitInv, NextInv, PTL DEF Spec

(* The handlers of the credential request and of the status request, for   *)
(* any gateway: of what the issuer itself answers, its refusals and only   *)
(* these come out as CredentialInvalidStatus, and they remain true.        *)
THEOREM InvalidStatus == Spec => []InvalidStatusIsTheIssuers
<1>1. Inv => InvalidStatusIsTheIssuers
  BY DEF Inv, InvalidStatusIsTheIssuers, Decided
<1> QED
  BY <1>1, InitInv, NextInv, PTL DEF Spec

-----------------------------------------------------------------------------
(* The calls of the wallet provider.                                       *)
CallResults == [class : {"none", "TypeError", "SyntaxError",
                     "WalletProviderResponseError"},
            code : Codes, status : Nat]

CallState == [op : Op \cup {"none"}, at : {"idle", "nonce", "request", "settled"},
              by : {"nobody", "nonce", "gateway", "provider"},
              answer : Nat, result : CallResults]

Instances == {"absent", "active", "revoked"}

(* What a call may have come to when the instance and the device are in    *)
(* these states.                                                           *)
Fits(k, inst, ok) ==
    /\ k.answer >= 300 =>
        /\ k.result.class = "WalletProviderResponseError"
        /\ k.result.status = k.answer
    /\ k.at = "settled" /\ k.result.class = "none" =>
        /\ k.op \in {"create", "attest"} => inst # "absent"
        /\ k.op = "revoke" => inst = "revoked"
    /\ k.by = "provider" =>
        /\ k.result.code = "WalletInstanceRevoked" => inst = "revoked"
        /\ k.result.code = "WalletInstanceIntegrityFailed" => ~ ok
    /\ k.by = "nonce" => k.result.code \in {"none", "WalletProviderGenericError"}

(* The records of the calls are typed to the last field, a call past its   *)
(* nonce has an operation, and each result fits its answer.                *)
CallInv ==
    /\ instance \in Instances
    /\ sound \in BOOLEAN
    /\ made \in 0 .. MaxCalls
    /\ calls \in [Caller -> CallState]
    /\ \A c \in Caller :
        /\ calls[c].at \in {"nonce", "request"} => calls[c].op \in Op
        /\ Fits(calls[c], instance, sound)

(* No instance becomes absent again and no revocation is undone.           *)
Onward(inst, next) ==
    /\ next \in Instances
    /\ inst # "absent" => next # "absent"
    /\ inst = "revoked" => next = "revoked"

-----------------------------------------------------------------------------
(* The handler of createWalletInstance: one code for 409, another for the  *)
(* rest.                                                                   *)
LEMMA CreateErrors ==
    ASSUME NEW e, IsWalletProviderResponseError(e), e.status \in Nat, e.status # 0
    PROVE  HandleCreateWalletInstanceError(e) =
            [class |-> "WalletProviderResponseError",
             code |-> IF e.status = 409 THEN "WalletInstanceIntegrityFailed"
                      ELSE "WalletInstanceCreationFailed",
             status |-> e.status]
<1> DEFINE cases == <<Handle(409, "WalletInstanceIntegrityFailed"),
                      Handle(Fallback, "WalletInstanceCreationFailed")>>
<1>1. DOMAIN cases = 1 .. Len(cases) /\ Len(cases) = 2 /\ DOMAIN cases = {1, 2}
  OBVIOUS
<1>2. cases[1].status = 409 /\ cases[2].status = 0
  BY DEF Handle, Fallback
<1>3. /\ cases[1].code = "WalletInstanceIntegrityFailed"
      /\ cases[2].code = "WalletInstanceCreationFailed"
  BY DEF Handle
<1> HIDE DEF cases
<1>4. \A i, j \in DOMAIN cases : cases[i].status = cases[j].status => i = j
  BY <1>1, <1>2
<1>5. Case(cases, 409) = cases[1] /\ Handled(cases, 409)
  BY <1>1, <1>2, <1>4, CaseOf
<1>6. Case(cases, 0) = cases[2] /\ Handled(cases, 0)
  BY <1>1, <1>2, <1>4, CaseOf
<1>7. e.status # 409 => ~ Handled(cases, e.status)
  BY <1>1, <1>2 DEF Handled
<1>8. HandleCreateWalletInstanceError(e) =
        BuildFrom("WalletProviderResponseError", cases, e)
  BY DEF HandleCreateWalletInstanceError, cases
<1> QED
  BY <1>3, <1>5, <1>6, <1>7, <1>8 DEF BuildFrom, Fallback

AttestationCode(s) ==
    CASE s = 403 -> "WalletInstanceRevoked"
      [] s = 404 -> "WalletInstanceNotFound"
      [] s = 409 -> "WalletInstanceIntegrityFailed"
      [] OTHER -> "WalletInstanceAttestationIssuingFailed"

(* The handler of getAttestation: a code for each of 403, 404 and 409.     *)
LEMMA AttestationErrors ==
    ASSUME NEW e, IsWalletProviderResponseError(e), e.status \in Nat, e.status # 0
    PROVE  HandleAttestationCreationError(e) =
            [class |-> "WalletProviderResponseError",
             code |-> AttestationCode(e.status), status |-> e.status]
<1> DEFINE cases == <<Handle(403, "WalletInstanceRevoked"),
                      Handle(404, "WalletInstanceNotFound"),
                      Handle(409, "WalletInstanceIntegrityFailed"),
                      Handle(Fallback, "WalletInstanceAttestationIssuingFailed")>>
<1>1. DOMAIN cases = 1 .. Len(cases) /\ Len(cases) = 4 /\ DOMAIN cases = {1, 2, 3, 4}
  OBVIOUS
<1>2. /\ cases[1].status = 403 /\ cases[2].status = 404
      /\ cases[3].status = 409 /\ cases[4].status = 0
  BY DEF Handle, Fallback
<1>3. /\ cases[1].code = "WalletInstanceRevoked"
      /\ cases[2].code = "WalletInstanceNotFound"
      /\ cases[3].code = "WalletInstanceIntegrityFailed"
      /\ cases[4].code = "WalletInstanceAttestationIssuingFailed"
  BY DEF Handle
<1> HIDE DEF cases
<1>4. \A i, j \in DOMAIN cases : cases[i].status = cases[j].status => i = j
  BY <1>1, <1>2
<1>5. ASSUME NEW i \in DOMAIN cases
      PROVE  /\ Case(cases, cases[i].status) = cases[i]
             /\ Handled(cases, cases[i].status)
  <2>1. PICK s : s = cases[i].status
    OBVIOUS
  <2>2. Len(cases) \in Nat
    BY <1>1
  <2>3. \A j \in DOMAIN cases : cases[j].status = s => j = i
    BY <1>4, <2>1
  <2>4. Case(cases, s) = cases[i] /\ Handled(cases, s)
    BY <1>1, <2>1, <2>2, <2>3, CaseOf, ZenonT(30)
  <2> QED
    BY <2>1, <2>4
<1>6. Case(cases, 403) = cases[1] /\ Handled(cases, 403)
  BY <1>1, <1>2, <1>5
<1>7. Case(cases, 404) = cases[2] /\ Handled(cases, 404)
  BY <1>1, <1>2, <1>5
<1>8. Case(cases, 409) = cases[3] /\ Handled(cases, 409)
  BY <1>1, <1>2, <1>5
<1>9. Case(cases, 0) = cases[4] /\ Handled(cases, 0)
  BY <1>1, <1>2, <1>5
<1>10. e.status \notin {403, 404, 409} => ~ Handled(cases, e.status)
  BY <1>1, <1>2 DEF Handled
<1>11. HandleAttestationCreationError(e) =
        BuildFrom("WalletProviderResponseError", cases, e)
  BY DEF HandleAttestationCreationError, cases
<1>12. PICK s : s = e.status
  OBVIOUS
<1>13. CASE s \in {403, 404, 409}
  BY <1>3, <1>6, <1>7, <1>8, <1>11, <1>12, <1>13 DEF BuildFrom, AttestationCode
<1>14. CASE s \notin {403, 404, 409}
  <2>1. AttestationCode(s) = "WalletInstanceAttestationIssuingFailed"
    BY <1>14 DEF AttestationCode
  <2> QED
    BY <1>3, <1>9, <1>10, <1>11, <1>12, <1>14, <2>1 DEF BuildFrom, Fallback
<1> QED
  BY <1>13, <1>14

-----------------------------------------------------------------------------
Responses == [status : Nat, body : Body]

(* validateResponse rejects every failure with its status, whatever the    *)
(* body; a success may still fail to parse.                                *)
LEMMA Fetched ==
    ASSUME NEW res \in Responses, res.status >= 200
    PROVE  IF res.status >= 300
           THEN WalletProviderFetch(res) =
                    [class |-> "WalletProviderResponseError",
                     code |-> "WalletProviderGenericError", status |-> res.status]
           ELSE WalletProviderFetch(res) \in {Value, SyntaxError}
<1>1. CASE res.status >= 300
  <2>1. res.status \notin 200 .. 299
    BY <1>1 DEF Responses
  <2>2. ValidateResponse(res) =
            [class |-> "WalletProviderResponseError",
             code |-> "WalletProviderGenericError", status |-> res.status]
    BY <2>1 DEF ValidateResponse, ResponseError, GenericCode
  <2>3. ValidateResponse(res).class # Value.class
    BY <2>2 DEF Value
  <2> QED
    BY <1>1, <2>2, <2>3 DEF WalletProviderFetch
<1>2. CASE ~ (res.status >= 300)
  <2>1. res.status \in 200 .. 299
    BY <1>2 DEF Responses
  <2> QED
    BY <1>2, <2>1 DEF ValidateResponse, WalletProviderFetch
<1> QED
  BY <1>1, <1>2

(* The handlers pass on what is not an error of the provider's class.      *)
LEMMA PassedOn ==
    ASSUME NEW op \in Op, NEW e \in {Value, SyntaxError, NetworkError}
    PROVE  HandleError(op, e) = e /\ e \in CallResults /\ e.code = "none"
<1>1. e \in CallResults /\ e.code = "none" /\ ~ IsWalletProviderResponseError(e)
  BY DEF Value, SyntaxError, NetworkError, CallResults, Codes,
         IsWalletProviderResponseError
<1> QED
  BY <1>1 DEF HandleError, HandleCreateWalletInstanceError,
              HandleAttestationCreationError

(* What a request comes to by its status.                                  *)
LEMMA CallOutcome ==
    ASSUME NEW op \in Op, NEW res \in Responses, res.status >= 200,
           NEW r, r = HandleError(op, WalletProviderFetch(res))
    PROVE  /\ r \in CallResults
           /\ res.status >= 300 =>
                r.class = "WalletProviderResponseError" /\ r.status = res.status
           /\ r.code = "WalletInstanceRevoked" => op = "attest" /\ res.status = 403
           /\ r.code = "WalletInstanceIntegrityFailed" =>
                op \in NeedsNonce /\ res.status = 409
<1>0. res.status \in Nat
  BY DEF Responses
<1>1. CASE ~ (res.status >= 300)
  <2>1. r \in CallResults /\ r.code = "none"
    BY <1>1, Fetched, PassedOn
  <2> QED
    BY <1>0, <1>1, <2>1
<1>2. CASE res.status >= 300
  <2>1. PICK e : e = WalletProviderFetch(res)
    OBVIOUS
  <2>2. /\ e = [class |-> "WalletProviderResponseError",
                code |-> "WalletProviderGenericError", status |-> res.status]
        /\ IsWalletProviderResponseError(e) /\ e.status \in Nat /\ e.status # 0
        /\ e.status = res.status
    BY <1>0, <1>2, <2>1, Fetched DEF IsWalletProviderResponseError
  <2>3. CASE op = "create"
    <3>1. r = [class |-> "WalletProviderResponseError",
               code |-> IF res.status = 409 THEN "WalletInstanceIntegrityFailed"
                        ELSE "WalletInstanceCreationFailed",
               status |-> res.status]
      BY <2>1, <2>2, <2>3, CreateErrors DEF HandleError
    <3> QED
      BY <1>0, <2>3, <3>1 DEF CallResults, Codes, NeedsNonce
  <2>4. CASE op = "attest"
    <3>1. r = [class |-> "WalletProviderResponseError",
               code |-> AttestationCode(res.status), status |-> res.status]
      BY <2>1, <2>2, <2>4, AttestationErrors DEF HandleError
    <3> QED
      BY <1>0, <2>4, <3>1 DEF CallResults, Codes, NeedsNonce, AttestationCode
  <2>5. CASE op \in {"revoke", "status"}
    <3>1. r = e
      BY <2>1, <2>5 DEF HandleError
    <3> QED
      BY <1>0, <2>2, <2>5, <3>1 DEF CallResults, Codes
  <2> QED
    BY <2>3, <2>4, <2>5 DEF Op
<1> QED
  BY <1>1, <1>2

(* What the provider's own statuses say of the instance and the device.    *)
LEMMA ProviderSays ==
    ASSUME CallInv, NEW op \in Op, NEW s \in ProviderStatuses(op)
    PROVE  /\ s \in {200, 204, 400, 403, 404, 409, 422}
           /\ op = "attest" /\ s = 403 => instance = "revoked"
           /\ op \in NeedsNonce /\ s = 409 => ~ sound
           /\ op = "create" /\ s < 300 => sound
           /\ op \in {"attest", "revoke"} /\ s < 300 => instance # "absent"
<1>1. CASE op = "create"
  BY <1>1 DEF ProviderStatuses, NeedsNonce
<1>2. CASE op = "revoke"
  BY <1>2 DEF ProviderStatuses, NeedsNonce
<1>3. CASE op = "status"
  BY <1>3 DEF ProviderStatuses, NeedsNonce
<1>4. CASE op = "attest"
  BY <1>4 DEF ProviderStatuses, CallInv, Instances
<1> QED
  BY <1>1, <1>2, <1>3, <1>4 DEF Op

LEMMA Acted ==
    ASSUME CallInv, NEW op \in Op, ProviderActs(op) \/ UNCHANGED instance
    PROVE  Onward(instance, instance')
<1>1. CASE UNCHANGED instance
  BY <1>1 DEF CallInv, Onward
<1>2. CASE ProviderActs(op)
  BY <1>2 DEF ProviderActs, CallInv, Instances, Onward
<1> QED
  BY <1>1, <1>2

(* What a provider that says so has done.                                  *)
LEMMA Done ==
    ASSUME CallInv, NEW op \in Op, NEW s \in ProviderStatuses(op), s < 300,
           ProviderActs(op)
    PROVE  /\ op \in {"create", "attest"} => instance' # "absent"
           /\ op = "revoke" => instance' = "revoked"
<1>1. /\ op = "create" => sound
      /\ op \in {"attest", "revoke"} => instance # "absent"
  BY ProviderSays
<1> QED
  BY <1>1 DEF ProviderActs, CallInv, Instances

(* One call changes to a record that fits; the others fitted before, and   *)
(* neither the instance nor the device goes back.                          *)
LEMMA Changed ==
    ASSUME CallInv, NEW c \in Caller, NEW new \in CallState,
           calls' = [calls EXCEPT ![c] = new], UNCHANGED sound,
           made' \in 0 .. MaxCalls, Onward(instance, instance'),
           new.at \in {"nonce", "request"} => new.op \in Op,
           Fits(new, instance', sound')
    PROVE  CallInv'
<1>1. /\ calls' \in [Caller -> CallState] /\ calls'[c] = new
      /\ \A d \in Caller \ {c} : calls'[d] = calls[d]
  BY DEF CallInv
<1>2. ASSUME NEW d \in Caller
      PROVE  /\ calls'[d].at \in {"nonce", "request"} => calls'[d].op \in Op
             /\ Fits(calls'[d], instance', sound')
  <2>1. CASE d = c
    BY <1>1, <2>1
  <2>2. CASE d # c
    <3>1. PICK k : k = calls[d]
      OBVIOUS
    <3>2. calls'[d] = k /\ Fits(k, instance, sound)
          /\ (k.at \in {"nonce", "request"} => k.op \in Op)
      BY <1>1, <2>2, <3>1 DEF CallInv
    <3>3. Fits(k, instance', sound')
      BY <3>2 DEF Fits, Onward
    <3> QED
      BY <3>2, <3>3
  <2> QED
    BY <2>1, <2>2
<1> QED
  BY <1>1, <1>2 DEF CallInv, Onward

(* A call is settled with a result that fits its answer.                   *)
LEMMA Settled ==
    ASSUME CallInv, NEW c \in Caller, NEW n \in Nat, NEW r \in CallResults,
           NEW by \in {"nobody", "nonce", "gateway", "provider"},
           Settle(c, by, n, r), UNCHANGED <<sound, made>>,
           Onward(instance, instance'),
           \A k \in CallState :
                /\ k.op = calls[c].op /\ k.at = "settled" /\ k.by = by
                /\ k.answer = n /\ k.result = r
                => Fits(k, instance', sound')
    PROVE  CallInv'
<1>1. PICK new : new = [calls[c] EXCEPT !.at = "settled", !.by = by, !.answer = n,
                                        !.result = r]
  OBVIOUS
<1>2. calls[c] \in CallState
  BY DEF CallInv
<1>3. /\ new \in CallState /\ new.at = "settled" /\ new.op = calls[c].op
      /\ new.by = by /\ new.answer = n /\ new.result = r
  BY <1>1, <1>2 DEF CallState
<1>4. calls' = [calls EXCEPT ![c] = new]
  BY <1>1 DEF Settle, CallInv
<1>5. made' \in 0 .. MaxCalls
  BY DEF CallInv
<1>6. Fits(new, instance', sound')
  BY <1>3
<1> QED
  BY <1>3, <1>4, <1>5, <1>6, Changed

-----------------------------------------------------------------------------
LEMMA CallInitInv == CallInit => CallInv
<1> SUFFICES ASSUME CallInit PROVE CallInv
  OBVIOUS
<1>1. NoCall \in CallState /\ NoCall.at = "idle" /\ NoCall.answer = 0
        /\ NoCall.by = "nobody"
  BY DEF NoCall, CallState, Value, CallResults, Codes
<1>2. made \in 0 .. MaxCalls
  BY CallAssumption DEF CallInit
<1>3. Fits(NoCall, "absent", TRUE)
  BY <1>1 DEF Fits
<1> QED
  BY <1>1, <1>2, <1>3 DEF CallInit, CallInv, Instances

LEMMA NonceInv == ASSUME CallInv, NEW c \in Caller, GetNonce(c) PROVE CallInv'
<1>0. /\ calls[c] \in CallState /\ calls[c].op \in Op /\ calls[c].at = "nonce"
      /\ UNCHANGED <<instance, sound, made>> /\ made' \in 0 .. MaxCalls
      /\ Onward(instance, instance')
  BY DEF GetNonce, CallInv, Onward
<1>1. CASE calls' = [calls EXCEPT ![c].at = "request"]
  <2>1. PICK new : new = [calls[c] EXCEPT !.at = "request"]
    OBVIOUS
  <2>2. /\ new \in CallState /\ new.op = calls[c].op /\ new.by = calls[c].by
        /\ new.answer = calls[c].answer /\ new.result = calls[c].result
        /\ new.at = "request"
    BY <1>0, <2>1 DEF CallState
  <2>3. Fits(calls[c], instance, sound)
    BY DEF CallInv
  <2>4. Fits(new, instance', sound')
    BY <1>0, <2>2, <2>3 DEF Fits
  <2>5. calls' = [calls EXCEPT ![c] = new]
    BY <1>1, <2>1
  <2> QED
    BY <1>0, <2>2, <2>4, <2>5, Changed
<1>2. ASSUME NEW res \in GatewayResponses,
             Settle(c, "nonce", res.status, WalletProviderFetch(res))
      PROVE  CallInv'
  <2>0. res \in Responses /\ res.status >= 300 /\ res.status \in Nat
    BY GatewayAssumption DEF GatewayResponses, Responses
  <2>1. PICK r : r = WalletProviderFetch(res)
    OBVIOUS
  <2>2. r = [class |-> "WalletProviderResponseError",
             code |-> "WalletProviderGenericError", status |-> res.status]
    BY <2>0, <2>1, Fetched
  <2>3. r \in CallResults
    BY <2>0, <2>2 DEF CallResults, Codes
  <2>4. ASSUME NEW k \in CallState, k.by = "nonce", k.answer = res.status, k.result = r
        PROVE  Fits(k, instance', sound')
    BY <2>2, <2>4 DEF Fits
  <2> QED
    BY <1>0, <1>2, <2>0, <2>1, <2>3, <2>4, Settled
<1>3. CASE Settle(c, "nonce", 0, NetworkError)
  <2>1. NetworkError \in CallResults /\ NetworkError.code = "none"
    BY <1>0, PassedOn
  <2>2. ASSUME NEW k \in CallState, k.by = "nonce", k.answer = 0,
               k.result = NetworkError
        PROVE  Fits(k, instance', sound')
    BY <2>1, <2>2 DEF Fits, NetworkError
  <2> QED
    BY <1>0, <1>3, <2>1, <2>2, Settled
<1> QED
  BY <1>1, <1>2, <1>3 DEF GetNonce

LEMMA CallRequest == ASSUME CallInv, NEW c \in Caller, Request(c) PROVE CallInv'
<1>1. PICK op \in Op : op = calls[c].op
  BY DEF Request, CallInv
<1>2. UNCHANGED <<sound, made>>
  BY DEF Request
<1>3. ASSUME NEW s \in ProviderStatuses(op),
             Settle(c, "provider", s, HandleError(op,
                    WalletProviderFetch([status |-> s, body |-> "json"]))),
             IF s < 300 THEN ProviderActs(op) ELSE UNCHANGED instance
      PROVE  CallInv'
  <2>1. /\ s \in {200, 204, 400, 403, 404, 409, 422}
        /\ op = "attest" /\ s = 403 => instance = "revoked"
        /\ op \in NeedsNonce /\ s = 409 => ~ sound
    BY ProviderSays
  <2>2. PICK res : res = [status |-> s, body |-> "json"]
    OBVIOUS
  <2>3. res \in Responses /\ res.status = s /\ s >= 200 /\ s \in Nat
    BY <2>1, <2>2 DEF Responses, Body
  <2>4. PICK r : r = HandleError(op, WalletProviderFetch(res))
    OBVIOUS
  <2>5. /\ r \in CallResults
        /\ s >= 300 => r.class = "WalletProviderResponseError" /\ r.status = s
        /\ r.code = "WalletInstanceRevoked" => op = "attest" /\ s = 403
        /\ r.code = "WalletInstanceIntegrityFailed" => op \in NeedsNonce /\ s = 409
    BY <2>3, <2>4, CallOutcome
  <2>6. Onward(instance, instance')
    BY <1>3, Acted
  <2>7. r.class = "none" =>
            /\ op \in {"create", "attest"} => instance' # "absent"
            /\ op = "revoke" => instance' = "revoked"
    <3>1. SUFFICES ASSUME s < 300
                   PROVE  /\ op \in {"create", "attest"} => instance' # "absent"
                          /\ op = "revoke" => instance' = "revoked"
      BY <2>1, <2>5
    <3> QED
      BY <1>3, <3>1, Done
  <2>8. ASSUME NEW k \in CallState, k.op = op, k.by = "provider", k.answer = s,
               k.result = r
        PROVE  Fits(k, instance', sound')
    <3>1. k.result.code = "WalletInstanceRevoked" => instance' = "revoked"
      BY <2>1, <2>5, <2>6, <2>8 DEF Onward
    <3>2. k.result.code = "WalletInstanceIntegrityFailed" => ~ sound'
      BY <1>2, <2>1, <2>5, <2>8
    <3> QED
      BY <2>5, <2>7, <2>8, <3>1, <3>2 DEF Fits
  <2>9. Settle(c, "provider", s, r)
    BY <1>3, <2>2, <2>4
  <2> QED
    BY <1>1, <1>2, <2>3, <2>5, <2>6, <2>8, <2>9, Settled
<1>4. ASSUME NEW res \in GatewayResponses,
             Settle(c, "gateway", res.status, HandleError(op, WalletProviderFetch(res))),
             ProviderActs(op) \/ UNCHANGED instance
      PROVE  CallInv'
  <2>0. res \in Responses /\ res.status >= 300 /\ res.status \in Nat
    BY GatewayAssumption DEF GatewayResponses, Responses
  <2>1. PICK r : r = HandleError(op, WalletProviderFetch(res))
    OBVIOUS
  <2>2. /\ r \in CallResults
        /\ r.class = "WalletProviderResponseError" /\ r.status = res.status
    BY <2>0, <2>1, CallOutcome
  <2>3. ASSUME NEW k \in CallState, k.by = "gateway", k.answer = res.status,
               k.result = r
        PROVE  Fits(k, instance', sound')
    BY <2>2, <2>3 DEF Fits
  <2> QED
    BY <1>1, <1>2, <1>4, <2>0, <2>1, <2>2, <2>3, Acted, Settled
<1>5. CASE /\ Settle(c, "nobody", 0, HandleError(op, NetworkError))
           /\ ProviderActs(op) \/ UNCHANGED instance
  <2>1. /\ HandleError(op, NetworkError) = NetworkError
        /\ NetworkError \in CallResults /\ NetworkError.code = "none"
    BY PassedOn
  <2>2. ASSUME NEW k \in CallState, k.by = "nobody", k.answer = 0,
               k.result = NetworkError
        PROVE  Fits(k, instance', sound')
    BY <2>2 DEF Fits, NetworkError
  <2> QED
    BY <1>1, <1>2, <1>5, <2>1, <2>2, Acted, Settled
<1> QED
  BY <1>1, <1>3, <1>4, <1>5 DEF Request

LEMMA CallNextInv == CallInv /\ [CallNext]_callVars => CallInv'
<1> SUFFICES ASSUME CallInv, [CallNext]_callVars PROVE CallInv'
  OBVIOUS
<1>1. ASSUME NEW c \in Caller, NEW op \in Op, Begin(c, op) PROVE CallInv'
  <2>1. PICK new : new = [NoCall EXCEPT !.op = op,
            !.at = IF op \in NeedsNonce THEN "nonce" ELSE "request"]
    OBVIOUS
  <2>2. /\ new \in CallState /\ new.op = op /\ new.answer = 0 /\ new.by = "nobody"
        /\ new.at \in {"nonce", "request"}
    BY <2>1 DEF NoCall, CallState, Value, CallResults, Codes
  <2>3. Fits(new, instance', sound')
    BY <2>2 DEF Fits
  <2>4. made' \in 0 .. MaxCalls /\ Onward(instance, instance')
    BY <1>1, CallAssumption DEF Begin, CallInv, Onward
  <2>5. calls' = [calls EXCEPT ![c] = new] /\ UNCHANGED sound
    BY <1>1, <2>1 DEF Begin
  <2> QED
    BY <2>2, <2>3, <2>4, <2>5, Changed
<1>2. CASE LoseIntegrity
  <2>1. UNCHANGED <<instance, calls, made>> /\ sound' = FALSE
    BY <1>2 DEF LoseIntegrity
  <2>2. ASSUME NEW c \in Caller PROVE Fits(calls[c], instance, FALSE)
    BY DEF CallInv, Fits
  <2> QED
    BY <2>1, <2>2 DEF CallInv
<1>3. CASE UNCHANGED callVars
  BY <1>3 DEF callVars, CallInv
<1> QED
  BY <1>1, <1>2, <1>3, NonceInv, CallRequest DEF CallNext

(* validateResponse and the handlers of createWalletInstance and           *)
(* getAttestation, for any gateway that answers with failures: a failure   *)
(* carries the class and the status of the answer; a success was done at   *)
(* the provider; what the provider itself says of an instance remains      *)
(* true; and a refused nonce says nothing about the instance.              *)
THEOREM ProviderOutcomes ==
    CallSpec => [](/\ CallTypeOK /\ FailureIsTyped /\ SuccessMeansDone
                   /\ CodeTellsInstance /\ NonceTellsNothing)
<1>1. CallInv => CallTypeOK
  BY DEF CallInv, CallTypeOK, CallState, CallResults, Instances
<1>2. CallInv => FailureIsTyped
  BY DEF CallInv, Fits, FailureIsTyped
<1>3. CallInv => SuccessMeansDone
  BY DEF CallInv, Fits, SuccessMeansDone, Value
<1>4. CallInv => CodeTellsInstance
  BY DEF CallInv, Fits, CodeTellsInstance
<1>5. CallInv => NonceTellsNothing
  BY DEF CallInv, Fits, NonceTellsNothing
<1> QED
  BY <1>1, <1>2, <1>3, <1>4, <1>5, CallInitInv, CallNextInv, PTL DEF CallSpec

=============================================================================
