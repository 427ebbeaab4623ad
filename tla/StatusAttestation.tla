-------------------------- MODULE StatusAttestation -------------------------
(***************************************************************************)
(* The status of a credential, from the credential request                 *)
(* (06-obtain-credential.ts) to the attestations of its status             *)
(* (src/src/credential/status, run by getCredentialStatusAttestation of    *)
(* the application).  The issuer is external: it decides on a credential,  *)
(* may revoke it, rotates its keys, may leave out what the code expects,   *)
(* and may sit behind a gateway that answers for it with any failure or    *)
(* delivers an answer it has given before.                                 *)
(***************************************************************************)
EXTENDS ResponseErrors

CONSTANTS
    Cred,           \* credentials
    KeyOf,          \* the key each credential is bound to
    Plain,          \* credentials without any "~" in their text
    Flow,           \* status flows
    MaxGen,         \* bound: generations of the issuer's keys
    None

ASSUME StatusAssumption ==
    /\ DOMAIN KeyOf = Cred
    /\ \A c, d \in Cred : KeyOf[c] = KeyOf[d] => c = d
    /\ Plain \subseteq Cred
    /\ MaxGen \in Nat \ {0}
    /\ None \notin Cred

VARIABLES
    state,      \* what the issuer decided on each credential
    told,       \* what the last request of each credential came to
    gen,        \* the generation of the issuer's keys
    issued,     \* the status attestations issued
    fl          \* the status flows

vars == <<state, told, gen, issued, fl>>

(* by: who gave the answer.  No code can see it.                           *)
NotAsked == [by |-> "nobody", answer |-> 0,
             result |-> [class |-> "none", code |-> "NotAsked", status |-> 0]]
NoFlow == [at |-> "idle", cred |-> None, conf |-> 0, att |-> None,
           by |-> "nobody", answer |-> 0, result |-> Value]

Init ==
    /\ state = [c \in Cred |-> "pending"]
    /\ told = [c \in Cred |-> NotAsked]
    /\ gen = 1
    /\ issued = {}
    /\ fl = [f \in Flow |-> NoFlow]

IssuerResponse(s) == [status |-> s, body |-> "json"]

(* Errors that carry no status: a body that is not what it should be, and  *)
(* what verifyAndParseStatusAttestation throws.                            *)
ZodError == [class |-> "ZodError", code |-> "none", status |-> 0]
ValidationFailed == [class |-> "ValidationFailed", code |-> "none", status |-> 0]
IoWalletError == [class |-> "IoWalletError", code |-> "none", status |-> 0]

-----------------------------------------------------------------------------
(* 06-obtain-credential.ts: the credential request and its error handler.  *)
ObtainResponses(c) ==
    {IssuerResponse(400)} \cup
        (IF state[c] = "pending" THEN {IssuerResponse(201)}
         ELSE IF state[c] = "valid" THEN {IssuerResponse(200)}
         ELSE {IssuerResponse(403), IssuerResponse(404)})

Tell(c, by, answer, result) ==
    told' = [told EXCEPT ![c] = [by |-> by, answer |-> answer, result |-> result]]

ObtainCredential(c) ==
    LET Outcome(res) == HandleObtainCredentialError(
                HasStatusOrThrow(200, "UnexpectedStatusCodeError", res))
    IN  /\ told[c].result # Value
        /\ \/ \E res \in ObtainResponses(c) :
                Tell(c, "issuer", res.status, Outcome(res))
           \/ \E res \in GatewayResponses :
                Tell(c, "gateway", res.status, Outcome(res))
           \/ \E e \in {SyntaxError, ValidationFailed} :
                state[c] = "valid" /\ Tell(c, "issuer", 200, e)
           \/ Tell(c, "nobody", 0, NetworkError)
        /\ UNCHANGED <<state, gen, issued, fl>>

-----------------------------------------------------------------------------
Ends(f, by, answer, result) ==
    fl' = [fl EXCEPT ![f].at = "failed", ![f].by = by, ![f].answer = answer,
                     ![f].result = result]

(* startFlow, for a credential in the store.                               *)
StartFlow(f, c) ==
    /\ fl[f].at = "idle"
    /\ told[c].result = Value
    /\ fl' = [fl EXCEPT ![f].at = "started", ![f].cred = c]
    /\ UNCHANGED <<state, told, gen, issued>>

(* evaluateIssuerTrust: the configuration is read once.                    *)
EvaluateIssuerTrust(f) ==
    /\ fl[f].at = "started"
    /\ \/ fl' = [fl EXCEPT ![f].at = "trusted", ![f].conf = gen]
       \/ Ends(f, "nobody", 0, NetworkError)
    /\ UNCHANGED <<state, told, gen, issued>>

(* getCredentialHashWithouDiscloures and the proof of possession.          *)
SignCredentialPop(f) ==
    /\ fl[f].at = "trusted"
    /\ IF fl[f].cred \in Plain THEN Ends(f, "nobody", 0, IoWalletError)
       ELSE fl' = [fl EXCEPT ![f].at = "asking"]
    /\ UNCHANGED <<state, told, gen, issued>>

(* The issuer's own failures.                                              *)
Failures(c) ==
    {IssuerResponse(400)} \cup
        (IF state[c] = "invalid" THEN {IssuerResponse(404)} ELSE {})

Attestation(c) == [cred |-> c, key |-> KeyOf[c], sig |-> gen, parses |-> TRUE]

(* An attestation as it arrives: the issuer may have left out the kid in   *)
(* cnf, or made one that ParsedStatusAttestation does not parse.           *)
Arrived(att, form) ==
    [att EXCEPT !.key = IF form = "noKid" THEN None ELSE @,
                !.parses = form # "unparsed"]

Receives(f, by, att) ==
    \E form \in {"whole", "noKid", "unparsed"} :
        fl' = [fl EXCEPT ![f].at = "received", ![f].by = by, ![f].answer = 201,
                         ![f].att = Arrived(att, form)]

(* The POST of statusAttestation: a new attestation, one given before, a   *)
(* 201 with another body, a failure that is mapped by its status, or no    *)
(* answer.                                                                 *)
RequestStatusAttestation(f) ==
    LET c == fl[f].cred
        Fails(by, res) == Ends(f, by, res.status, HandleStatusAttestationError(
                HasStatusOrThrow(201, "UnexpectedStatusCodeError", res)))
    IN  /\ fl[f].at = "asking"
        /\ \/ /\ state[c] = "valid"
              /\ issued' = issued \cup {Attestation(c)}
              /\ Receives(f, "issuer", Attestation(c))
           \/ (\E att \in issued : Receives(f, "gateway", att)) /\ UNCHANGED issued
           \/ /\ \E e \in {SyntaxError, ZodError} :
                    Ends(f, "issuer", 201, HandleStatusAttestationError(e))
              /\ UNCHANGED issued
           \/ (\E res \in Failures(c) : Fails("issuer", res)) /\ UNCHANGED issued
           \/ (\E res \in GatewayResponses : Fails("gateway", res))
              /\ UNCHANGED issued
           \/ /\ Ends(f, "nobody", 0, HandleStatusAttestationError(NetworkError))
              /\ UNCHANGED issued
        /\ UNCHANGED <<state, told, gen>>

VerifyAndParseStatusAttestation_NoBinding(f) ==
    /\ fl[f].at = "received"
    /\ IF fl[f].att.sig = fl[f].conf /\ fl[f].att.parses
       THEN fl' = [fl EXCEPT ![f].at = "done"]
       ELSE Ends(f, fl[f].by, fl[f].answer, IoWalletError)
    /\ UNCHANGED <<state, told, gen, issued>>

(* The signature is that of a key of the configuration read before, the    *)
(* attestation parses, and cnf has the kid of the credential's key; the    *)
(* hash of the credential is not compared.                                 *)
VerifyAndParseStatusAttestation(f) ==
    LET att == fl[f].att
    IN  /\ fl[f].at = "received"
        /\ IF /\ att.sig = fl[f].conf
              /\ att.parses
              /\ att.key # None /\ att.key = KeyOf[fl[f].cred]
           THEN fl' = [fl EXCEPT ![f].at = "done"]
           ELSE Ends(f, fl[f].by, fl[f].answer, IoWalletError)
        /\ UNCHANGED <<state, told, gen, issued>>

-----------------------------------------------------------------------------
(* Environment: the issuer grants, refuses or revokes, and rotates keys.   *)
Decide(c) ==
    /\ \/ state[c] = "pending" /\ state' = [state EXCEPT ![c] = "valid"]
       \/ state[c] # "invalid" /\ state' = [state EXCEPT ![c] = "invalid"]
    /\ UNCHANGED <<told, gen, issued, fl>>

RotateKeys ==
    /\ gen < MaxGen
    /\ gen' = gen + 1
    /\ UNCHANGED <<state, told, issued, fl>>

Step(f) ==
    \/ EvaluateIssuerTrust(f)
    \/ SignCredentialPop(f)
    \/ RequestStatusAttestation(f)
    \/ VerifyAndParseStatusAttestation(f)

Next ==
    \/ \E f \in Flow : Step(f) \/ \E c \in Cred : StartFlow(f, c)
    \/ \E c \in Cred : ObtainCredential(c) \/ Decide(c)
    \/ RotateKeys

Spec == Init /\ [][Next]_vars

-----------------------------------------------------------------------------
Attestations ==
    [cred : Cred, key : {KeyOf[c] : c \in Cred} \cup {None}, sig : 1 .. MaxGen,
     parses : BOOLEAN]

By == {"nobody", "issuer", "gateway"}

(* What the request of a credential may come to.                           *)
Told == [by : By, answer : Nat,
         result : [class : {"none", "TypeError", "SyntaxError", "ValidationFailed",
                            "IssuerResponseError"},
                   code : {"NotAsked", "none", "CredentialIssuingNotSynchronous",
                           "CredentialInvalidStatus", "CredentialRequestFailed"},
                   status : Nat]]

(* What a flow may end with.                                               *)
Outcome == [class : {"none", "TypeError", "SyntaxError", "ZodError",
                     "IoWalletError", "IssuerResponseError"},
            code : {"none", "CredentialInvalidStatus",
                    "StatusAttestationRequestFailed"},
            status : Nat]

FlowState == [at : {"idle", "started", "trusted", "asking", "received", "done",
                    "failed"},
              cred : Cred \cup {None}, conf : 0 .. MaxGen,
              att : Attestations \cup {None}, by : By, answer : Nat,
              result : Outcome]

(* Type invariant.                                                         *)
TypeOK ==
    /\ state \in [Cred -> {"pending", "valid", "invalid"}]
    /\ told \in [Cred -> Told]
    /\ gen \in 1 .. MaxGen
    /\ issued \subseteq Attestations
    /\ fl \in [Flow -> FlowState]

(* verifyAndParseStatusAttestation does not compare the credential hash.   *)
(* Still, what a flow returns attests the credential it was called for,    *)
(* whichever attestation the answer carried: every credential has a key of *)
(* its own, and that is compared.                                          *)
AttestsOwnCredential ==
    \A f \in Flow : fl[f].at = "done" => fl[f].att.cred = fl[f].cred

(* The decision of the issuer on a credential reaches the application: of  *)
(* all that the issuer itself answers, its refusals and nothing else come  *)
(* out under CredentialInvalidStatus, at issuance and for a status         *)
(* attestation, and the credential is and stays invalid.                   *)
InvalidStatusIsTheIssuers ==
    /\ \A c \in Cred : told[c].by = "issuer" =>
        /\ told[c].result.code = "CredentialInvalidStatus" <=>
                told[c].answer \in {403, 404}
        /\ told[c].answer \in {403, 404} => state[c] = "invalid"
    /\ \A f \in Flow : fl[f].by = "issuer" =>
        /\ fl[f].result.code = "CredentialInvalidStatus" <=> fl[f].answer = 404
        /\ fl[f].answer = 404 => state[fl[f].cred] = "invalid"

(* error-codes.ts of CredentialInvalidStatus: "thrown when a credential    *)
(* status is invalid, either during issuance or when requesting a status   *)
(* attestation".                                                           *)
(* The code does not keep this (README, Findings).                         *)
InvalidMeansInvalid ==
    /\ \A c \in Cred :
        told[c].result.code = "CredentialInvalidStatus" => state[c] = "invalid"
    /\ \A f \in Flow :
        fl[f].result.code = "CredentialInvalidStatus" =>
            state[fl[f].cred] = "invalid"

(* hasStatusOrThrow "@throws UnexpectedStatusCodeError if the status is    *)
(* different from the one expected", so a flow that was answered with      *)
(* another status than 201 ends with an error of that class.               *)
(* The code does not keep this (README, Findings).                         *)
UnexpectedStatusIsTyped ==
    \A f \in Flow : fl[f].answer \notin {0, 201} =>
        IsUnexpectedStatusCodeError(fl[f].result)
=============================================================================
