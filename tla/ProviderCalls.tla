---------------------------- MODULE ProviderCalls ---------------------------
(***************************************************************************)
(* What callers of the wallet provider are told: createWalletInstance,     *)
(* revokeWalletInstance and getWalletInstanceStatus of                     *)
(* src/src/wallet-instance and getAttestation of                           *)
(* src/src/wallet-instance-attestation, with the statuses the provider's   *)
(* interface has (openapi/wallet-provider.yaml) for the state an instance  *)
(* is in, and a gateway that may answer for it with any failure.           *)
(***************************************************************************)
EXTENDS ResponseErrors

CONSTANTS
    Caller,     \* calls that run at the same time
    MaxCalls    \* bound: calls in a behaviour

ASSUME CallAssumption == MaxCalls \in Nat

VARIABLES
    instance,   \* the state of the instance at the provider
    sound,      \* the device passes the integrity check
    calls,      \* the call of each caller
    made        \* how many calls were made (for the bound)

callVars == <<instance, sound, calls, made>>

Op == {"create", "attest", "revoke", "status"}
NeedsNonce == {"create", "attest"}

(* by: who gave the answer a call settled with.  No code can see it.       *)
NoCall == [op |-> "none", at |-> "idle", by |-> "nobody", answer |-> 0,
           result |-> Value]

CallInit ==
    /\ instance = "absent"
    /\ sound = TRUE
    /\ calls = [c \in Caller |-> NoCall]
    /\ made = 0

Begin(c, op) ==
    /\ calls[c].at \in {"idle", "settled"}
    /\ made < MaxCalls
    /\ made' = made + 1
    /\ calls' = [calls EXCEPT ![c] = [NoCall EXCEPT !.op = op,
            !.at = IF op \in NeedsNonce THEN "nonce" ELSE "request"]]
    /\ UNCHANGED <<instance, sound>>

Settle(c, by, status, result) ==
    calls' = [calls EXCEPT ![c].at = "settled", ![c].by = by,
                           ![c].answer = status, ![c].result = result]

(* The error handlers of the four functions.                               *)
HandleError(op, e) ==
    CASE op = "create" -> HandleCreateWalletInstanceError(e)
      [] op = "attest" -> HandleAttestationCreationError(e)
      [] OTHER -> e

GetNonce_Handled(c) ==
    /\ calls[c].at = "nonce"
    /\ \/ calls' = [calls EXCEPT ![c].at = "request"]
       \/ \E res \in GatewayResponses :
            Settle(c, "nonce", res.status,
                   HandleError(calls[c].op, WalletProviderFetch(res)))
       \/ Settle(c, "nonce", 0, NetworkError)
    /\ UNCHANGED <<instance, sound, made>>

(* api.get("/nonce"), outside of the catch that gives errors their codes.  *)
GetNonce(c) ==
    /\ calls[c].at = "nonce"
    /\ \/ calls' = [calls EXCEPT ![c].at = "request"]
       \/ \E res \in GatewayResponses :
            Settle(c, "nonce", res.status, WalletProviderFetch(res))
       \/ Settle(c, "nonce", 0, NetworkError)
    /\ UNCHANGED <<instance, sound, made>>

(* The provider: the statuses it gives in a state, besides the 500 that is *)
(* no different from one of the gateway.  What 403, 404 and 409 mean for   *)
(* an attestation is what getAttestation takes them for.                   *)
ProviderStatuses(op) ==
    CASE op = "create" -> {400, 403, 422, IF sound THEN 204 ELSE 409}
      [] op = "revoke" -> {400, 403} \cup (IF instance = "absent" THEN {} ELSE {204})
      [] op = "status" -> {400, 403, IF instance = "absent" THEN 404 ELSE 200}
      [] op = "attest" -> {400, 422, CASE instance = "absent" -> 404
                                       [] instance = "revoked" -> 403
                                       [] OTHER -> IF sound THEN 200 ELSE 409}

ProviderActs(op) ==
    instance' = CASE op = "create" /\ sound /\ instance = "absent" -> "active"
                  [] op = "revoke" /\ instance = "active" -> "revoked"
                  [] OTHER -> instance

(* The request of each function, answered by the provider, or by the       *)
(* gateway before or after the provider has acted, or not at all.          *)
Request(c) ==
    LET op == calls[c].op
        Told(by, res) ==
            Settle(c, by, res.status, HandleError(op, WalletProviderFetch(res)))
    IN  /\ calls[c].at = "request"
        /\ \/ \E s \in ProviderStatuses(op) :
                /\ Told("provider", [status |-> s, body |-> "json"])
                /\ IF s < 300 THEN ProviderActs(op) ELSE UNCHANGED instance
           \/ \E res \in GatewayResponses :
                Told("gateway", res) /\ (ProviderActs(op) \/ UNCHANGED instance)
           \/ /\ Settle(c, "nobody", 0, HandleError(op, NetworkError))
              /\ ProviderActs(op) \/ UNCHANGED instance
        /\ UNCHANGED <<sound, made>>

(* Environment: the device stops passing the integrity check.              *)
LoseIntegrity ==
    /\ sound
    /\ sound' = FALSE
    /\ UNCHANGED <<instance, calls, made>>

CallNext ==
    \/ \E c \in Caller :
        \/ \E op \in Op : Begin(c, op)
        \/ GetNonce(c)
        \/ Request(c)
    \/ LoseIntegrity

CallSpec == CallInit /\ [][CallNext]_callVars
-----------------------------------------------------------------------------
Codes == {"none", "WalletProviderGenericError", "WalletInstanceCreationFailed",
          "WalletInstanceAttestationIssuingFailed", "WalletInstanceRevoked",
          "WalletInstanceNotFound", "WalletInstanceIntegrityFailed"}

(* Type invariant.                                                         *)
CallTypeOK ==
    /\ instance \in {"absent", "active", "revoked"}
    /\ sound \in BOOLEAN
    /\ made \in 0 .. MaxCalls
    /\ DOMAIN calls = Caller
    /\ \A c \in Caller :
        /\ calls[c].op \in Op \cup {"none"}
        /\ calls[c].at \in {"idle", "nonce", "request", "settled"}
        /\ calls[c].by \in {"nobody", "nonce", "gateway", "provider"}
        /\ calls[c].result.code \in Codes

(* A call that was answered with a failure rejects with an error of the    *)
(* provider's class that carries the status of that answer, whoever made   *)
(* the answer and whatever is in its body: validateResponse does not       *)
(* depend on it.                                                           *)
FailureIsTyped ==
    \A c \in Caller : calls[c].answer >= 300 =>
        /\ calls[c].result.class = "WalletProviderResponseError"
        /\ calls[c].result.status = calls[c].answer

(* A create or a revoke that resolved was done at the provider, and an     *)
(* attestation that resolved is of an instance that was created, whichever *)
(* answers were lost or replaced before and whatever other callers do.     *)
SuccessMeansDone ==
    \A c \in Caller :
        calls[c].at = "settled" /\ calls[c].result = Value =>
            /\ calls[c].op \in {"create", "attest"} => instance # "absent"
            /\ calls[c].op = "revoke" => instance = "revoked"

(* What the provider itself decided on an instance, the caller may act     *)
(* upon for good: whoever it told WalletInstanceRevoked has a revoked      *)
(* instance and whoever it told WalletInstanceIntegrityFailed a device     *)
(* that fails the check, and other callers do not change this.             *)
CodeTellsInstance ==
    \A c \in Caller : calls[c].by = "provider" =>
        LET code == calls[c].result.code
        IN  /\ code = "WalletInstanceRevoked" => instance = "revoked"
            /\ code = "WalletInstanceIntegrityFailed" => ~ sound

(* A nonce that is refused, with whatever status, says nothing about the   *)
(* instance: /nonce is fetched outside of the handler that takes 403, 404  *)
(* and 409 for a state of the instance.                                    *)
NonceTellsNothing ==
    \A c \in Caller : calls[c].by = "nonce" =>
        calls[c].result.code \in {"none", "WalletProviderGenericError"}

(* error-codes.ts of WalletInstanceRevoked: "thrown when obtaining a       *)
(* wallet instance attestation but the wallet instance is revoked".        *)
(* The code does not keep this (README, Findings).                         *)
RevokedMeansRevoked ==
    \A c \in Caller :
        calls[c].result.code = "WalletInstanceRevoked" => instance = "revoked"

(* getAttestation "@throws {WalletProviderResponseError} with a specific   *)
(* code for more context".                                                 *)
(* The code does not keep this (README, Findings).                         *)
AttestationFailureIsSpecific ==
    \A c \in Caller :
        calls[c].op = "attest" /\ calls[c].answer >= 300 =>
            calls[c].result.code # "WalletProviderGenericError"
=============================================================================
