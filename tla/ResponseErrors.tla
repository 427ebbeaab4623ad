--------------------------- MODULE ResponseErrors ---------------------------
(***************************************************************************)
(* From an HTTP response to the error the application sees:                *)
(* src/src/utils/misc.ts, src/src/utils/errors.ts, src/src/client/index.ts *)
(* and the handlers that give an error its code.                           *)
(*                                                                         *)
(* A response has a status and a body: "json", "text" (another content     *)
(* type), or "broken", which says it is JSON and does not parse.           *)
(***************************************************************************)
EXTENDS Naturals, Sequences

CONSTANT GatewayStatus  \* statuses a gateway gives of its own

ASSUME GatewayAssumption == GatewayStatus \subseteq 300 .. 599

Body == {"json", "text", "broken"}

(* A gateway before a service may answer for it with a failure.            *)
GatewayResponses == {[status |-> s, body |-> b] : s \in GatewayStatus, b \in Body}

(* The key "*" of errorCases; no response has this status.                 *)
Fallback == 0

(* What a call comes to: a value, or an error with its class, its code and *)
(* the status it carries.                                                  *)
Value == [class |-> "none", code |-> "none", status |-> 0]
NetworkError == [class |-> "TypeError", code |-> "none", status |-> 0]
SyntaxError == [class |-> "SyntaxError", code |-> "none", status |-> 0]

GenericCode_Issuer(class) == "IssuerGenericError"

GenericCode(class) ==
    IF class = "IssuerResponseError" THEN "IssuerGenericError"
    ELSE IF class = "WalletProviderResponseError" THEN "WalletProviderGenericError"
    ELSE "ERR_UNEXPECTED_STATUS_CODE"

(* The constructors of the classes: the code is the generic one if none is *)
(* given.                                                                  *)
ResponseError(class, status) ==
    [class |-> class, code |-> GenericCode(class), status |-> status]

(* instanceof UnexpectedStatusCodeError, of which the others are subclasses*)
IsUnexpectedStatusCodeError(e) ==
    e.class \in {"UnexpectedStatusCodeError", "IssuerResponseError",
                 "WalletProviderResponseError"}

IsWalletProviderResponseError(e) == e.class = "WalletProviderResponseError"

(* misc.ts: parseRawHttpResponse rejects on a body that is not what its    *)
(* content type says.                                                      *)
ParseRawHttpResponse(res) == res.body # "broken"

(* misc.ts: the body is awaited to build the error, and may reject first.  *)
HasStatusOrThrow(status, class, res) ==
    IF res.status = status THEN Value
    ELSE IF ParseRawHttpResponse(res) THEN ResponseError(class, res.status)
    ELSE SyntaxError

ValidateResponse_Parse(res) ==
    IF res.status \in 200 .. 299 THEN Value
    ELSE IF ParseRawHttpResponse(res)
         THEN ResponseError("WalletProviderResponseError", res.status)
    ELSE SyntaxError

ValidateResponse_Redirects(res) ==
    IF res.status \in 200 .. 399 THEN Value
    ELSE ResponseError("WalletProviderResponseError", res.status)

(* client/index.ts: any body that is not a ProblemDetail is replaced.      *)
ValidateResponse(res) ==
    IF res.status \in 200 .. 299 THEN Value
    ELSE ResponseError("WalletProviderResponseError", res.status)

(* The client: validateResponse, then parseRawHttpResponse.                *)
WalletProviderFetch(res) ==
    IF ValidateResponse(res) # Value THEN ValidateResponse(res)
    ELSE IF ParseRawHttpResponse(res) THEN Value ELSE SyntaxError

-----------------------------------------------------------------------------
(* errors.ts: ResponseErrorBuilder.  handle overwrites the case of a       *)
(* status; buildFrom prefers it to "*" and else returns the error as it is.*)
Case(cases, status) ==
    cases[CHOOSE i \in DOMAIN cases :
            /\ cases[i].status = status
            /\ \A j \in (i + 1) .. Len(cases) : cases[j].status # status]

Handled(cases, status) == \E i \in DOMAIN cases : cases[i].status = status

Handle(status, code) == [status |-> status, code |-> code]

BuildFrom(class, cases, e) ==
    LET key == IF Handled(cases, e.status) THEN e.status ELSE Fallback
    IN  IF Handled(cases, key)
        THEN [class |-> class, code |-> Case(cases, key).code, status |-> e.status]
        ELSE e

HandleCreateWalletInstanceError(e) ==
    IF ~ IsWalletProviderResponseError(e) THEN e
    ELSE BuildFrom("WalletProviderResponseError",
            <<Handle(409, "WalletInstanceIntegrityFailed"),
              Handle(Fallback, "WalletInstanceCreationFailed")>>, e)

HandleAttestationCreationError_Swapped(e) ==
    IF ~ IsWalletProviderResponseError(e) THEN e
    ELSE BuildFrom("WalletProviderResponseError",
            <<Handle(404, "WalletInstanceRevoked"),
              Handle(403, "WalletInstanceNotFound"),
              Handle(409, "WalletInstanceIntegrityFailed"),
              Handle(Fallback, "WalletInstanceAttestationIssuingFailed")>>, e)

HandleAttestationCreationError(e) ==
    IF ~ IsWalletProviderResponseError(e) THEN e
    ELSE BuildFrom("WalletProviderResponseError",
            <<Handle(403, "WalletInstanceRevoked"),
              Handle(404, "WalletInstanceNotFound"),
              Handle(409, "WalletInstanceIntegrityFailed"),
              Handle(Fallback, "WalletInstanceAttestationIssuingFailed")>>, e)

HandleObtainCredentialError(e) ==
    IF ~ IsUnexpectedStatusCodeError(e) THEN e
    ELSE BuildFrom("IssuerResponseError",
            <<Handle(201, "CredentialIssuingNotSynchronous"),
              Handle(403, "CredentialInvalidStatus"),
              Handle(404, "CredentialInvalidStatus"),
              Handle(Fallback, "CredentialRequestFailed")>>, e)

HandleStatusAttestationError_AllInvalid(e) ==
    IF ~ IsUnexpectedStatusCodeError(e) THEN e
    ELSE BuildFrom("IssuerResponseError",
            <<Handle(Fallback, "CredentialInvalidStatus")>>, e)

HandleStatusAttestationError(e) ==
    IF ~ IsUnexpectedStatusCodeError(e) THEN e
    ELSE BuildFrom("IssuerResponseError",
            <<Handle(404, "CredentialInvalidStatus"),
              Handle(Fallback, "StatusAttestationRequestFailed")>>, e)
=============================================================================
