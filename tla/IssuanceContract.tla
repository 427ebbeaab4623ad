-------------------------- MODULE IssuanceContract --------------------------
(***************************************************************************)
(* What an issuance flow promises to the application, without the          *)
(* protocol: a flow delivers a credential only if the user authorised that *)
(* very flow and the issuer issued a credential for it, bound to the key   *)
(* the flow made; otherwise it fails and delivers nothing.  Flows do not   *)
(* influence each other's result.                                          *)
(***************************************************************************)
CONSTANTS
    Flow,           \* issuance flows, each with a holder key of its own
    None

VARIABLES
    status,         \* what the caller of each flow sees
    authorized,     \* flows the user has authorised
    issued,         \* credentials issued so far
    delivered       \* the credential each flow returned

cvars == <<status, authorized, issued, delivered>>

(* A credential as far as the contract sees it: the flow whose             *)
(* authorisation it was issued on and the flow whose key it is bound to.   *)
CredentialOf == [grant : Flow, holder : Flow]

CInit ==
    /\ status = [f \in Flow |-> "idle"]
    /\ authorized = {}
    /\ issued = {}
    /\ delivered = [f \in Flow |-> None]

Begin(f) ==
    /\ status[f] = "idle"
    /\ status' = [status EXCEPT ![f] = "running"]
    /\ UNCHANGED <<authorized, issued, delivered>>

(* The user authorises a flow that is running or has been given up.        *)
Authorize(f) ==
    /\ status[f] # "idle"
    /\ authorized' = authorized \cup {f}
    /\ UNCHANGED <<status, issued, delivered>>

Issue(f) ==
    /\ f \in authorized
    /\ \E c \in CredentialOf :
        /\ c.grant = f
        /\ issued' = issued \cup {c}
    /\ UNCHANGED <<status, authorized, delivered>>

Deliver(f) ==
    /\ status[f] = "running"
    /\ [grant |-> f, holder |-> f] \in issued
    /\ status' = [status EXCEPT ![f] = "done"]
    /\ delivered' = [delivered EXCEPT ![f] = [grant |-> f, holder |-> f]]
    /\ UNCHANGED <<authorized, issued>>

Fail(f) ==
    /\ status[f] = "running"
    /\ status' = [status EXCEPT ![f] = "failed"]
    /\ UNCHANGED <<authorized, issued, delivered>>

CNext ==
    \E f \in Flow : Begin(f) \/ Authorize(f) \/ Issue(f) \/ Deliver(f) \/ Fail(f)

CSpec == CInit /\ [][CNext]_cvars
=============================================================================
