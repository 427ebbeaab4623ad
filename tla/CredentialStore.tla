--------------------------- MODULE CredentialStore --------------------------
(***************************************************************************)
(* The credentials of the application next to its PID: the credential      *)
(* slice (store/reducers/credential.ts), the thunks that obtain a          *)
(* credential, its status attestation and its trustmark, and the screens   *)
(* that dispatch them, composed with PidFlow.  A credential is obtained by *)
(* presenting the PID, so a new PID makes the old credentials obsolete:    *)
(* the PID thunks reset the credential slice on their way.                 *)
(***************************************************************************)
EXTENDS PidFlow

CONSTANTS
    CThunk,     \* slots for credential thunks in flight
    Type,       \* SupportedCredentialsWithoutPid
    MaxCred     \* bound: credentials issued in a behaviour

ASSUME CredentialAssumption ==
    /\ MaxCred \in Nat
    /\ None \notin Type \cup [n : 1 .. MaxCred, pid : Flow]
    /\ None \notin [type : Type, cred : [n : 1 .. MaxCred, pid : Flow] \cup {None}]

VARIABLES
    credentials, credentialsAsyncStatus,    \* the slice
    statusAttestation, statusAttAsyncStatus,
    trustmark, trustmarkAsyncStatus,
    credDisk,   \* what redux-persist wrote of the slice
    ct,         \* the credential thunks in flight
    issued,     \* issuer: how many credentials it issued
    qr          \* TrustmarkQrCodeScreen: its type, and the credential for which
                \* its effect ran last

credSlice == <<credentials, credentialsAsyncStatus, statusAttestation,
               statusAttAsyncStatus, trustmark, trustmarkAsyncStatus>>
credVars == <<credSlice, credDisk, ct, issued, qr>>
vars == <<pidVars, credVars>>

(* A credential, and the PID it was obtained with.  A status attestation   *)
(* and a trustmark are named by the credential they are about.             *)
Credential == [n : 1 .. MaxCred, pid : Flow]

CIdle == [op |-> "none", pc |-> "idle", type |-> None, arg |-> None]
NoneForAll == [ty \in Type |-> None]
InitialForAll == [ty \in Type |-> "initial"]

initialState ==
    /\ credentials' = NoneForAll /\ credentialsAsyncStatus' = InitialForAll
    /\ statusAttestation' = NoneForAll /\ statusAttAsyncStatus' = InitialForAll
    /\ trustmark' = NoneForAll /\ trustmarkAsyncStatus' = InitialForAll

Init ==
    /\ PidInit
    /\ credentials = NoneForAll /\ credentialsAsyncStatus = InitialForAll
    /\ statusAttestation = NoneForAll /\ statusAttAsyncStatus = InitialForAll
    /\ trustmark = NoneForAll /\ trustmarkAsyncStatus = InitialForAll
    /\ credDisk = NoneForAll
    /\ ct = [c \in CThunk |-> CIdle]
    /\ issued = 0
    /\ qr = None

Unchanged3(a, b) == UNCHANGED <<a, b, pidVars, credDisk, issued, qr>>

CAt(c, op, pc) == ct[c].op = op /\ ct[c].pc = pc
CStart(c, op, pc, ty, arg) ==
    /\ ct[c] = CIdle
    /\ ct' = [ct EXCEPT ![c] =
            [op |-> op, pc |-> pc, type |-> ty, arg |-> arg]]
CEnd(c) == ct' = [ct EXCEPT ![c] = CIdle]

CredentialsQuiet == \A c \in CThunk : ct[c] = CIdle

(* The screens of the credentials are not covered by another one; to come  *)
(* here from PidScreen is to leave it.                                     *)
InFront == qr = None /\ spidScreen = None /\ ~ cieModal

credentialPart == <<credentials, credentialsAsyncStatus>>
statusPart == <<statusAttestation, statusAttAsyncStatus>>
trustmarkPart == <<trustmark, trustmarkAsyncStatus>>

-----------------------------------------------------------------------------
(* The extra reducers of the slice: three parts, each with the status of a *)
(* thunk per type.                                                         *)

StatusOf(part, ty, s) == [part EXCEPT ![ty] = s]

OnCredentialPending(ty) ==
    /\ credentialsAsyncStatus' = StatusOf(credentialsAsyncStatus, ty, "loading")
    /\ UNCHANGED credentials

OnCredentialFulfilled_KeepsLoading(ty, new) ==
    /\ credentials' = [credentials EXCEPT ![ty] = new]
    /\ UNCHANGED credentialsAsyncStatus

OnCredentialFulfilled(ty, new) ==
    /\ credentials' = [credentials EXCEPT ![ty] = new]
    /\ credentialsAsyncStatus' = StatusOf(credentialsAsyncStatus, ty, "done")

OnCredentialRejected_KeepsLoading(ty) == UNCHANGED credentialPart

OnCredentialRejected(ty) ==
    /\ credentialsAsyncStatus' = StatusOf(credentialsAsyncStatus, ty, "error")
    /\ UNCHANGED credentials

OnStatusPending(ty) ==
    /\ statusAttAsyncStatus' = StatusOf(statusAttAsyncStatus, ty, "loading")
    /\ UNCHANGED statusAttestation

OnStatusFulfilled_OnlyStatus(ty, att) ==
    /\ statusAttAsyncStatus' = StatusOf(statusAttAsyncStatus, ty, "done")
    /\ UNCHANGED statusAttestation

OnStatusFulfilled(ty, att) ==
    /\ statusAttestation' = [statusAttestation EXCEPT ![ty] = att]
    /\ statusAttAsyncStatus' = StatusOf(statusAttAsyncStatus, ty, "done")

OnStatusRejected(ty) ==
    /\ statusAttAsyncStatus' = StatusOf(statusAttAsyncStatus, ty, "error")
    /\ UNCHANGED statusAttestation

OnTrustmarkPending(ty) ==
    trustmarkAsyncStatus' = StatusOf(trustmarkAsyncStatus, ty, "loading")

OnTrustmarkFulfilled(ty, tm) ==
    /\ trustmark' = [trustmark EXCEPT ![ty] = tm]
    /\ trustmarkAsyncStatus' = StatusOf(trustmarkAsyncStatus, ty, "done")

OnTrustmarkRejected(ty) ==
    /\ trustmarkAsyncStatus' = StatusOf(trustmarkAsyncStatus, ty, "error")
    /\ UNCHANGED trustmark

-----------------------------------------------------------------------------
(* getCredentialThunk.                                                     *)

(* CredentialScreen: the pending reducer, then the thunk up to its first   *)
(* await, which is the attestation if the selector asks for one, and       *)
(* getCredential with the PID of the store otherwise.                      *)
PressCredential(c, ty) ==
    /\ InFront
    /\ Patient => Quiet /\ CredentialsQuiet
    /\ \/ CStart(c, "credential", "attest", ty, None)
       \/ pid # None /\ CStart(c, "credential", "request", ty, pid)
       \/ pid = None /\ CStart(c, "credential", "reject", ty, None)
    /\ OnCredentialPending(ty)
    /\ Unchanged3(statusPart, trustmarkPart)

(* The attestation is there: the PID is read now.                          *)
CredentialAttested(c) ==
    /\ CAt(c, "credential", "attest")
    /\ ct' = [ct EXCEPT ![c].pc = IF pid = None THEN "reject" ELSE "request",
                        ![c].arg = pid]
    /\ UNCHANGED credentialPart
    /\ Unchanged3(statusPart, trustmarkPart)

GetCredentialFulfilled(c) ==
    LET new == [n |-> issued + 1, pid |-> ct[c].arg] IN
    /\ CAt(c, "credential", "request")
    /\ issued < MaxCred
    /\ issued' = issued + 1
    /\ OnCredentialFulfilled(ct[c].type, new)
    /\ CEnd(c)
    /\ UNCHANGED <<statusPart, trustmarkPart, pidVars, credDisk, qr>>

(* No attestation, no PID, or getCredential failed.                        *)
GetCredentialRejected(c) ==
    /\ ct[c].op = "credential"
    /\ OnCredentialRejected(ct[c].type)
    /\ CEnd(c)
    /\ Unchanged3(statusPart, trustmarkPart)

-----------------------------------------------------------------------------
(* getCredentialStatusAttestationThunk.                                    *)

(* StatusAttestationScreen hands the rendered credential to the thunk.     *)
PressStatusAttestation(c, ty) ==
    /\ InFront
    /\ Patient => Quiet /\ CredentialsQuiet
    /\ credentials[ty] # None
    /\ CStart(c, "status", "request", ty, credentials[ty])
    /\ OnStatusPending(ty)
    /\ Unchanged3(credentialPart, trustmarkPart)

StatusAttestationFulfilled(c) ==
    /\ CAt(c, "status", "request")
    /\ OnStatusFulfilled(ct[c].type, ct[c].arg)
    /\ CEnd(c)
    /\ Unchanged3(credentialPart, trustmarkPart)

StatusAttestationRejected(c) ==
    /\ ct[c].op = "status"
    /\ OnStatusRejected(ct[c].type)
    /\ CEnd(c)
    /\ Unchanged3(credentialPart, trustmarkPart)

-----------------------------------------------------------------------------
(* getTrustmarkThunk and the screen that shows the QR code.                *)

trustmarkReset(ty) == [trustmark EXCEPT ![ty] = None]

(* TrustmarkScreen lists the credentials obtained; the effect of the QR    *)
(* screen dispatches the thunk when it is mounted.                         *)
OpenQr(c, ty) ==
    /\ InFront
    /\ Patient => Quiet /\ CredentialsQuiet
    /\ credentials[ty] # None
    /\ qr' = [type |-> ty, cred |-> credentials[ty]]
    /\ CStart(c, "trustmark", "request", ty, credentials[ty])
    /\ OnTrustmarkPending(ty)
    /\ UNCHANGED <<trustmark, credentialPart, statusPart, pidVars, credDisk,
                   issued>>

(* The credential on the screen was replaced or removed: the effect is     *)
(* cleaned up, if it did anything, and runs again.                         *)
QrEffect(c) ==
    LET ty == qr.type IN
    /\ qr # None /\ qr.cred # credentials[ty]
    /\ qr' = [qr EXCEPT !.cred = credentials[ty]]
    /\ trustmark' = IF qr.cred = None THEN trustmark ELSE trustmarkReset(ty)
    /\ IF credentials[ty] = None
       THEN UNCHANGED <<ct, trustmarkAsyncStatus>>
       ELSE /\ CStart(c, "trustmark", "request", ty, credentials[ty])
            /\ OnTrustmarkPending(ty)
    /\ UNCHANGED <<credentialPart, statusPart, pidVars, credDisk, issued>>

CloseQr_NoCleanup ==
    /\ qr # None
    /\ Patient => CredentialsQuiet
    /\ qr' = None
    /\ UNCHANGED <<trustmarkPart, credentialPart, statusPart, pidVars,
                   credDisk, ct, issued>>

CloseQr ==
    /\ qr # None
    /\ Patient => CredentialsQuiet
    /\ trustmark' = IF qr.cred = None THEN trustmark
                    ELSE trustmarkReset(qr.type)
    /\ qr' = None
    /\ UNCHANGED <<trustmarkAsyncStatus, credentialPart, statusPart, pidVars,
                   credDisk, ct, issued>>

TrustmarkFulfilled(c) ==
    /\ CAt(c, "trustmark", "request")
    /\ OnTrustmarkFulfilled(ct[c].type, ct[c].arg)
    /\ CEnd(c)
    /\ Unchanged3(credentialPart, statusPart)

TrustmarkRejected(c) ==
    /\ ct[c].op = "trustmark"
    /\ OnTrustmarkRejected(ct[c].type)
    /\ CEnd(c)
    /\ Unchanged3(credentialPart, statusPart)

-----------------------------------------------------------------------------
(* Composition with the PID flow, resets and restarts.                     *)

CredentialResetDispatched_Never == FALSE

(* A PID thunk that has its attestation resets the credentials and then    *)
(* calls the library.                                                      *)
CredentialResetDispatched ==
    \E t \in Thunk : th'[t].pc = "authorize" /\ th[t].pc # "authorize"

PidMoves ==
    /\ \/ \E t \in Thunk :
            \/ qr = None /\ PidPress(t) /\ (Patient => CredentialsQuiet)
            \/ PidStep(t)
       \/ CloseSpid \/ LeavePid \/ CieClose \/ CieStart \/ CieLateError
       \/ PersistPid
    /\ IF CredentialResetDispatched THEN initialState ELSE UNCHANGED credSlice
    /\ UNCHANGED <<credDisk, ct, issued, qr>>

(* instanceReset or sessionReset reach both slices.                        *)
ResetAll ==
    /\ Patient => CredentialsQuiet
    /\ Reset
    /\ initialState
    /\ qr' \in {None, qr}
    /\ UNCHANGED <<credDisk, ct, issued>>

PersistCredentials ==
    /\ restarts < MaxRestarts
    /\ credDisk # credentials
    /\ credDisk' = credentials
    /\ UNCHANGED <<pidVars, credSlice, ct, issued, qr>>

(* Each slice is written at its own pace and read back by itself.          *)
RestartAll ==
    /\ Restart
    /\ credentials' = credDisk /\ credentialsAsyncStatus' = InitialForAll
    /\ statusAttestation' = NoneForAll /\ statusAttAsyncStatus' = InitialForAll
    /\ trustmark' = NoneForAll /\ trustmarkAsyncStatus' = InitialForAll
    /\ ct' = [c \in CThunk |-> CIdle]
    /\ qr' = None
    /\ UNCHANGED <<credDisk, issued>>

CredPress(c) ==
    \E ty \in Type :
        PressCredential(c, ty) \/ PressStatusAttestation(c, ty) \/ OpenQr(c, ty)

CredStep(c) ==
    \/ CredentialAttested(c) \/ GetCredentialFulfilled(c)
    \/ GetCredentialRejected(c)
    \/ StatusAttestationFulfilled(c) \/ StatusAttestationRejected(c)
    \/ TrustmarkFulfilled(c) \/ TrustmarkRejected(c)

Next ==
    \/ PidMoves
    \/ \E c \in CThunk : CredPress(c) \/ CredStep(c) \/ QrEffect(c)
    \/ CloseQr \/ PersistCredentials \/ ResetAll \/ RestartAll

Spec == Init /\ [][Next]_vars

(* A promise settles one way or the other.                                 *)
FairSpec == Spec /\ \A c \in CThunk : WF_vars(CredStep(c))
-----------------------------------------------------------------------------
(* A thunk before and after it read the PID, and one about a credential.   *)
Waiting == [op : {"credential"}, pc : {"attest", "reject"}, type : Type, arg : {None}]
Requesting == [op : {"credential"}, pc : {"request"}, type : Type, arg : Flow]
About == [op : {"status", "trustmark"}, pc : {"request"}, type : Type,
          arg : Credential]

IsThunk(r) ==
    \/ r = CIdle
    \/ r.op = "credential" /\ r.pc # "request" /\ r \in Waiting
    \/ r.op = "credential" /\ r.pc = "request" /\ r \in Requesting
    \/ r.op \in {"status", "trustmark"} /\ r \in About

(* Type invariant.                                                         *)
TypeOK ==
    /\ credentials \in [Type -> Credential \cup {None}]
    /\ statusAttestation \in [Type -> Credential \cup {None}]
    /\ trustmark \in [Type -> Credential \cup {None}]
    /\ credDisk \in [Type -> Credential \cup {None}]
    /\ credentialsAsyncStatus \in [Type -> Status]
    /\ statusAttAsyncStatus \in [Type -> Status]
    /\ trustmarkAsyncStatus \in [Type -> Status]
    /\ issued \in 0 .. MaxCred
    /\ ct = [c \in CThunk |-> ct[c]] /\ \A c \in CThunk : IsThunk(ct[c])
    /\ qr = None \/ qr \in [type : Type, cred : Credential \cup {None}]

InFlight(op, ty) == \E c \in CThunk : ct[c].op = op /\ ct[c].type = ty

(* AsyncStatus: isLoading tells "whether the operation is in progress".    *)
(* Each of the three statuses of each type is loading only while a thunk   *)
(* of its kind is in flight for the type, whatever other thunks, resets by *)
(* the PID flow, cleanups of the screen or restarts come in between.       *)
LoadingHasThunk ==
    \A ty \in Type :
        /\ credentialsAsyncStatus[ty] = "loading" => InFlight("credential", ty)
        /\ statusAttAsyncStatus[ty] = "loading" => InFlight("status", ty)
        /\ trustmarkAsyncStatus[ty] = "loading" => InFlight("trustmark", ty)

(* What shows as done is in the store, although the parts of the slice     *)
(* are reset by other slices' actions and only one of them is persisted.   *)
DoneMeansPresent ==
    \A ty \in Type :
        /\ credentialsAsyncStatus[ty] = "done" => credentials[ty] # None
        /\ statusAttAsyncStatus[ty] = "done" => statusAttestation[ty] # None

(* pid.ts: "Reset the credential state before obtaining a new PID".  The   *)
(* credentials in the store were obtained with the PID in the store.       *)
CredentialsOfCurrentPid ==
    pid # None =>
        \A ty \in Type : credentials[ty] # None => credentials[ty].pid = pid

(* TrustmarkQrCodeScreen: the trustmark on the screen is for the credential*)
(* the effect ran for last.                                                *)
ShownTrustmarkIsOwn ==
    qr # None /\ trustmark[qr.type] # None => trustmark[qr.type] = qr.cred

(* trustmarkReset "removes a trustmark from the store": it is there only   *)
(* while its screen is open.                                               *)
(* The code does not keep this (README, Findings).                         *)
TrustmarkOnlyWhileShown ==
    \A ty \in Type : trustmark[ty] # None => qr # None /\ qr.type = ty

(* CredentialState: "the status attestation for the credentials".  What    *)
(* the slice holds for a type is about the credential it holds.            *)
(* The code does not keep this (README, Findings).                         *)
StatusOfStoredCredential ==
    \A ty \in Type :
        statusAttestation[ty] # None => statusAttestation[ty] = credentials[ty]

(* Every credential operation comes to an end.                             *)
LoadingEnds ==
    \A ty \in Type :
        /\ credentialsAsyncStatus[ty] = "loading"
                ~> credentialsAsyncStatus[ty] # "loading"
        /\ statusAttAsyncStatus[ty] = "loading"
                ~> statusAttAsyncStatus[ty] # "loading"
        /\ trustmarkAsyncStatus[ty] = "loading"
                ~> trustmarkAsyncStatus[ty] # "loading"
=============================================================================
