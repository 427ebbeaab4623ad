------------------------ MODULE CredentialStoreProofs -----------------------
(***************************************************************************)
(* For any number of thunks, flows, credential types, credentials and      *)
(* restarts, patient user or not: the store keeps what the PID flow        *)
(* promises by itself, a status is loading only while its thunk runs, and  *)
(* done only with its result in the store.                                 *)
(***************************************************************************)
EXTENDS CredentialStore, PidFlowProofs

USE DEF OnPreparePending, OnPrepareFulfilled, OnPrepareRejected,
        OnContinuePending, OnContinueFulfilled, OnContinueRejected,
        OnCieIDPending, OnCieIDFulfilled, OnCieIDRejected
USE DEF StatusOf, OnCredentialPending, OnCredentialFulfilled,
        OnCredentialRejected, OnStatusPending, OnStatusFulfilled,
        OnStatusRejected, OnTrustmarkPending, OnTrustmarkFulfilled,
        OnTrustmarkRejected

(* The credential slice and its thunks only read the PID slice: seen from  *)
(* there, every step of the composition is one of the PID flow or none.    *)
THEOREM ComposedPidFlow == Spec => PidSpec
<1>1. Init => PidInit
  BY DEF Init
<1>2. [Next]_vars => [PidNext]_pidVars
  <2> SUFFICES ASSUME [Next]_vars PROVE [PidNext]_pidVars
    OBVIOUS
  <2>1. CASE PidMoves
    BY <2>1 DEF PidMoves, PidNext
  <2>2. CASE ResetAll
    BY <2>2 DEF ResetAll, PidNext
  <2>3. CASE RestartAll
    BY <2>3 DEF RestartAll, PidNext
  <2>4. CASE CloseQr
    BY <2>4 DEF CloseQr
  <2>5. CASE PersistCredentials
    BY <2>5 DEF PersistCredentials
  <2>6. ASSUME NEW c \in CThunk, CredPress(c) \/ CredStep(c) \/ QrEffect(c)
        PROVE  UNCHANGED pidVars
    BY <2>6 DEF CredPress, CredStep, QrEffect, PressCredential,
                PressStatusAttestation, OpenQr, CredentialAttested,
                GetCredentialFulfilled, GetCredentialRejected,
                StatusAttestationFulfilled, StatusAttestationRejected,
                TrustmarkFulfilled, TrustmarkRejected, Unchanged3
  <2>7. CASE UNCHANGED vars
    BY <2>7 DEF vars
  <2> QED
    BY <2>1, <2>2, <2>3, <2>4, <2>5, <2>6, <2>7 DEF Next
<1> QED
  BY <1>1, <1>2, PTL DEF Spec, PidSpec

-----------------------------------------------------------------------------
Inv == TypeOK /\ LoadingHasThunk /\ DoneMeansPresent

Op == {"credential", "status", "trustmark"}
Results == [Type -> Credential \cup {None}]
Statuses == [Type -> Status]

(* What InFlight says of one status map.                                   *)
HasThunk(status, op) == \A ty \in Type : status[ty] = "loading" => InFlight(op, ty)
HasResult(status, result) == \A ty \in Type : status[ty] = "done" => result[ty] # None

LEMMA InvParts ==
    /\ LoadingHasThunk <=> /\ HasThunk(credentialsAsyncStatus, "credential")
                           /\ HasThunk(statusAttAsyncStatus, "status")
                           /\ HasThunk(trustmarkAsyncStatus, "trustmark")
    /\ DoneMeansPresent <=> /\ HasResult(credentialsAsyncStatus, credentials)
                            /\ HasResult(statusAttAsyncStatus, statusAttestation)
  BY DEF LoadingHasThunk, DoneMeansPresent, HasThunk, HasResult

LEMMA Initials ==
    /\ NoneForAll \in Results /\ InitialForAll \in Statuses
    /\ \A ty \in Type : InitialForAll[ty] = "initial"
    /\ CIdle.op = "none" /\ IsThunk(CIdle)
  BY DEF NoneForAll, InitialForAll, Results, Statuses, Status, CIdle, IsThunk

LEMMA InitInv == Init => Inv
<1> SUFFICES ASSUME Init PROVE Inv
  OBVIOUS
<1>1. TypeOK
  BY Initials, CredentialAssumption DEF Init, TypeOK, Results, Statuses
<1> QED
  BY <1>1, Initials DEF Init, Inv, LoadingHasThunk, DoneMeansPresent

TypedThunks == ct = [c \in CThunk |-> ct[c]] /\ \A c \in CThunk : IsThunk(ct[c])

(* A thunk starts: what was in flight still is, and one more is.           *)
LEMMA Starts ==
    ASSUME TypedThunks, NEW c \in CThunk, ct[c] = CIdle,
           NEW new, IsThunk(new), ct' = [ct EXCEPT ![c] = new]
    PROVE  /\ TypedThunks'
           /\ \A op \in Op, ty \in Type :
                /\ InFlight(op, ty) => InFlight(op, ty)'
                /\ op = new.op /\ ty = new.type => InFlight(op, ty)'
<1>1. /\ ct' = [d \in CThunk |-> ct'[d]] /\ ct'[c] = new
      /\ \A d \in CThunk \ {c} : ct'[d] = ct[d]
  BY DEF TypedThunks
<1>2. ct[c].op = "none"
  BY Initials
<1>3. TypedThunks'
  BY <1>1 DEF TypedThunks
<1> QED
  BY <1>1, <1>2, <1>3 DEF InFlight, Op

(* A thunk ends: those of another kind or type are still in flight.        *)
LEMMA Finishes ==
    ASSUME TypedThunks, NEW c \in CThunk, CEnd(c)
    PROVE  /\ TypedThunks'
           /\ \A op \in Op, ty \in Type :
                InFlight(op, ty) /\ ~ (op = ct[c].op /\ ty = ct[c].type)
                    => InFlight(op, ty)'
<1>1. /\ ct' = [d \in CThunk |-> ct'[d]] /\ ct'[c] = CIdle
      /\ \A d \in CThunk \ {c} : ct'[d] = ct[d]
  BY DEF TypedThunks, CEnd
<1>2. TypedThunks'
  BY <1>1, Initials DEF TypedThunks
<1> QED
  BY <1>1, <1>2 DEF InFlight

(* One status becomes st, loading only if there is a thunk; the others     *)
(* have the thunks they had.                                               *)
LEMMA StatusSet ==
    ASSUME NEW status \in Statuses, NEW op \in Op, HasThunk(status, op),
           NEW ty \in Type, NEW st \in Status,
           \A uy \in Type \ {ty} : InFlight(op, uy) => InFlight(op, uy)',
           st = "loading" => InFlight(op, ty)'
    PROVE  /\ [status EXCEPT ![ty] = st] \in Statuses
           /\ \A uy \in Type :
                [status EXCEPT ![ty] = st][uy] = "loading" => InFlight(op, uy)'
  BY DEF Statuses, HasThunk

LEMMA ResultSet ==
    ASSUME NEW status \in Statuses, NEW result \in Results,
           HasResult(status, result), NEW ty \in Type, NEW st \in Status
    PROVE  /\ st # "done" => HasResult([status EXCEPT ![ty] = st], result)
           /\ \A r \in Credential :
                /\ [result EXCEPT ![ty] = r] \in Results
                /\ HasResult([status EXCEPT ![ty] = st], [result EXCEPT ![ty] = r])
<1>1. None \notin Credential
  BY CredentialAssumption DEF Credential
<1> QED
  BY <1>1 DEF Statuses, Results, HasResult

TypedRest ==
    /\ credentials \in Results /\ statusAttestation \in Results
    /\ trustmark \in Results /\ credDisk \in Results /\ issued \in 0 .. MaxCred
    /\ qr = None \/ qr \in [type : Type, cred : Credential \cup {None}]

TypedStatuses ==
    /\ credentialsAsyncStatus \in Statuses
    /\ statusAttAsyncStatus \in Statuses
    /\ trustmarkAsyncStatus \in Statuses

LEMMA TypeParts == TypeOK <=> TypedThunks /\ TypedRest /\ TypedStatuses
  BY DEF TypeOK, TypedThunks, TypedRest, TypedStatuses, Results, Statuses

SetIf(condition, status, ty, st) ==
    IF condition THEN [status EXCEPT ![ty] = st] ELSE status

(* A thunk starts or ends and sets the status of its kind and type.        *)
LEMMA Advance ==
    ASSUME Inv, NEW op \in Op, NEW ty \in Type, NEW st \in Status,
           TypedThunks', TypedRest', DoneMeansPresent',
           \A o \in Op, uy \in Type :
                InFlight(o, uy) /\ ~ (o = op /\ uy = ty) => InFlight(o, uy)',
           st = "loading" => InFlight(op, ty)',
           credentialsAsyncStatus' =
                SetIf(op = "credential", credentialsAsyncStatus, ty, st),
           statusAttAsyncStatus' = SetIf(op = "status", statusAttAsyncStatus, ty, st),
           trustmarkAsyncStatus' =
                SetIf(op = "trustmark", trustmarkAsyncStatus, ty, st)
    PROVE  Inv'
<1>1. ASSUME NEW o \in Op, NEW status \in Statuses, HasThunk(status, o)
      PROVE  /\ SetIf(op = o, status, ty, st) \in Statuses
             /\ \A uy \in Type :
                  SetIf(op = o, status, ty, st)[uy] = "loading" => InFlight(o, uy)'
  <2>1. CASE op = o
    BY <1>1, <2>1, StatusSet DEF SetIf
  <2>2. CASE op # o
    BY <1>1, <2>2 DEF SetIf, HasThunk
  <2> QED
    BY <2>1, <2>2
<1>2. TypedStatuses /\ "credential" \in Op /\ "status" \in Op /\ "trustmark" \in Op
  BY TypeParts DEF Inv, Op
<1>3. /\ HasThunk(credentialsAsyncStatus, "credential")
      /\ HasThunk(statusAttAsyncStatus, "status")
      /\ HasThunk(trustmarkAsyncStatus, "trustmark")
  BY DEF Inv, LoadingHasThunk, HasThunk
<1>4. /\ credentialsAsyncStatus' \in Statuses
      /\ \A uy \in Type : credentialsAsyncStatus'[uy] = "loading"
                            => InFlight("credential", uy)'
  BY <1>1, <1>2, <1>3 DEF TypedStatuses
<1>5. /\ statusAttAsyncStatus' \in Statuses
      /\ \A uy \in Type : statusAttAsyncStatus'[uy] = "loading"
                            => InFlight("status", uy)'
  BY <1>1, <1>2, <1>3 DEF TypedStatuses
<1>6. /\ trustmarkAsyncStatus' \in Statuses
      /\ \A uy \in Type : trustmarkAsyncStatus'[uy] = "loading"
                            => InFlight("trustmark", uy)'
  BY <1>1, <1>2, <1>3 DEF TypedStatuses
<1>7. TypeOK'
  BY <1>4, <1>5, <1>6
  DEF TypeOK, TypedThunks, TypedRest, Results, Statuses
<1> QED
  BY <1>4, <1>5, <1>6, <1>7 DEF Inv, LoadingHasThunk

(* No status changes and no thunk ends.                                    *)
LEMMA Stays ==
    ASSUME Inv, TypedThunks', TypedRest', DoneMeansPresent',
           \A o \in Op, uy \in Type : InFlight(o, uy) => InFlight(o, uy)',
           UNCHANGED <<credentialsAsyncStatus, statusAttAsyncStatus,
                       trustmarkAsyncStatus>>
    PROVE  Inv'
<1>1. TypeOK'
  BY DEF Inv, TypeOK, TypedThunks, TypedRest, Results
<1>2. LoadingHasThunk'
  BY DEF Inv, LoadingHasThunk, Op
<1> QED
  BY <1>1, <1>2 DEF Inv

(* All statuses become initial.                                            *)
LEMMA Clears ==
    ASSUME Inv, TypedThunks', TypedRest',
           credentialsAsyncStatus' = InitialForAll,
           statusAttAsyncStatus' = InitialForAll,
           trustmarkAsyncStatus' = InitialForAll
    PROVE  Inv'
<1>1. TypeOK'
  BY Initials DEF TypeOK, TypedThunks, TypedRest, Results, Statuses
<1> QED
  BY <1>1, Initials DEF Inv, LoadingHasThunk, DoneMeansPresent

-----------------------------------------------------------------------------
(* What an action of a thunk knows of its record.                          *)
LEMMA ThunkOf ==
    ASSUME TypedThunks, NEW c \in CThunk, ct[c].op \in Op
    PROVE  /\ ct[c].type \in Type
           /\ ct[c].op = "credential" /\ ct[c].pc = "request" => ct[c].arg \in Flow
           /\ ct[c].op \in {"status", "trustmark"} => ct[c].arg \in Credential
<1>1. IsThunk(ct[c]) /\ ct[c] # CIdle
  BY Initials DEF TypedThunks, Op
<1>2. CASE ct[c] \in Waiting /\ ct[c].pc # "request"
  BY <1>2 DEF Waiting
<1>3. CASE ct[c] \in Requesting
  BY <1>3 DEF Requesting
<1>4. CASE ct[c] \in About
  BY <1>4 DEF About
<1> QED
  BY <1>1, <1>2, <1>3, <1>4 DEF IsThunk

LEMMA NewThunks ==
    ASSUME NEW ty \in Type
    PROVE  /\ \A pc \in {"attest", "reject"} :
                IsThunk([op |-> "credential", pc |-> pc, type |-> ty, arg |-> None])
           /\ \A f \in Flow :
                IsThunk([op |-> "credential", pc |-> "request", type |-> ty,
                         arg |-> f])
           /\ \A op \in {"status", "trustmark"}, r \in Credential :
                IsThunk([op |-> op, pc |-> "request", type |-> ty, arg |-> r])
  BY DEF IsThunk, Waiting, Requesting, About

LEMMA CStarts ==
    ASSUME Inv, NEW c \in CThunk, NEW op \in Op, NEW pc, NEW ty \in Type, NEW arg,
           IsThunk([op |-> op, pc |-> pc, type |-> ty, arg |-> arg]),
           CStart(c, op, pc, ty, arg)
    PROVE  /\ TypedThunks' /\ InFlight(op, ty)'
           /\ \A o \in Op, uy \in Type : InFlight(o, uy) => InFlight(o, uy)'
<1>1. PICK new : new = [op |-> op, pc |-> pc, type |-> ty, arg |-> arg]
  OBVIOUS
<1>2. new.op = op /\ new.type = ty /\ IsThunk(new)
  BY <1>1
<1>3. ct[c] = CIdle /\ ct' = [ct EXCEPT ![c] = new] /\ TypedThunks
  BY <1>1, TypeParts DEF CStart, Inv
<1> QED
  BY <1>2, <1>3, Starts

LEMMA CEnds ==
    ASSUME Inv, NEW c \in CThunk, NEW op \in Op, ct[c].op = op, CEnd(c)
    PROVE  /\ TypedThunks' /\ ct[c].type \in Type
           /\ \A o \in Op, uy \in Type :
                InFlight(o, uy) /\ ~ (o = op /\ uy = ct[c].type) => InFlight(o, uy)'
  BY TypeParts, ThunkOf, Finishes DEF Inv

LEMMA CredPressInv ==
    ASSUME Inv, PidTypeOK, NEW c \in CThunk, CredPress(c)
    PROVE  Inv'
<1>0. /\ TypedRest /\ {"credential", "status", "trustmark"} = Op
      /\ "loading" \in Status /\ Inv
  BY TypeParts DEF Inv, Op, Status
<1>1. ASSUME NEW ty \in Type, PressCredential(c, ty) PROVE Inv'
  <2>1. PICK pc, arg :
          /\ CStart(c, "credential", pc, ty, arg)
          /\ IsThunk([op |-> "credential", pc |-> pc, type |-> ty, arg |-> arg])
    <3>1. CASE CStart(c, "credential", "attest", ty, None)
      BY <3>1, NewThunks
    <3>2. CASE pid # None /\ CStart(c, "credential", "request", ty, pid)
      BY <3>2, NewThunks DEF PidTypeOK
    <3>3. CASE pid = None /\ CStart(c, "credential", "reject", ty, None)
      BY <3>3, NewThunks
    <3> QED
      BY <1>1, <3>1, <3>2, <3>3 DEF PressCredential
  <2>2. /\ TypedThunks' /\ InFlight("credential", ty)'
        /\ \A o \in Op, uy \in Type : InFlight(o, uy) => InFlight(o, uy)'
    BY <1>0, <2>1, CStarts
  <2>3. /\ credentialsAsyncStatus' = [credentialsAsyncStatus EXCEPT ![ty] = "loading"]
        /\ UNCHANGED <<credentials, statusAttestation, statusAttAsyncStatus,
                       trustmark, trustmarkAsyncStatus, credDisk, issued, qr>>
    BY <1>1 DEF PressCredential, Unchanged3, statusPart, trustmarkPart
  <2>4. TypedRest'
    BY <1>0, <2>3 DEF TypedRest
  <2>5. DoneMeansPresent'
    BY <1>0, <2>3 DEF Inv, DoneMeansPresent, TypeOK
  <2> QED
    BY <1>0, <2>2, <2>3, <2>4, <2>5, Advance DEF SetIf
<1>2. ASSUME NEW ty \in Type, PressStatusAttestation(c, ty) PROVE Inv'
  <2>1. /\ CStart(c, "status", "request", ty, credentials[ty])
        /\ credentials[ty] \in Credential
    BY <1>0, <1>2 DEF PressStatusAttestation, TypedRest, Results
  <2>2. /\ TypedThunks' /\ InFlight("status", ty)'
        /\ \A o \in Op, uy \in Type : InFlight(o, uy) => InFlight(o, uy)'
    BY <1>0, <2>1, NewThunks, CStarts
  <2>3. /\ statusAttAsyncStatus' = [statusAttAsyncStatus EXCEPT ![ty] = "loading"]
        /\ UNCHANGED <<credentials, credentialsAsyncStatus, statusAttestation,
                       trustmark, trustmarkAsyncStatus, credDisk, issued, qr>>
    BY <1>2 DEF PressStatusAttestation, Unchanged3, credentialPart, trustmarkPart
  <2>4. TypedRest'
    BY <1>0, <2>3 DEF TypedRest
  <2>5. DoneMeansPresent'
    BY <1>0, <2>3 DEF Inv, DoneMeansPresent, TypeOK
  <2> QED
    BY <1>0, <2>2, <2>3, <2>4, <2>5, Advance DEF SetIf
<1>3. ASSUME NEW ty \in Type, OpenQr(c, ty) PROVE Inv'
  <2>1. /\ CStart(c, "trustmark", "request", ty, credentials[ty])
        /\ credentials[ty] \in Credential
    BY <1>0, <1>3 DEF OpenQr, TypedRest, Results
  <2>2. /\ TypedThunks' /\ InFlight("trustmark", ty)'
        /\ \A o \in Op, uy \in Type : InFlight(o, uy) => InFlight(o, uy)'
    BY <1>0, <2>1, NewThunks, CStarts
  <2>3. /\ trustmarkAsyncStatus' = [trustmarkAsyncStatus EXCEPT ![ty] = "loading"]
        /\ qr' = [type |-> ty, cred |-> credentials[ty]]
        /\ UNCHANGED <<credentials, credentialsAsyncStatus, statusAttestation,
                       statusAttAsyncStatus, trustmark, credDisk, issued>>
    BY <1>3 DEF OpenQr, credentialPart, statusPart
  <2>4. TypedRest'
    BY <1>0, <2>1, <2>3 DEF TypedRest
  <2>5. DoneMeansPresent'
    BY <1>0, <2>3 DEF Inv, DoneMeansPresent
  <2> QED
    BY <1>0, <2>2, <2>3, <2>4, <2>5, Advance DEF SetIf
<1> QED
  BY <1>1, <1>2, <1>3 DEF CredPress

LEMMA CredStepInv ==
    ASSUME Inv, PidTypeOK, NEW c \in CThunk, CredStep(c)
    PROVE  Inv'
<1>0. /\ TypedRest /\ TypedThunks /\ {"credential", "status", "trustmark"} = Op
      /\ "done" \in Status /\ "error" \in Status /\ "done" # "loading"
      /\ "error" # "loading"
      /\ None \notin Credential
  BY TypeParts, CredentialAssumption DEF Inv, Op, Status, Credential
<1> DEFINE ty == ct[c].type
<1>1. CASE CredentialAttested(c)
  <2>1. ct[c].op = "credential" /\ ty \in Type /\ ct[c].pc = "attest"
    BY <1>0, <1>1, ThunkOf DEF CredentialAttested, CAt
  <2>2. PICK pc, new :
          /\ new = [ct[c] EXCEPT !.pc = pc, !.arg = pid]
          /\ pc = IF pid = None THEN "reject" ELSE "request"
    OBVIOUS
  <2>3. ct[c] \in Waiting
    BY <1>0, <2>1 DEF TypedThunks, IsThunk, CIdle
  <2>4. IsThunk(new) /\ new.op = "credential" /\ new.type = ty
    BY <2>1, <2>2, <2>3 DEF Waiting, Requesting, IsThunk, PidTypeOK
  <2>5. ct' = [ct EXCEPT ![c] = new]
    BY <1>1, <2>2, <1>0 DEF CredentialAttested, TypedThunks
  <2>6. /\ ct' = [d \in CThunk |-> ct'[d]] /\ ct'[c] = new
        /\ \A d \in CThunk \ {c} : ct'[d] = ct[d]
    BY <1>0, <2>5 DEF TypedThunks
  <2>7. TypedThunks' /\ \A o \in Op, uy \in Type : InFlight(o, uy) => InFlight(o, uy)'
    BY <1>0, <2>1, <2>4, <2>6 DEF TypedThunks, InFlight
  <2>8. UNCHANGED <<credSlice, credDisk, issued, qr>>
    BY <1>1 DEF CredentialAttested, credentialPart, Unchanged3, statusPart,
                trustmarkPart, credSlice
  <2>9. TypedRest' /\ DoneMeansPresent'
    BY <1>0, <2>8 DEF Inv, DoneMeansPresent, TypedRest, credSlice
  <2> QED
    BY <2>7, <2>8, <2>9, Stays DEF credSlice
<1>2. CASE GetCredentialFulfilled(c)
  <2>1. ct[c].op = "credential" /\ ct[c].arg \in Flow /\ CEnd(c)
    BY <1>0, <1>2, ThunkOf DEF GetCredentialFulfilled, CAt
  <2>2. /\ TypedThunks' /\ ty \in Type
        /\ \A o \in Op, uy \in Type :
             InFlight(o, uy) /\ ~ (o = "credential" /\ uy = ty) => InFlight(o, uy)'
    BY <1>0, <2>1, CEnds
  <2>3. PICK new : new = [n |-> issued + 1, pid |-> ct[c].arg]
    OBVIOUS
  <2>4. issued' \in 0 .. MaxCred /\ issued + 1 \in 1 .. MaxCred
    BY <1>0, <1>2, CredentialAssumption DEF GetCredentialFulfilled, TypedRest
  <2>5. new \in Credential
    BY <2>1, <2>3, <2>4 DEF Credential
  <2>6. /\ credentials' = [credentials EXCEPT ![ty] = new]
        /\ credentialsAsyncStatus' = [credentialsAsyncStatus EXCEPT ![ty] = "done"]
        /\ UNCHANGED <<statusAttestation, statusAttAsyncStatus, trustmark,
                       trustmarkAsyncStatus, credDisk, qr>>
    BY <1>2, <2>3 DEF GetCredentialFulfilled, statusPart, trustmarkPart
  <2>7. TypedRest'
    BY <1>0, <2>2, <2>4, <2>5, <2>6 DEF TypedRest, Results
  <2>8. DoneMeansPresent'
    BY <1>0, <2>2, <2>5, <2>6 DEF Inv, DoneMeansPresent, TypeOK
  <2> QED
    BY <1>0, <2>2, <2>6, <2>7, <2>8, Advance DEF SetIf
<1>3. CASE GetCredentialRejected(c)
  <2>1. ct[c].op = "credential" /\ CEnd(c)
    BY <1>3 DEF GetCredentialRejected
  <2>2. /\ TypedThunks' /\ ty \in Type
        /\ \A o \in Op, uy \in Type :
             InFlight(o, uy) /\ ~ (o = "credential" /\ uy = ty) => InFlight(o, uy)'
    BY <1>0, <2>1, CEnds
  <2>3. /\ credentialsAsyncStatus' = [credentialsAsyncStatus EXCEPT ![ty] = "error"]
        /\ UNCHANGED <<credentials, statusAttestation, statusAttAsyncStatus,
                       trustmark, trustmarkAsyncStatus, credDisk, issued, qr>>
    BY <1>3 DEF GetCredentialRejected, Unchanged3, statusPart, trustmarkPart
  <2>4. TypedRest'
    BY <1>0, <2>3 DEF TypedRest
  <2>5. DoneMeansPresent'
    BY <2>2, <2>3 DEF Inv, DoneMeansPresent, TypeOK
  <2>6. "error" \in Status /\ "error" # "loading"
    BY <1>0
  <2>7. /\ credentialsAsyncStatus' =
              SetIf("credential" = "credential", credentialsAsyncStatus, ty, "error")
        /\ statusAttAsyncStatus' = SetIf("credential" = "status", statusAttAsyncStatus, ty, "error")
        /\ trustmarkAsyncStatus' =
              SetIf("credential" = "trustmark", trustmarkAsyncStatus, ty, "error")
    BY <2>3 DEF SetIf
  <2> QED
    BY <1>0, <2>2, <2>4, <2>5, <2>6, <2>7, Advance
<1>4. CASE StatusAttestationFulfilled(c)
  <2>1. ct[c].op = "status" /\ ct[c].arg \in Credential /\ CEnd(c)
    BY <1>0, <1>4, ThunkOf DEF StatusAttestationFulfilled, CAt
  <2>2. /\ TypedThunks' /\ ty \in Type
        /\ \A o \in Op, uy \in Type :
             InFlight(o, uy) /\ ~ (o = "status" /\ uy = ty) => InFlight(o, uy)'
    BY <1>0, <2>1, CEnds
  <2>3. /\ statusAttestation' = [statusAttestation EXCEPT ![ty] = ct[c].arg]
        /\ statusAttAsyncStatus' = [statusAttAsyncStatus EXCEPT ![ty] = "done"]
        /\ UNCHANGED <<credentials, credentialsAsyncStatus, trustmark,
                       trustmarkAsyncStatus, credDisk, issued, qr>>
    BY <1>4 DEF StatusAttestationFulfilled, Unchanged3, credentialPart, trustmarkPart
  <2>4. TypedRest'
    BY <1>0, <2>1, <2>2, <2>3 DEF TypedRest, Results
  <2>5. DoneMeansPresent'
    BY <1>0, <2>1, <2>2, <2>3 DEF Inv, DoneMeansPresent, TypeOK
  <2> QED
    BY <1>0, <2>2, <2>3, <2>4, <2>5, Advance DEF SetIf
<1>5. CASE StatusAttestationRejected(c)
  <2>1. ct[c].op = "status" /\ CEnd(c)
    BY <1>5 DEF StatusAttestationRejected
  <2>2. /\ TypedThunks' /\ ty \in Type
        /\ \A o \in Op, uy \in Type :
             InFlight(o, uy) /\ ~ (o = "status" /\ uy = ty) => InFlight(o, uy)'
    BY <1>0, <2>1, CEnds
  <2>3. /\ statusAttAsyncStatus' = [statusAttAsyncStatus EXCEPT ![ty] = "error"]
        /\ UNCHANGED <<credentials, credentialsAsyncStatus, statusAttestation,
                       trustmark, trustmarkAsyncStatus, credDisk, issued, qr>>
    BY <1>5 DEF StatusAttestationRejected, Unchanged3, credentialPart, trustmarkPart
  <2>4. TypedRest'
    BY <1>0, <2>3 DEF TypedRest
  <2>5. DoneMeansPresent'
    BY <2>2, <2>3 DEF Inv, DoneMeansPresent, TypeOK
  <2>6. "error" \in Status /\ "error" # "loading"
    BY <1>0
  <2>7. /\ credentialsAsyncStatus' =
              SetIf("status" = "credential", credentialsAsyncStatus, ty, "error")
        /\ statusAttAsyncStatus' = SetIf("status" = "status", statusAttAsyncStatus, ty, "error")
        /\ trustmarkAsyncStatus' =
              SetIf("status" = "trustmark", trustmarkAsyncStatus, ty, "error")
    BY <2>3 DEF SetIf
  <2> QED
    BY <1>0, <2>2, <2>4, <2>5, <2>6, <2>7, Advance
<1>6. CASE TrustmarkFulfilled(c) \/ TrustmarkRejected(c)
  <2>1. ct[c].op = "trustmark" /\ ct[c].arg \in Credential /\ CEnd(c)
    BY <1>0, <1>6, ThunkOf DEF TrustmarkFulfilled, TrustmarkRejected, CAt
  <2>2. /\ TypedThunks' /\ ty \in Type
        /\ \A o \in Op, uy \in Type :
             InFlight(o, uy) /\ ~ (o = "trustmark" /\ uy = ty) => InFlight(o, uy)'
    BY <1>0, <2>1, CEnds
  <2>3. PICK st \in {"done", "error"} :
            trustmarkAsyncStatus' = [trustmarkAsyncStatus EXCEPT ![ty] = st]
    BY <1>6 DEF TrustmarkFulfilled, TrustmarkRejected
  <2>4. /\ trustmark' \in {trustmark, [trustmark EXCEPT ![ty] = ct[c].arg]}
        /\ UNCHANGED <<credentials, credentialsAsyncStatus, statusAttestation,
                       statusAttAsyncStatus, credDisk, issued, qr>>
    BY <1>6 DEF TrustmarkFulfilled, TrustmarkRejected, Unchanged3, credentialPart,
                statusPart
  <2>5. TypedRest'
    BY <1>0, <2>1, <2>2, <2>4 DEF TypedRest, Results
  <2>6. DoneMeansPresent'
    BY <2>4 DEF Inv, DoneMeansPresent
  <2>7. st \in Status /\ st # "loading"
    BY <2>3 DEF Status
  <2> QED
    BY <1>0, <2>2, <2>3, <2>4, <2>5, <2>6, <2>7, Advance DEF SetIf
<1> QED
  BY <1>1, <1>2, <1>3, <1>4, <1>5, <1>6 DEF CredStep

LEMMA QrInv ==
    ASSUME Inv, NEW c \in CThunk, QrEffect(c)
    PROVE  Inv'
<1>0. /\ TypedRest /\ TypedThunks /\ {"credential", "status", "trustmark"} = Op
      /\ "loading" \in Status
  BY TypeParts DEF Inv, Op, Status
<1> DEFINE ty == qr.type
<1>1. /\ qr \in [type : Type, cred : Credential \cup {None}] /\ ty \in Type
      /\ qr' = [qr EXCEPT !.cred = credentials[ty]]
      /\ trustmark' \in {trustmark, trustmarkReset(ty)}
      /\ UNCHANGED <<credentials, credentialsAsyncStatus, statusAttestation,
                     statusAttAsyncStatus, credDisk, issued>>
  BY <1>0 DEF QrEffect, TypedRest, credentialPart, statusPart
<1>2. TypedRest'
  <2>1. credentials[ty] \in Credential \cup {None}
    BY <1>0, <1>1 DEF TypedRest, Results
  <2>2. qr' \in [type : Type, cred : Credential \cup {None}]
    BY <1>1, <2>1
  <2>3. trustmark' \in Results
    BY <1>0, <1>1 DEF TypedRest, Results, trustmarkReset
  <2> QED
    BY <1>0, <1>1, <2>2, <2>3 DEF TypedRest
<1>3. DoneMeansPresent'
  BY <1>1 DEF Inv, DoneMeansPresent
<1>4. CASE credentials[ty] = None
  <2>1. UNCHANGED <<ct, trustmarkAsyncStatus>>
    BY <1>4 DEF QrEffect
  <2>2. TypedThunks' /\ \A o \in Op, uy \in Type : InFlight(o, uy) => InFlight(o, uy)'
    BY <1>0, <2>1 DEF TypedThunks, InFlight
  <2> QED
    BY <1>1, <1>2, <1>3, <2>1, <2>2, Stays
<1>5. CASE credentials[ty] # None
  <2>1. /\ CStart(c, "trustmark", "request", ty, credentials[ty])
        /\ trustmarkAsyncStatus' = [trustmarkAsyncStatus EXCEPT ![ty] = "loading"]
    BY <1>5 DEF QrEffect
  <2>2. credentials[ty] \in Credential
    BY <1>0, <1>1, <1>5 DEF TypedRest, Results
  <2>3. /\ TypedThunks' /\ InFlight("trustmark", ty)'
        /\ \A o \in Op, uy \in Type : InFlight(o, uy) => InFlight(o, uy)'
    BY <1>0, <1>1, <2>1, <2>2, NewThunks, CStarts
  <2> QED
    BY <1>0, <1>1, <1>2, <1>3, <2>1, <2>3, Advance DEF SetIf
<1> QED
  BY <1>4, <1>5

LEMMA NextInv == Inv /\ PidTypeOK /\ [Next]_vars => Inv'
<1> SUFFICES ASSUME Inv, PidTypeOK, [Next]_vars PROVE Inv'
  OBVIOUS
<1>0. TypedRest /\ TypedThunks
  BY TypeParts DEF Inv
<1>1. ASSUME UNCHANGED ct
      PROVE  /\ TypedThunks'
             /\ \A o \in Op, uy \in Type : InFlight(o, uy) => InFlight(o, uy)'
  BY <1>0, <1>1 DEF TypedThunks, InFlight
<1>2. ASSUME NEW c \in CThunk, CredPress(c) \/ CredStep(c) \/ QrEffect(c)
      PROVE  Inv'
  BY <1>2, CredPressInv, CredStepInv, QrInv
<1>3. ASSUME initialState, UNCHANGED <<credDisk, ct, issued>>, qr' \in {None, qr}
      PROVE  Inv'
  <2>1. TypedRest'
    BY <1>0, <1>3, Initials DEF TypedRest, initialState
  <2> QED
    BY <1>1, <1>3, <2>1, Clears DEF initialState
<1>4. ASSUME UNCHANGED <<credSlice, ct, issued, qr>>, credDisk' \in Results
      PROVE  Inv'
  <2>1. TypedRest' /\ DoneMeansPresent'
    BY <1>0, <1>4 DEF Inv, DoneMeansPresent, TypedRest, credSlice
  <2> QED
    BY <1>1, <1>4, <2>1, Stays DEF credSlice
<1>5. CASE PidMoves
  BY <1>0, <1>3, <1>4, <1>5 DEF PidMoves, TypedRest
<1>6. CASE ResetAll
  BY <1>3, <1>6 DEF ResetAll
<1>7. CASE PersistCredentials
  BY <1>0, <1>4, <1>7 DEF PersistCredentials, TypedRest
<1>8. CASE RestartAll
  <2>1. TypedRest'
    BY <1>0, <1>8, Initials DEF RestartAll, TypedRest
  <2>2. TypedThunks'
    BY <1>8, Initials DEF RestartAll, TypedThunks
  <2> QED
    BY <1>8, <2>1, <2>2, Clears DEF RestartAll
<1>9. CASE CloseQr
  <2>1. /\ qr \in [type : Type, cred : Credential \cup {None}] /\ qr' = None
        /\ trustmark' \in {trustmark, trustmarkReset(qr.type)}
        /\ UNCHANGED <<trustmarkAsyncStatus, credentials, credentialsAsyncStatus,
                       statusAttestation, statusAttAsyncStatus, credDisk, ct, issued>>
    BY <1>0, <1>9 DEF CloseQr, TypedRest, credentialPart, statusPart
  <2>2. trustmark' \in Results
    BY <1>0, <2>1 DEF TypedRest, Results, trustmarkReset
  <2>3. TypedRest' /\ DoneMeansPresent'
    BY <1>0, <2>1, <2>2 DEF Inv, DoneMeansPresent, TypedRest
  <2> QED
    BY <1>1, <2>1, <2>3, Stays
<1>10. CASE UNCHANGED vars
  BY <1>0, <1>4, <1>10 DEF vars, credVars, TypedRest
<1> QED
  BY <1>2, <1>5, <1>6, <1>7, <1>8, <1>9, <1>10 DEF Next

(* The credential slice is reset by actions of other slices and by the PID *)
(* thunks, and only a part of it is persisted: all the same, a status is   *)
(* loading only while a thunk of its kind and type is in flight, and what  *)
(* is done is in the store.                                                *)
THEOREM CredentialSliceSafe ==
    Spec => [](TypeOK /\ LoadingHasThunk /\ DoneMeansPresent)
<1>1. Spec => []PidTypeOK
  BY ComposedPidFlow, PidSliceSafe, PTL
<1>2. Inv => TypeOK /\ LoadingHasThunk /\ DoneMeansPresent
  BY DEF Inv
<1> QED
  BY <1>1, <1>2, InitInv, NextInv, PTL DEF Spec
=============================================================================
