--------------------------- MODULE WalletInstance ---------------------------
(***************************************************************************)
(* The life of a wallet instance and of its attestation (WIA): the library *)
(* calls of src/src/wallet-instance and src/src/wallet-instance-attestation*)
(* as the application drives them (thunks and Redux slices under           *)
(* src/example/src), and the trustmark, which is signed with the WIA key.  *)
(*                                                                         *)
(* A thunk is a JavaScript async function: between two awaits it runs      *)
(* alone, at every await any other thunk, a reset of the store, the        *)
(* persistence layer, the clock or a crash may come in.  Each action below *)
(* is the code between two awaits.                                         *)
(***************************************************************************)
EXTENDS Naturals

CONSTANTS
    Thunk,      \* slots for thunks in flight at the same time
    None,       \* undefined
    MaxKey,     \* bound: WIA keys generated in a behaviour
    MaxTag,     \* bound: hardware keys generated in a behaviour
    MaxTime,    \* bound: the clock
    Ttl         \* validity of an attestation

Key == 1 .. MaxKey
Tag == 1 .. MaxTag

(* The claims of a WIA that the code reads: the thumbprint of cnf.jwk and  *)
(* exp.  The provider put them in; tag is the instance it was issued to.   *)
Wia == [key : Key, tag : Tag, exp : 0 .. (MaxTime + Ttl)]

Trustmark == [iss : Wia, sig : Key]

ASSUME WalletAssumption ==
    /\ MaxKey \in Nat /\ MaxTag \in Nat /\ MaxTime \in Nat /\ Ttl \in Nat
    /\ None \notin Key \cup Tag \cup Wia \cup BOOLEAN \cup Trustmark

VARIABLES
    wiaKey,     \* device: the key stored under WIA_KEYTAG, or None
    keys,       \* device: how many WIA keys were generated
    tags,       \* device: how many hardware keys were generated
    registered, \* provider: the state of each instance
    now,        \* the clock
    keyTag,     \* store: instance.keyTag
    instanceStatus, revocationStatus, attestationStatus,    \* store: asyncStatus
    attestation,    \* store: attestation.attestation
    disk,       \* what redux-persist wrote of the two slices
    memo,       \* the cached input and output of shouldRequestAttestationSelector
    th,         \* the thunks in flight
    trustmark,  \* the last trustmark returned
    disturbed   \* history: the last delete took a key another thunk had made

device == <<wiaKey, keys, tags>>
instanceSlice == <<keyTag, instanceStatus, revocationStatus>>
attestationSlice == <<attestation, attestationStatus>>
vars == <<device, registered, now, instanceSlice, attestationSlice, disk, memo,
          th, trustmark, disturbed>>

Idle == [op |-> "none", pc |-> "idle", tag |-> None, cnf |-> None,
         sig |-> None, wia |-> None]

Status == {"initial", "loading", "done", "error"}

Init ==
    /\ wiaKey = None /\ keys = 0 /\ tags = 0
    /\ registered = [g \in Tag |-> "unknown"]
    /\ now = 0
    /\ keyTag = None
    /\ instanceStatus = "initial" /\ revocationStatus = "initial"
    /\ attestation = None /\ attestationStatus = "initial"
    /\ disk = [keyTag |-> None, attestation |-> None]
    /\ memo = [of |-> None, result |-> None]
    /\ th = [t \in Thunk |-> Idle]
    /\ trustmark = None
    /\ disturbed = FALSE

-----------------------------------------------------------------------------
(* Control of one thunk.                                                   *)

At(t, pc) == th[t].pc = pc
Goto(t, pc) == th' = [th EXCEPT ![t].pc = pc]
End(t) == th' = [th EXCEPT ![t] = Idle]
Start(t, op, pc) == th' = [th EXCEPT ![t] = [Idle EXCEPT !.op = op, !.pc = pc]]

-----------------------------------------------------------------------------
(* The slices.                                                             *)

(* The attestation slice goes back to initialState, as it does on          *)
(* instanceReset and on sessionReset.                                      *)
AttestationReset == attestation' = None /\ attestationStatus' = "initial"

(* now > expiryDate: an attestation is still good at its expiry instant.   *)
Expired(wia) == now > wia.exp

(* createSelector recomputes only when its input selector returns a        *)
(* different value: time alone never makes it recompute.                   *)
ShouldRequestAttestation_Early ==
    IF memo.result # None /\ memo.of = attestation THEN memo.result
    ELSE IF attestation = None THEN TRUE ELSE now + 1 > attestation.exp

ShouldRequestAttestation ==
    IF memo.result # None /\ memo.of = attestation THEN memo.result
    ELSE IF attestation = None THEN TRUE ELSE Expired(attestation)

CallSelector ==
    memo' = [of |-> attestation, result |-> ShouldRequestAttestation]

-----------------------------------------------------------------------------
(* createWalletInstanceThunk and createWalletInstance.                     *)

(* The screen: with an instance in the store, the user confirms that it is *)
(* reset before a new one is created.                                      *)
PressCreate(t) ==
    /\ At(t, "idle")
    /\ Start(t, "create", "create_key")
    /\ IF keyTag # None
       THEN keyTag' = None /\ revocationStatus' = "initial" /\ AttestationReset
       ELSE UNCHANGED <<keyTag, revocationStatus, attestationSlice>>
    /\ instanceStatus' = "loading"
    /\ UNCHANGED <<device, registered, now, disk, memo, trustmark, disturbed>>

CreateKey_StoresTag(t) ==
    /\ At(t, "create_key")
    /\ tags < MaxTag
    /\ tags' = tags + 1
    /\ keyTag' = tags + 1
    /\ th' = [th EXCEPT ![t].pc = "create_post", ![t].tag = tags + 1]
    /\ UNCHANGED <<wiaKey, keys, registered, now, instanceStatus,
                   revocationStatus, attestationSlice, disk, memo, trustmark,
                   disturbed>>

(* The integrity service is ready and a hardware key tag is generated; the *)
(* nonce and the key attestation that follow change nothing.               *)
CreateKey(t) ==
    /\ At(t, "create_key")
    /\ tags < MaxTag
    /\ tags' = tags + 1
    /\ th' = [th EXCEPT ![t].pc = "create_post", ![t].tag = tags + 1]
    /\ UNCHANGED <<wiaKey, keys, registered, now, instanceSlice,
                   attestationSlice, disk, memo, trustmark, disturbed>>

(* POST /wallet-instances reaches the provider.                            *)
CreatePost(t) ==
    /\ At(t, "create_post")
    /\ registered' = [registered EXCEPT ![th[t].tag] = "valid"]
    /\ Goto(t, "create_done")
    /\ UNCHANGED <<device, now, instanceSlice, attestationSlice, disk, memo,
                   trustmark, disturbed>>

CreateFulfilled(t) ==
    /\ At(t, "create_done")
    /\ keyTag' = th[t].tag
    /\ instanceStatus' = "done"
    /\ End(t)
    /\ UNCHANGED <<device, registered, now, revocationStatus,
                   attestationSlice, disk, memo, trustmark, disturbed>>

(* Any await failed: the integrity service, the nonce, the POST (409 and   *)
(* every other status are wrapped and thrown), or its answer was lost.     *)
CreateRejected(t) ==
    /\ th[t].pc \in {"create_key", "create_post", "create_done"}
    /\ instanceStatus' = "error"
    /\ End(t)
    /\ UNCHANGED <<device, registered, now, keyTag, revocationStatus,
                   attestationSlice, disk, memo, trustmark, disturbed>>

-----------------------------------------------------------------------------
(* revokeWalletInstanceThunk and revokeWalletInstance.                     *)

PressRevoke(t) ==
    /\ At(t, "idle")
    /\ revocationStatus' = "loading"
    /\ th' = [th EXCEPT ![t] = [Idle EXCEPT
            !.op = "revoke", !.tag = keyTag,
            !.pc = IF keyTag = None THEN "revoke_reject" ELSE "revoke_put"]]
    /\ UNCHANGED <<device, registered, now, keyTag, instanceStatus,
                   attestationSlice, disk, memo, trustmark, disturbed>>

RevokePut_NotAwaited(t) ==
    /\ At(t, "revoke_put")
    /\ Goto(t, "revoke_done")
    /\ UNCHANGED <<device, registered, now, instanceSlice, attestationSlice,
                   disk, memo, trustmark, disturbed>>

(* PUT /wallet-instances/{id}/status reaches the provider.                 *)
RevokePut(t) ==
    /\ At(t, "revoke_put")
    /\ registered' = [registered EXCEPT ![th[t].tag] = "revoked"]
    /\ Goto(t, "revoke_done")
    /\ UNCHANGED <<device, now, instanceSlice, attestationSlice, disk, memo,
                   trustmark, disturbed>>

(* instanceReset is dispatched, then the thunk's own fulfilled action.     *)
RevokeFulfilled(t) ==
    /\ At(t, "revoke_done")
    /\ keyTag' = None
    /\ instanceStatus' = "initial" /\ revocationStatus' = "done"
    /\ AttestationReset
    /\ End(t)
    /\ UNCHANGED <<device, registered, now, disk, memo, trustmark, disturbed>>

RevokeRejected(t) ==
    /\ th[t].pc \in {"revoke_reject", "revoke_put", "revoke_done"}
    /\ revocationStatus' = "error"
    /\ End(t)
    /\ UNCHANGED <<device, registered, now, keyTag, instanceStatus,
                   attestationSlice, disk, memo, trustmark, disturbed>>

-----------------------------------------------------------------------------
(* getAttestationThunk, regenerateCryptoKey and getAttestation.            *)

(* The thunk is dispatched by a button, or by a thunk that needs a WIA and *)
(* awaits it: op tells the two apart.                                      *)
AttestStart(t, op) ==
    /\ attestationStatus' = "loading"
    /\ th' = [th EXCEPT ![t] = [Idle EXCEPT
            !.op = op, !.tag = keyTag,
            !.pc = IF keyTag = None THEN "att_reject" ELSE "att_delete"]]

(* Once settled, an awaited dispatch lets its caller go on: it never       *)
(* throws, whatever the outcome of the thunk.                              *)
AttestReturn(t) ==
    th' = [th EXCEPT ![t] = IF th[t].op = "attest" THEN Idle
                            ELSE [Idle EXCEPT !.op = th[t].op, !.pc = "select"]]

PressAttest(t) ==
    /\ At(t, "idle")
    /\ AttestStart(t, "attest")
    /\ UNCHANGED <<device, registered, now, instanceSlice, attestation, disk,
                   memo, trustmark, disturbed>>

(* From its generate to the end of the thunk, a refresh counts on its key. *)
HoldsKey == {"att_request", "att_sign", "att_token", "att_done"}

(* deleteKeyIfExists: a missing key is not an error.                       *)
AttestDelete(t) ==
    /\ At(t, "att_delete")
    /\ wiaKey' = None
    /\ disturbed' = \E u \in Thunk \ {t} : th[u].pc \in HoldsKey
    /\ Goto(t, "att_generate")
    /\ UNCHANGED <<keys, tags, registered, now, instanceSlice,
                   attestationSlice, disk, memo, trustmark>>

AttestGenerate_Overwrites(t) ==
    /\ At(t, "att_generate")
    /\ keys < MaxKey
    /\ keys' = keys + 1 /\ wiaKey' = keys + 1
    /\ Goto(t, "att_request")
    /\ UNCHANGED <<tags, registered, now, instanceSlice, attestationSlice,
                   disk, memo, trustmark, disturbed>>

(* generate throws when the tag already has a key.                         *)
AttestGenerate(t) ==
    /\ At(t, "att_generate")
    /\ IF wiaKey # None
       THEN Goto(t, "att_reject") /\ UNCHANGED <<wiaKey, keys>>
       ELSE /\ keys < MaxKey
            /\ keys' = keys + 1 /\ wiaKey' = keys + 1
            /\ Goto(t, "att_request")
    /\ UNCHANGED <<tags, registered, now, instanceSlice, attestationSlice,
                   disk, memo, trustmark, disturbed>>

(* With the nonce, getAttestationRequest reads the public key ...          *)
AttestRequest(t) ==
    /\ At(t, "att_request")
    /\ th' = [th EXCEPT ![t].cnf = wiaKey,
            ![t].pc = IF wiaKey = None THEN "att_reject" ELSE "att_sign"]
    /\ UNCHANGED <<device, registered, now, instanceSlice, attestationSlice,
                   disk, memo, trustmark, disturbed>>

(* ... and, after the hardware signature, signs with whatever key the tag  *)
(* names by then.                                                          *)
AttestSign(t) ==
    /\ At(t, "att_sign")
    /\ th' = [th EXCEPT ![t].sig = wiaKey,
            ![t].pc = IF wiaKey = None THEN "att_reject" ELSE "att_token"]
    /\ UNCHANGED <<device, registered, now, instanceSlice, attestationSlice,
                   disk, memo, trustmark, disturbed>>

(* POST /token reaches the provider, which answers 403 for a revoked       *)
(* instance, 404 for an unknown one and an error for a request that is not *)
(* signed by the key it carries.                                           *)
AttestToken(t) ==
    LET request == th[t] IN
    /\ At(t, "att_token")
    /\ th' = [th EXCEPT ![t] =
            IF registered[request.tag] = "valid" /\ request.sig = request.cnf
            THEN [request EXCEPT !.pc = "att_done",
                    !.wia = [key |-> request.cnf, tag |-> request.tag,
                             exp |-> now + Ttl]]
            ELSE [request EXCEPT !.pc = "att_reject"]]
    /\ UNCHANGED <<device, registered, now, instanceSlice, attestationSlice,
                   disk, memo, trustmark, disturbed>>

AttestFulfilled(t) ==
    /\ At(t, "att_done")
    /\ attestation' = th[t].wia
    /\ attestationStatus' = "done"
    /\ AttestReturn(t)
    /\ UNCHANGED <<device, registered, now, instanceSlice, disk, memo,
                   trustmark, disturbed>>

AttestRejected_StatusKept(t) ==
    /\ th[t].pc \in {"att_delete", "att_generate", "att_request", "att_sign",
                     "att_token", "att_done", "att_reject"}
    /\ AttestReturn(t)
    /\ UNCHANGED <<device, registered, now, instanceSlice, attestationSlice,
                   disk, memo, trustmark, disturbed>>

(* Any await failed: the keystore, the nonce, the integrity service, the   *)
(* token request or its answer.  The attestation in the store stays.       *)
AttestRejected(t) ==
    /\ th[t].pc \in {"att_delete", "att_generate", "att_request", "att_sign",
                     "att_token", "att_done", "att_reject"}
    /\ attestationStatus' = "error"
    /\ AttestReturn(t)
    /\ UNCHANGED <<device, registered, now, instanceSlice, attestation, disk,
                   memo, trustmark, disturbed>>

-----------------------------------------------------------------------------
(* The thunks that spend a WIA: getCredentialThunk, getPidCieIDThunk and   *)
(* preparePidFlowParamsThunk begin alike.                                  *)

(* What the thunk does once it holds the WIA is module Issuance.           *)
SelectAttestation(t, op) ==
    th' = [th EXCEPT ![t] =
        IF attestation = None THEN Idle
        ELSE [Idle EXCEPT !.op = op, !.pc = "using", !.wia = attestation]]

PressIssue(t) ==
    /\ At(t, "idle")
    /\ CallSelector
    /\ IF ShouldRequestAttestation
       THEN AttestStart(t, "issue")
       ELSE SelectAttestation(t, "issue") /\ UNCHANGED attestationStatus
    /\ UNCHANGED <<device, registered, now, instanceSlice, attestation, disk,
                   trustmark, disturbed>>

IssueSelect(t) ==
    /\ At(t, "select")
    /\ SelectAttestation(t, "issue")
    /\ UNCHANGED <<device, registered, now, instanceSlice, attestationSlice,
                   disk, memo, trustmark, disturbed>>

IssueEnd(t) ==
    /\ At(t, "using")
    /\ End(t)
    /\ UNCHANGED <<device, registered, now, instanceSlice, attestationSlice,
                   disk, memo, trustmark, disturbed>>

-----------------------------------------------------------------------------
(* getTrustmarkThunk and getCredentialTrustmark.                           *)

PressTrustmark(t) ==
    /\ At(t, "idle")
    /\ attestation # None
    /\ th' = [th EXCEPT ![t] = [Idle EXCEPT
            !.op = "trustmark", !.pc = "tm_check", !.wia = attestation]]
    /\ UNCHANGED <<device, registered, now, instanceSlice, attestationSlice,
                   disk, memo, trustmark, disturbed>>

(* The public key is read, then the WIA is decoded (its signature is not   *)
(* verified), its expiry checked and the two thumbprints compared.         *)
TrustmarkCheck(t) ==
    /\ At(t, "tm_check")
    /\ IF wiaKey # None /\ ~ Expired(th[t].wia) /\ th[t].wia.key = wiaKey
       THEN th' = [th EXCEPT ![t].pc = "tm_sign", ![t].cnf = wiaKey]
       ELSE End(t)
    /\ UNCHANGED <<device, registered, now, instanceSlice, attestationSlice,
                   disk, memo, trustmark, disturbed>>

(* The JWT is signed with the key the tag names when the signature is made.*)
TrustmarkSign(t) ==
    /\ At(t, "tm_sign")
    /\ End(t)
    /\ trustmark' = IF wiaKey = None THEN trustmark
                    ELSE [iss |-> th[t].wia, sig |-> wiaKey]
    /\ UNCHANGED <<device, registered, now, instanceSlice, attestationSlice,
                   disk, memo, disturbed>>

-----------------------------------------------------------------------------
(* The rest of the application and its environment.                        *)

(* Logging out dispatches sessionReset, switching environment dispatches   *)
(* instanceReset: neither waits for the thunks in flight.                  *)
Reset ==
    /\ keyTag' = None
    /\ instanceStatus' = "initial" /\ revocationStatus' = "initial"
    /\ AttestationReset
    /\ UNCHANGED <<device, registered, now, disk, memo, th, trustmark,
                   disturbed>>

(* redux-persist writes the whitelisted field of a slice some time after   *)
(* it changed; the two slices are kept in different storages.              *)
PersistInstance ==
    /\ disk.keyTag # keyTag
    /\ disk' = [disk EXCEPT !.keyTag = keyTag]
    /\ UNCHANGED <<device, registered, now, instanceSlice, attestationSlice,
                   memo, th, trustmark, disturbed>>

PersistAttestation ==
    /\ disk.attestation # attestation
    /\ disk' = [disk EXCEPT !.attestation = attestation]
    /\ UNCHANGED <<device, registered, now, instanceSlice, attestationSlice,
                   memo, th, trustmark, disturbed>>

(* The app is killed and started again: PersistGate rehydrates the store   *)
(* before any screen is shown.  The device's keys survive.                 *)
Restart ==
    /\ th' = [t \in Thunk |-> Idle]
    /\ keyTag' = disk.keyTag /\ attestation' = disk.attestation
    /\ instanceStatus' = "initial" /\ revocationStatus' = "initial"
    /\ attestationStatus' = "initial"
    /\ memo' = [of |-> None, result |-> None]
    /\ trustmark' = None
    /\ UNCHANGED <<device, registered, now, disk, disturbed>>

Tick ==
    /\ now < MaxTime
    /\ now' = now + 1
    /\ UNCHANGED <<device, registered, instanceSlice, attestationSlice, disk,
                   memo, th, trustmark, disturbed>>

Press(t) ==
    \/ PressCreate(t) \/ PressRevoke(t) \/ PressAttest(t)
    \/ PressIssue(t) \/ PressTrustmark(t)

Step(t) ==
    \/ CreateKey(t) \/ CreatePost(t) \/ CreateFulfilled(t) \/ CreateRejected(t)
    \/ RevokePut(t) \/ RevokeFulfilled(t) \/ RevokeRejected(t)
    \/ AttestDelete(t) \/ AttestGenerate(t) \/ AttestRequest(t)
    \/ AttestSign(t) \/ AttestToken(t) \/ AttestFulfilled(t)
    \/ AttestRejected(t)
    \/ IssueSelect(t) \/ IssueEnd(t)
    \/ TrustmarkCheck(t) \/ TrustmarkSign(t)

Next ==
    \/ \E t \in Thunk : Press(t) \/ Step(t)
    \/ Reset \/ PersistInstance \/ PersistAttestation \/ Restart \/ Tick

Spec == Init /\ [][Next]_vars

(* A promise of the platform (keystore, integrity service, fetch) settles  *)
(* one way or the other, and the event loop runs what awaits it.           *)
FairSpec == Spec /\ \A t \in Thunk : WF_vars(Step(t))

-----------------------------------------------------------------------------
ThunkState == [
    op : {"none", "create", "revoke", "attest", "issue", "trustmark"},
    pc : {"idle", "create_key", "create_post", "create_done", "revoke_put",
          "revoke_done", "revoke_reject", "att_delete", "att_generate",
          "att_request", "att_sign", "att_token", "att_done", "att_reject",
          "select", "using", "tm_check", "tm_sign"},
    tag : Tag \cup {None}, cnf : Key \cup {None}, sig : Key \cup {None},
    wia : Wia \cup {None}]

(* Type invariant.                                                         *)
TypeOK ==
    /\ wiaKey \in Key \cup {None} /\ keys \in 0 .. MaxKey /\ tags \in 0 .. MaxTag
    /\ registered \in [Tag -> {"unknown", "valid", "revoked"}]
    /\ now \in 0 .. MaxTime
    /\ keyTag \in Tag \cup {None} /\ attestation \in Wia \cup {None}
    /\ {instanceStatus, revocationStatus, attestationStatus} \subseteq Status
    /\ disk \in [keyTag : Tag \cup {None}, attestation : Wia \cup {None}]
    /\ memo \in [of : Wia \cup {None}, result : BOOLEAN \cup {None}]
    /\ th \in [Thunk -> ThunkState]
    /\ trustmark \in Trustmark \cup {None}
    /\ disturbed \in BOOLEAN

(* A key tag reaches the store and the disk only when the provider knows   *)
(* the instance: createWalletInstance never leaves behind, whatever fails  *)
(* or crashes, a tag every later attestation request would get a 404 for.  *)
StoredTagIsRegistered ==
    \A g \in {keyTag, disk.keyTag} \ {None} : registered[g] # "unknown"

(* The memoised selector errs on one side only: when it answers TRUE, the  *)
(* attestation it looked at really is missing or expired.                  *)
RefreshOnlyWhenNeeded ==
    ShouldRequestAttestation => attestation = None \/ Expired(attestation)

(* A revocation that shows as done was received by the provider: the tag   *)
(* it was started for names a revoked instance, whatever other thunks,     *)
(* resets and creations of instances came between its awaits.              *)
DoneMeansRevoked ==
    [][\A t \in Thunk :
        th[t].op = "revoke" /\ th'[t] = Idle /\ revocationStatus' = "done" =>
            registered[th[t].tag] = "revoked"]_vars

Refreshing == HoldsKey \cup {"att_delete", "att_generate", "att_reject"}

(* "done" on the attestation means that the attestation in the store       *)
(* belongs to the key the device holds, through failures, resets and       *)
(* restarts, once no refresh is under way: generate refuses a tag that has *)
(* a key, so of several refreshes one prevails.  The one thing that can    *)
(* make it false is a delete between the generate of another refresh and   *)
(* its end.                                                                *)
DoneMeansUsable ==
    attestationStatus = "done" /\ (\A t \in Thunk : th[t].pc \notin Refreshing)
            /\ ~ disturbed =>
        attestation # None /\ attestation.key = wiaKey

(* The checks of getCredentialTrustmark: the WIA carries the key that the  *)
(* trustmark is signed with.                                               *)
(* The code does not keep this (README, Findings).                         *)
TrustmarkSignedByWiaKey ==
    trustmark # None => trustmark.sig = trustmark.iss.key

(* Every operation that shows as loading stops loading, whichever of its   *)
(* awaits fails and whatever resets the store meanwhile.                   *)
LoadingEnds ==
    /\ (instanceStatus = "loading") ~> (instanceStatus # "loading")
    /\ (revocationStatus = "loading") ~> (revocationStatus # "loading")
    /\ (attestationStatus = "loading") ~> (attestationStatus # "loading")

(* The doc of shouldRequestAttestationSelector: it returns TRUE if the     *)
(* attestation is expired or not present.                                  *)
(* The code does not keep this (README, Findings).                         *)
SelectorIsExact ==
    attestation = None \/ Expired(attestation) => ShouldRequestAttestation

(* The comment of the attestation slice: its state is reset when the       *)
(* instance is reset.  A reset instance leaves no attestation behind.      *)
(* The code does not keep this (README, Findings).                         *)
NoAttestationWithoutInstance ==
    attestation # None => keyTag # None

(* The parameters of the issuance calls: the crypto context is the one     *)
(* associated with the attestation passed along with it.                   *)
(* The code does not keep this (README, Findings).                         *)
ContextMatchesAttestation ==
    \A t \in Thunk : At(t, "using") => th[t].wia.key = wiaKey
=============================================================================
