------------------------ MODULE WalletInstanceProofs ------------------------
(***************************************************************************)
(* For any number of thunks in flight, keys, instances and any clock: key  *)
(* tags in the store and on the disk name instances the provider knows,    *)
(* and the memoised selector never asks for a refresh that is not needed.  *)
(* Also, a "done" attestation belongs to the device's key unless a delete  *)
(* interfered, and a revocation that is done reached the provider.         *)
(***************************************************************************)
EXTENDS WalletInstance, TLAPS

HasTag == {"create_post", "create_done", "revoke_put", "revoke_done",
           "att_delete", "att_generate", "att_request", "att_sign",
           "att_token", "att_done"}
HasKey == {"att_sign", "att_token"}
HasWia == {"att_done", "using", "tm_check", "tm_sign"}

(* What a thunk holds at each of its steps.                                *)
Holds(t) ==
    /\ th[t].pc \in HasTag => th[t].tag # None
    /\ th[t].pc \in HasKey => th[t].cnf # None
    /\ th[t].pc \in HasWia => th[t].wia # None
    /\ th[t].pc = "create_done" => registered[th[t].tag] # "unknown"

(* A cached TRUE stays true: an expired attestation does not recover.      *)
MemoSound == memo.result = TRUE => memo.of = None \/ now > memo.of.exp

Inv ==
    /\ TypeOK /\ StoredTagIsRegistered /\ MemoSound
    /\ \A t \in Thunk : Holds(t)

(* Unless a delete took it, the key a refresh made is the device's key.    *)
OwnKey(t) ==
    ~ disturbed =>
        /\ th[t].pc \in HoldsKey => wiaKey # None
        /\ th[t].pc \in HasKey => th[t].cnf = wiaKey
        /\ th[t].pc = "att_done" => th[t].wia.key = wiaKey

RefreshInv == Inv /\ DoneMeansUsable /\ \A t \in Thunk : OwnKey(t)

(* A tag that is being registered is no other thunk's, and none that is    *)
(* known to the provider, so that no creation undoes a revocation.         *)
OwnTag(t) ==
    /\ th[t].op = "revoke" =>
        /\ th[t].pc \in {"revoke_put", "revoke_done", "revoke_reject"}
        /\ th[t].pc = "revoke_put" => registered[th[t].tag] # "unknown"
        /\ th[t].pc = "revoke_done" => registered[th[t].tag] = "revoked"
    /\ th[t].pc \in {"revoke_put", "revoke_done"} => th[t].op = "revoke"
    /\ th[t].pc = "create_post" =>
        /\ th[t].tag <= tags
        /\ registered[th[t].tag] = "unknown"
        /\ \A s \in Thunk \ {t} : th[s].pc = "create_post" => th[s].tag # th[t].tag

RevokeInv ==
    /\ Inv
    /\ \A g \in Tag : g > tags => registered[g] = "unknown"
    /\ \A t \in Thunk : OwnTag(t)

-----------------------------------------------------------------------------
(* What the token endpoint answers is an attestation.                      *)
LEMMA IssuedWia ==
    ASSUME TypeOK, NEW k \in Key, NEW g \in Tag
    PROVE  [key |-> k, tag |-> g, exp |-> now + Ttl] \in Wia
  BY WalletAssumption DEF TypeOK, Wia

LEMMA WithWia ==
    ASSUME NEW r \in ThunkState, NEW wia \in Wia
    PROVE  [r EXCEPT !.pc = "att_done", !.wia = wia] \in ThunkState
  BY DEF ThunkState

(* The selector returns a cached answer only if there is one.              *)
LEMMA SelectorIsBoolean ==
    ASSUME TypeOK PROVE ShouldRequestAttestation \in BOOLEAN
<1>1. memo.result # None => memo.result \in BOOLEAN
  BY DEF TypeOK
<1>2. (now > attestation.exp) \in BOOLEAN
  OBVIOUS
<1> QED
  BY <1>1, <1>2, Zenon DEF ShouldRequestAttestation, Expired

LEMMA WithTag ==
    ASSUME NEW r \in ThunkState, NEW g \in Tag
    PROVE  [r EXCEPT !.pc = "create_post", !.tag = g] \in ThunkState
  BY DEF ThunkState

(* Every step keeps the state in its domains.                              *)
LEMMA NextType == Inv /\ [Next]_vars => TypeOK'
<1> SUFFICES ASSUME Inv, [Next]_vars PROVE TypeOK'
  OBVIOUS
<1> USE WalletAssumption DEF Inv, TypeOK, ThunkState, Status, Idle, At, Goto, End,
        device, instanceSlice, attestationSlice
<1>1. ASSUME NEW t \in Thunk, PressCreate(t) PROVE TypeOK'
  BY <1>1, ZenonT(30) DEF PressCreate, Start, AttestationReset
<1>2. ASSUME NEW t \in Thunk, CreateKey(t) PROVE TypeOK'
  <2>1. tags + 1 \in Tag /\ tags + 1 \in 0 .. MaxTag
    BY <1>2 DEF CreateKey, Tag
  <2>2. [th[t] EXCEPT !.pc = "create_post", !.tag = tags + 1] \in ThunkState
    BY <2>1, WithTag
  <2>3. th' \in [Thunk -> ThunkState]
    BY <1>2, <2>2 DEF CreateKey
  <2> QED
    BY <1>2, <2>1, <2>3 DEF CreateKey
<1>3. ASSUME NEW t \in Thunk, CreatePost(t) PROVE TypeOK'
  <2>1. th[t].tag \in Tag
    BY <1>3 DEF CreatePost, Holds, HasTag
  <2>2. registered' \in [Tag -> {"unknown", "valid", "revoked"}]
    BY <1>3, <2>1 DEF CreatePost
  <2>3. th' \in [Thunk -> ThunkState]
    BY <1>3, SMTT(30) DEF CreatePost
  <2> QED
    BY <1>3, <2>2, <2>3 DEF CreatePost
<1>4. ASSUME NEW t \in Thunk, CreateFulfilled(t) PROVE TypeOK'
  BY <1>4 DEF CreateFulfilled
<1>5. ASSUME NEW t \in Thunk, CreateRejected(t) PROVE TypeOK'
  BY <1>5 DEF CreateRejected
<1>6. ASSUME NEW t \in Thunk, PressRevoke(t) PROVE TypeOK'
  BY <1>6, ZenonT(30) DEF PressRevoke
<1>7. ASSUME NEW t \in Thunk, RevokePut(t) PROVE TypeOK'
  <2>1. th[t].tag \in Tag
    BY <1>7 DEF RevokePut, Holds, HasTag
  <2>2. registered' \in [Tag -> {"unknown", "valid", "revoked"}]
    BY <1>7, <2>1 DEF RevokePut
  <2>3. th' \in [Thunk -> ThunkState]
    BY <1>7, SMTT(30) DEF RevokePut
  <2> QED
    BY <1>7, <2>2, <2>3 DEF RevokePut
<1>8. ASSUME NEW t \in Thunk, RevokeFulfilled(t) PROVE TypeOK'
  BY <1>8 DEF RevokeFulfilled, AttestationReset
<1>9. ASSUME NEW t \in Thunk, RevokeRejected(t) PROVE TypeOK'
  BY <1>9 DEF RevokeRejected
<1>10. ASSUME NEW t \in Thunk, PressAttest(t) PROVE TypeOK'
  <2>1. PICK pc \in {"att_reject", "att_delete"} :
            th' = [th EXCEPT ![t] = [Idle EXCEPT !.op = "attest", !.tag = keyTag, !.pc = pc]]
    BY <1>10 DEF PressAttest, AttestStart
  <2>2. th' \in [Thunk -> ThunkState]
    BY <2>1
  <2> QED
    BY <1>10, <2>2 DEF PressAttest, AttestStart
<1>11. ASSUME NEW t \in Thunk, AttestDelete(t) PROVE TypeOK'
  BY <1>11 DEF AttestDelete
<1>12. ASSUME NEW t \in Thunk, AttestGenerate(t) PROVE TypeOK'
  BY <1>12 DEF AttestGenerate, Key
<1>13. ASSUME NEW t \in Thunk, AttestRequest(t) PROVE TypeOK'
  BY <1>13 DEF AttestRequest
<1>14. ASSUME NEW t \in Thunk, AttestSign(t) PROVE TypeOK'
  BY <1>14 DEF AttestSign
<1>15. ASSUME NEW t \in Thunk, AttestToken(t) PROVE TypeOK'
  <2> DEFINE r == th[t]
             wia == [key |-> r.cnf, tag |-> r.tag, exp |-> now + Ttl]
  <2>1. wia \in Wia
    BY <1>15, IssuedWia DEF AttestToken, Holds, HasTag, HasKey
  <2> HIDE DEF wia
  <2>2. \/ th' = [th EXCEPT ![t] = [r EXCEPT !.pc = "att_done", !.wia = wia]]
        \/ th' = [th EXCEPT ![t] = [r EXCEPT !.pc = "att_reject"]]
    BY <1>15 DEF AttestToken, wia
  <2>3. [r EXCEPT !.pc = "att_done", !.wia = wia] \in ThunkState
    BY <2>1, WithWia
  <2>4. [r EXCEPT !.pc = "att_reject"] \in ThunkState
    OBVIOUS
  <2>5. th' \in [Thunk -> ThunkState]
    <3> HIDE DEF ThunkState
    <3> QED
      BY <2>2, <2>3, <2>4
  <2> QED
    BY <1>15, <2>5 DEF AttestToken
<1>16. ASSUME NEW t \in Thunk, AttestFulfilled(t) PROVE TypeOK'
  BY <1>16, ZenonT(30) DEF AttestFulfilled, AttestReturn
<1>17. ASSUME NEW t \in Thunk, AttestRejected(t) PROVE TypeOK'
  BY <1>17, ZenonT(30) DEF AttestRejected, AttestReturn
<1>18. ASSUME NEW t \in Thunk, PressIssue(t) PROVE TypeOK'
  <2>1. memo' \in [of : Wia \cup {None}, result : BOOLEAN \cup {None}]
    BY <1>18, SelectorIsBoolean DEF PressIssue, CallSelector
  <2>2. CASE ShouldRequestAttestation
    <3>1. AttestStart(t, "issue")
      BY <1>18, <2>2 DEF PressIssue
    <3>2. attestationStatus' \in Status /\ th' \in [Thunk -> ThunkState]
      BY <3>1 DEF AttestStart
    <3> QED
      BY <1>18, <2>1, <3>2 DEF PressIssue
  <2>3. CASE ~ ShouldRequestAttestation
    <3>1. SelectAttestation(t, "issue") /\ UNCHANGED attestationStatus
      BY <1>18, <2>3 DEF PressIssue
    <3>2. th' \in [Thunk -> ThunkState]
      BY <3>1 DEF SelectAttestation
    <3> QED
      BY <1>18, <2>1, <3>1, <3>2 DEF PressIssue
  <2> QED
    BY <2>2, <2>3
<1>19. ASSUME NEW t \in Thunk, IssueSelect(t) PROVE TypeOK'
  BY <1>19, ZenonT(30) DEF IssueSelect, SelectAttestation
<1>20. ASSUME NEW t \in Thunk, IssueEnd(t) PROVE TypeOK'
  BY <1>20 DEF IssueEnd
<1>21. ASSUME NEW t \in Thunk, PressTrustmark(t) PROVE TypeOK'
  BY <1>21 DEF PressTrustmark
<1>22. ASSUME NEW t \in Thunk, TrustmarkCheck(t) PROVE TypeOK'
  BY <1>22 DEF TrustmarkCheck, Expired
<1>23. ASSUME NEW t \in Thunk, TrustmarkSign(t) PROVE TypeOK'
  <2>1. th[t].wia \in Wia
    BY <1>23 DEF TrustmarkSign, Holds, HasWia
  <2>2. trustmark' \in Trustmark \cup {None}
    BY <1>23, <2>1 DEF TrustmarkSign, Trustmark
  <2> QED
    BY <1>23, <2>2 DEF TrustmarkSign
<1>24. CASE Reset
  BY <1>24 DEF Reset, AttestationReset
<1>25. CASE PersistInstance
  BY <1>25 DEF PersistInstance
<1>26. CASE PersistAttestation
  BY <1>26 DEF PersistAttestation
<1>27. CASE Restart
  BY <1>27 DEF Restart
<1>28. CASE Tick
  BY <1>28 DEF Tick
<1>29. CASE UNCHANGED vars
  BY <1>29 DEF vars
<1> QED
  BY <1>1, <1>2, <1>3, <1>4, <1>5, <1>6, <1>7, <1>8, <1>9, <1>10, <1>11, <1>12, <1>13, <1>14, <1>15, <1>16, <1>17, <1>18, <1>19, <1>20, <1>21, <1>22, <1>23, <1>24, <1>25, <1>26, <1>27, <1>28, <1>29 DEF Next, Press, Step

-----------------------------------------------------------------------------
(* Every step keeps the tags registered and the cached answer sound.       *)
LEMMA NextHolds ==
    Inv /\ [Next]_vars => StoredTagIsRegistered' /\ MemoSound' /\ \A t \in Thunk : Holds(t)'
<1> DEFINE Goal == StoredTagIsRegistered' /\ MemoSound' /\ \A s \in Thunk : Holds(s)'
<1> SUFFICES ASSUME Inv, [Next]_vars PROVE Goal
  OBVIOUS
<1> USE WalletAssumption DEF Inv, TypeOK, ThunkState, Idle, At, Goto, End, device,
        instanceSlice, attestationSlice
<1>1. ASSUME NEW t \in Thunk, PressCreate(t) PROVE Goal
  <2>1. StoredTagIsRegistered'
    BY <1>1 DEF PressCreate, Start, AttestationReset, StoredTagIsRegistered, Holds, HasTag
  <2>2. MemoSound'
    BY <1>1 DEF PressCreate, Start, AttestationReset, MemoSound
  <2>3. ASSUME NEW s \in Thunk PROVE Holds(s)'
    BY <1>1, <2>3 DEF PressCreate, Start, AttestationReset, Holds, HasTag, HasKey, HasWia
  <2> QED
    BY <2>1, <2>2, <2>3
<1>2. ASSUME NEW t \in Thunk, CreateKey(t) PROVE Goal
  <2>1. StoredTagIsRegistered'
    BY <1>2 DEF CreateKey, StoredTagIsRegistered, Holds, HasTag
  <2>2. MemoSound'
    BY <1>2 DEF CreateKey, MemoSound
  <2>3. ASSUME NEW s \in Thunk PROVE Holds(s)'
    <3>1. tags + 1 # None
      BY <1>2 DEF CreateKey, Tag
    <3> QED
      BY <1>2, <2>3, <3>1 DEF CreateKey, Holds, HasTag, HasKey, HasWia
  <2> QED
    BY <2>1, <2>2, <2>3
<1>3. ASSUME NEW t \in Thunk, CreatePost(t) PROVE Goal
  <2>1. StoredTagIsRegistered'
    BY <1>3 DEF CreatePost, StoredTagIsRegistered, Holds, HasTag
  <2>2. MemoSound'
    BY <1>3 DEF CreatePost, MemoSound
  <2>3. ASSUME NEW s \in Thunk PROVE Holds(s)'
    BY <1>3, <2>3 DEF CreatePost, Holds, HasTag, HasKey, HasWia
  <2> QED
    BY <2>1, <2>2, <2>3
<1>4. ASSUME NEW t \in Thunk, CreateFulfilled(t) PROVE Goal
  <2>1. StoredTagIsRegistered'
    BY <1>4 DEF CreateFulfilled, StoredTagIsRegistered, Holds, HasTag
  <2>2. MemoSound'
    BY <1>4 DEF CreateFulfilled, MemoSound
  <2>3. ASSUME NEW s \in Thunk PROVE Holds(s)'
    BY <1>4, <2>3 DEF CreateFulfilled, Holds, HasTag, HasKey, HasWia
  <2> QED
    BY <2>1, <2>2, <2>3
<1>5. ASSUME NEW t \in Thunk, CreateRejected(t) PROVE Goal
  <2>1. StoredTagIsRegistered'
    BY <1>5 DEF CreateRejected, StoredTagIsRegistered, Holds, HasTag
  <2>2. MemoSound'
    BY <1>5 DEF CreateRejected, MemoSound
  <2>3. ASSUME NEW s \in Thunk PROVE Holds(s)'
    BY <1>5, <2>3 DEF CreateRejected, Holds, HasTag, HasKey, HasWia
  <2> QED
    BY <2>1, <2>2, <2>3
<1>6. ASSUME NEW t \in Thunk, PressRevoke(t) PROVE Goal
  <2>1. StoredTagIsRegistered'
    BY <1>6 DEF PressRevoke, StoredTagIsRegistered, Holds, HasTag
  <2>2. MemoSound'
    BY <1>6 DEF PressRevoke, MemoSound
  <2>3. ASSUME NEW s \in Thunk PROVE Holds(s)'
    BY <1>6, <2>3 DEF PressRevoke, Holds, HasTag, HasKey, HasWia
  <2> QED
    BY <2>1, <2>2, <2>3
<1>7. ASSUME NEW t \in Thunk, RevokePut(t) PROVE Goal
  <2>1. StoredTagIsRegistered'
    BY <1>7 DEF RevokePut, StoredTagIsRegistered, Holds, HasTag
  <2>2. MemoSound'
    BY <1>7 DEF RevokePut, MemoSound
  <2>3. ASSUME NEW s \in Thunk PROVE Holds(s)'
    BY <1>7, <2>3 DEF RevokePut, Holds, HasTag, HasKey, HasWia
  <2> QED
    BY <2>1, <2>2, <2>3
<1>8. ASSUME NEW t \in Thunk, RevokeFulfilled(t) PROVE Goal
  <2>1. StoredTagIsRegistered'
    BY <1>8 DEF RevokeFulfilled, AttestationReset, StoredTagIsRegistered, Holds, HasTag
  <2>2. MemoSound'
    BY <1>8 DEF RevokeFulfilled, AttestationReset, MemoSound
  <2>3. ASSUME NEW s \in Thunk PROVE Holds(s)'
    BY <1>8, <2>3 DEF RevokeFulfilled, AttestationReset, Holds, HasTag, HasKey, HasWia
  <2> QED
    BY <2>1, <2>2, <2>3
<1>9. ASSUME NEW t \in Thunk, RevokeRejected(t) PROVE Goal
  <2>1. StoredTagIsRegistered'
    BY <1>9 DEF RevokeRejected, StoredTagIsRegistered, Holds, HasTag
  <2>2. MemoSound'
    BY <1>9 DEF RevokeRejected, MemoSound
  <2>3. ASSUME NEW s \in Thunk PROVE Holds(s)'
    BY <1>9, <2>3 DEF RevokeRejected, Holds, HasTag, HasKey, HasWia
  <2> QED
    BY <2>1, <2>2, <2>3
<1>10. ASSUME NEW t \in Thunk, PressAttest(t) PROVE Goal
  <2>1. StoredTagIsRegistered'
    BY <1>10 DEF PressAttest, AttestStart, StoredTagIsRegistered, Holds, HasTag
  <2>2. MemoSound'
    BY <1>10 DEF PressAttest, AttestStart, MemoSound
  <2>3. ASSUME NEW s \in Thunk PROVE Holds(s)'
    BY <1>10, <2>3 DEF PressAttest, AttestStart, Holds, HasTag, HasKey, HasWia
  <2> QED
    BY <2>1, <2>2, <2>3
<1>11. ASSUME NEW t \in Thunk, AttestDelete(t) PROVE Goal
  <2>1. StoredTagIsRegistered'
    BY <1>11 DEF AttestDelete, StoredTagIsRegistered, Holds, HasTag
  <2>2. MemoSound'
    BY <1>11 DEF AttestDelete, MemoSound
  <2>3. ASSUME NEW s \in Thunk PROVE Holds(s)'
    BY <1>11, <2>3 DEF AttestDelete, Holds, HasTag, HasKey, HasWia
  <2> QED
    BY <2>1, <2>2, <2>3
<1>12. ASSUME NEW t \in Thunk, AttestGenerate(t) PROVE Goal
  <2>1. StoredTagIsRegistered'
    BY <1>12 DEF AttestGenerate, StoredTagIsRegistered, Holds, HasTag
  <2>2. MemoSound'
    BY <1>12 DEF AttestGenerate, MemoSound
  <2>3. ASSUME NEW s \in Thunk PROVE Holds(s)'
    BY <1>12, <2>3 DEF AttestGenerate, Holds, HasTag, HasKey, HasWia
  <2> QED
    BY <2>1, <2>2, <2>3
<1>13. ASSUME NEW t \in Thunk, AttestRequest(t) PROVE Goal
  <2>1. StoredTagIsRegistered'
    BY <1>13 DEF AttestRequest, StoredTagIsRegistered, Holds, HasTag
  <2>2. MemoSound'
    BY <1>13 DEF AttestRequest, MemoSound
  <2>3. ASSUME NEW s \in Thunk PROVE Holds(s)'
    BY <1>13, <2>3 DEF AttestRequest, Holds, HasTag, HasKey, HasWia
  <2> QED
    BY <2>1, <2>2, <2>3
<1>14. ASSUME NEW t \in Thunk, AttestSign(t) PROVE Goal
  <2>1. StoredTagIsRegistered'
    BY <1>14 DEF AttestSign, StoredTagIsRegistered, Holds, HasTag
  <2>2. MemoSound'
    BY <1>14 DEF AttestSign, MemoSound
  <2>3. ASSUME NEW s \in Thunk PROVE Holds(s)'
    BY <1>14, <2>3 DEF AttestSign, Holds, HasTag, HasKey, HasWia
  <2> QED
    BY <2>1, <2>2, <2>3
<1>15. ASSUME NEW t \in Thunk, AttestToken(t) PROVE Goal
  <2>1. StoredTagIsRegistered'
    BY <1>15 DEF AttestToken, StoredTagIsRegistered, Holds, HasTag
  <2>2. MemoSound'
    BY <1>15 DEF AttestToken, MemoSound
  <2>3. ASSUME NEW s \in Thunk PROVE Holds(s)'
    <3> DEFINE r == th[t]
               wia == [key |-> r.cnf, tag |-> r.tag, exp |-> now + Ttl]
    <3>1. wia # None
      BY <1>15, IssuedWia DEF AttestToken, Holds, HasTag, HasKey
    <3> HIDE DEF wia
    <3>2. \/ th' = [th EXCEPT ![t] = [r EXCEPT !.pc = "att_done", !.wia = wia]]
          \/ th' = [th EXCEPT ![t] = [r EXCEPT !.pc = "att_reject"]]
      BY <1>15 DEF AttestToken, wia
    <3>3. registered' = registered /\ r.pc = "att_token"
      BY <1>15 DEF AttestToken
    <3>4. CASE th' = [th EXCEPT ![t] = [r EXCEPT !.pc = "att_reject"]]
      BY <2>3, <3>3, <3>4 DEF Holds, HasTag, HasKey, HasWia
    <3>5. CASE th' = [th EXCEPT ![t] = [r EXCEPT !.pc = "att_done", !.wia = wia]]
      BY <2>3, <3>1, <3>3, <3>5 DEF Holds, HasTag, HasKey, HasWia
    <3> QED
      BY <3>2, <3>4, <3>5
  <2> QED
    BY <2>1, <2>2, <2>3
<1>16. ASSUME NEW t \in Thunk, AttestFulfilled(t) PROVE Goal
  <2>1. StoredTagIsRegistered'
    BY <1>16 DEF AttestFulfilled, AttestReturn, StoredTagIsRegistered, Holds, HasTag
  <2>2. MemoSound'
    BY <1>16 DEF AttestFulfilled, AttestReturn, MemoSound
  <2>3. ASSUME NEW s \in Thunk PROVE Holds(s)'
    BY <1>16, <2>3 DEF AttestFulfilled, AttestReturn, Holds, HasTag, HasKey, HasWia
  <2> QED
    BY <2>1, <2>2, <2>3
<1>17. ASSUME NEW t \in Thunk, AttestRejected(t) PROVE Goal
  <2>1. StoredTagIsRegistered'
    BY <1>17 DEF AttestRejected, AttestReturn, StoredTagIsRegistered, Holds, HasTag
  <2>2. MemoSound'
    BY <1>17 DEF AttestRejected, AttestReturn, MemoSound
  <2>3. ASSUME NEW s \in Thunk PROVE Holds(s)'
    BY <1>17, <2>3 DEF AttestRejected, AttestReturn, Holds, HasTag, HasKey, HasWia
  <2> QED
    BY <2>1, <2>2, <2>3
<1>18. ASSUME NEW t \in Thunk, PressIssue(t) PROVE Goal
  <2>1. StoredTagIsRegistered'
    BY <1>18 DEF PressIssue, StoredTagIsRegistered
  <2>2. ShouldRequestAttestation => attestation = None \/ now > attestation.exp
    BY DEF ShouldRequestAttestation, Expired, MemoSound
  <2>3. MemoSound'
    BY <1>18, <2>2 DEF PressIssue, CallSelector, MemoSound
  <2>4. AttestStart(t, "issue") \/ SelectAttestation(t, "issue")
    BY <1>18 DEF PressIssue
  <2>5. registered' = registered
    BY <1>18 DEF PressIssue
  <2>6. ASSUME NEW s \in Thunk PROVE Holds(s)'
    <3>1. CASE AttestStart(t, "issue")
      BY <2>5, <2>6, <3>1 DEF AttestStart, Holds, HasTag, HasKey, HasWia
    <3>2. CASE SelectAttestation(t, "issue")
      BY <2>5, <2>6, <3>2 DEF SelectAttestation, Holds, HasTag, HasKey, HasWia
    <3> QED
      BY <2>4, <3>1, <3>2
  <2> QED
    BY <2>1, <2>3, <2>6
<1>19. ASSUME NEW t \in Thunk, IssueSelect(t) PROVE Goal
  <2>1. StoredTagIsRegistered'
    BY <1>19 DEF IssueSelect, SelectAttestation, StoredTagIsRegistered, Holds, HasTag
  <2>2. MemoSound'
    BY <1>19 DEF IssueSelect, SelectAttestation, MemoSound
  <2>3. ASSUME NEW s \in Thunk PROVE Holds(s)'
    BY <1>19, <2>3 DEF IssueSelect, SelectAttestation, Holds, HasTag, HasKey, HasWia
  <2> QED
    BY <2>1, <2>2, <2>3
<1>20. ASSUME NEW t \in Thunk, IssueEnd(t) PROVE Goal
  <2>1. StoredTagIsRegistered'
    BY <1>20 DEF IssueEnd, StoredTagIsRegistered, Holds, HasTag
  <2>2. MemoSound'
    BY <1>20 DEF IssueEnd, MemoSound
  <2>3. ASSUME NEW s \in Thunk PROVE Holds(s)'
    BY <1>20, <2>3 DEF IssueEnd, Holds, HasTag, HasKey, HasWia
  <2> QED
    BY <2>1, <2>2, <2>3
<1>21. ASSUME NEW t \in Thunk, PressTrustmark(t) PROVE Goal
  <2>1. StoredTagIsRegistered'
    BY <1>21 DEF PressTrustmark, StoredTagIsRegistered, Holds, HasTag
  <2>2. MemoSound'
    BY <1>21 DEF PressTrustmark, MemoSound
  <2>3. ASSUME NEW s \in Thunk PROVE Holds(s)'
    BY <1>21, <2>3 DEF PressTrustmark, Holds, HasTag, HasKey, HasWia
  <2> QED
    BY <2>1, <2>2, <2>3
<1>22. ASSUME NEW t \in Thunk, TrustmarkCheck(t) PROVE Goal
  <2>1. StoredTagIsRegistered'
    BY <1>22 DEF TrustmarkCheck, Expired, StoredTagIsRegistered, Holds, HasTag
  <2>2. MemoSound'
    BY <1>22 DEF TrustmarkCheck, Expired, MemoSound
  <2>3. ASSUME NEW s \in Thunk PROVE Holds(s)'
    BY <1>22, <2>3 DEF TrustmarkCheck, Expired, Holds, HasTag, HasKey, HasWia
  <2> QED
    BY <2>1, <2>2, <2>3
<1>23. ASSUME NEW t \in Thunk, TrustmarkSign(t) PROVE Goal
  <2>1. StoredTagIsRegistered'
    BY <1>23 DEF TrustmarkSign, StoredTagIsRegistered, Holds, HasTag
  <2>2. MemoSound'
    BY <1>23 DEF TrustmarkSign, MemoSound
  <2>3. ASSUME NEW s \in Thunk PROVE Holds(s)'
    BY <1>23, <2>3 DEF TrustmarkSign, Holds, HasTag, HasKey, HasWia
  <2> QED
    BY <2>1, <2>2, <2>3
<1>24. CASE Reset
  <2>1. StoredTagIsRegistered'
    BY <1>24 DEF Reset, AttestationReset, StoredTagIsRegistered
  <2>2. MemoSound'
    BY <1>24 DEF Reset, AttestationReset, MemoSound
  <2>3. ASSUME NEW s \in Thunk PROVE Holds(s)'
    BY <1>24, <2>3 DEF Reset, AttestationReset, Holds, HasTag, HasKey, HasWia
  <2> QED
    BY <2>1, <2>2, <2>3
<1>25. CASE PersistInstance
  <2>1. StoredTagIsRegistered'
    BY <1>25 DEF PersistInstance, StoredTagIsRegistered
  <2>2. MemoSound'
    BY <1>25 DEF PersistInstance, MemoSound
  <2>3. ASSUME NEW s \in Thunk PROVE Holds(s)'
    BY <1>25, <2>3 DEF PersistInstance, Holds, HasTag, HasKey, HasWia
  <2> QED
    BY <2>1, <2>2, <2>3
<1>26. CASE PersistAttestation
  <2>1. StoredTagIsRegistered'
    BY <1>26 DEF PersistAttestation, StoredTagIsRegistered
  <2>2. MemoSound'
    BY <1>26 DEF PersistAttestation, MemoSound
  <2>3. ASSUME NEW s \in Thunk PROVE Holds(s)'
    BY <1>26, <2>3 DEF PersistAttestation, Holds, HasTag, HasKey, HasWia
  <2> QED
    BY <2>1, <2>2, <2>3
<1>27. CASE Restart
  <2>1. StoredTagIsRegistered'
    BY <1>27 DEF Restart, StoredTagIsRegistered
  <2>2. MemoSound'
    BY <1>27 DEF Restart, MemoSound
  <2>3. ASSUME NEW s \in Thunk PROVE Holds(s)'
    BY <1>27, <2>3 DEF Restart, Holds, HasTag, HasKey, HasWia
  <2> QED
    BY <2>1, <2>2, <2>3
<1>28. CASE Tick
  <2>1. StoredTagIsRegistered'
    BY <1>28 DEF Tick, StoredTagIsRegistered
  <2>2. MemoSound'
    BY <1>28 DEF Tick, MemoSound, Wia
  <2>3. ASSUME NEW s \in Thunk PROVE Holds(s)'
    BY <1>28, <2>3 DEF Tick, Holds, HasTag, HasKey, HasWia
  <2> QED
    BY <2>1, <2>2, <2>3
<1>29. CASE UNCHANGED vars
  BY <1>29 DEF vars, StoredTagIsRegistered, MemoSound, Holds
<1> QED
  BY <1>1, <1>2, <1>3, <1>4, <1>5, <1>6, <1>7, <1>8, <1>9, <1>10, <1>11, <1>12, <1>13, <1>14, <1>15, <1>16, <1>17, <1>18, <1>19, <1>20, <1>21, <1>22, <1>23, <1>24, <1>25, <1>26, <1>27, <1>28, <1>29 DEF Next, Press, Step

LEMMA InitInv == Init => Inv
<1> SUFFICES ASSUME Init PROVE Inv
  OBVIOUS
<1> USE WalletAssumption DEF Init
<1>1. Idle \in ThunkState
  BY DEF Idle, ThunkState
<1>2. TypeOK
  <2>1. th \in [Thunk -> ThunkState] /\ disturbed \in BOOLEAN
    BY <1>1
  <2> QED
    BY <2>1 DEF TypeOK, Status
<1>3. StoredTagIsRegistered /\ MemoSound
  BY DEF StoredTagIsRegistered, MemoSound
<1>4. ASSUME NEW t \in Thunk PROVE Holds(t)
  BY <1>4 DEF Holds, Idle, HasTag, HasKey, HasWia
<1> QED
  BY <1>2, <1>3, <1>4 DEF Inv

LEMMA Invariance == Spec => []Inv
<1>1. Inv /\ [Next]_vars => Inv'
  BY NextType, NextHolds DEF Inv
<1> QED
  BY InitInv, <1>1, PTL DEF Spec

(* However many thunks interleave, fail or crash: a tag in the store or on *)
(* the disk is one createWalletInstance registered, and a TRUE of          *)
(* shouldRequestAttestationSelector means the attestation is missing or    *)
(* expired, cached or not.                                                 *)
THEOREM StoreSafety ==
    Spec => [](TypeOK /\ StoredTagIsRegistered /\ RefreshOnlyWhenNeeded)
<1>1. Inv => TypeOK /\ StoredTagIsRegistered /\ RefreshOnlyWhenNeeded
  BY WalletAssumption DEF Inv, TypeOK, MemoSound, RefreshOnlyWhenNeeded,
     ShouldRequestAttestation, Expired
<1> QED
  BY Invariance, <1>1, PTL

-----------------------------------------------------------------------------
(* The key of the device and the refreshes of its attestation.             *)

(* A step of a thunk that ends up without a key of its own.                *)
LEMMA NoOwnKey ==
    ASSUME RefreshInv, NEW t \in Thunk, \A s \in Thunk \ {t} : th'[s] = th[s],
           th'[t].pc \notin HoldsKey, UNCHANGED <<wiaKey, disturbed>>,
           attestationStatus' = "done" =>
                /\ attestationStatus = "done" /\ attestation' = attestation
                /\ th[t].pc \in Refreshing => th'[t].pc \in Refreshing
    PROVE  DoneMeansUsable' /\ \A s \in Thunk : OwnKey(s)'
<1>1. ASSUME NEW s \in Thunk PROVE OwnKey(s)'
  <2>1. CASE s = t
    BY <2>1 DEF OwnKey, HoldsKey, HasKey
  <2>2. CASE s # t
    BY <2>2 DEF RefreshInv, OwnKey
  <2> QED
    BY <2>1, <2>2
<1>2. DoneMeansUsable'
  <2> SUFFICES ASSUME attestationStatus' = "done", ~ disturbed',
                      \A s \in Thunk : th'[s].pc \notin Refreshing
               PROVE  attestation' # None /\ attestation'.key = wiaKey'
    BY DEF DoneMeansUsable
  <2>1. \A s \in Thunk : th[s].pc \notin Refreshing
    OBVIOUS
  <2> QED
    BY <2>1 DEF RefreshInv, DoneMeansUsable
<1> QED
  BY <1>1, <1>2

(* A step of a refresh that is not over.                                   *)
LEMMA OnGoing ==
    ASSUME RefreshInv, NEW t \in Thunk, th'[t].pc \in Refreshing,
           \A s \in Thunk : OwnKey(s)'
    PROVE  DoneMeansUsable' /\ \A s \in Thunk : OwnKey(s)'
  BY DEF DoneMeansUsable

LEMMA NextRefresh == RefreshInv /\ [Next]_vars =>
                        DoneMeansUsable' /\ \A t \in Thunk : OwnKey(t)'
<1> DEFINE Goal == DoneMeansUsable' /\ \A s \in Thunk : OwnKey(s)'
<1> SUFFICES ASSUME RefreshInv, [Next]_vars PROVE Goal
  OBVIOUS
<1>t. th \in [Thunk -> ThunkState] /\ None \notin Key
      /\ wiaKey \in Key \cup {None} /\ keys \in Nat
  BY WalletAssumption DEF RefreshInv, Inv, TypeOK
<1> USE DEF At, Goto, End, device, instanceSlice, attestationSlice
<1>1. ASSUME NEW t \in Thunk, PressCreate(t) PROVE Goal
  <2>1. /\ \A s \in Thunk \ {t} : th'[s] = th[s]
        /\ th'[t].pc \in {"create_key"} /\ UNCHANGED <<wiaKey, disturbed>>
        /\ th[t].pc \notin Refreshing
        /\ attestationStatus' = "initial" \/ UNCHANGED <<attestation, attestationStatus>>
    BY <1>t, <1>1 DEF PressCreate, Start, AttestationReset, Idle, ThunkState, Refreshing, HoldsKey
  <2> QED
    BY <2>1, NoOwnKey DEF HoldsKey
<1>2. ASSUME NEW t \in Thunk, CreateKey(t) PROVE Goal
  <2>1. /\ \A s \in Thunk \ {t} : th'[s] = th[s]
        /\ th'[t].pc \in {"create_post"} /\ UNCHANGED <<wiaKey, disturbed>>
        /\ th[t].pc \notin Refreshing
        /\ UNCHANGED <<attestation, attestationStatus>>
    BY <1>t, <1>2 DEF CreateKey, Idle, ThunkState, Refreshing, HoldsKey
  <2> QED
    BY <2>1, NoOwnKey DEF HoldsKey
<1>3. ASSUME NEW t \in Thunk, CreatePost(t) PROVE Goal
  <2>1. /\ \A s \in Thunk \ {t} : th'[s] = th[s]
        /\ th'[t].pc \in {"create_done"} /\ UNCHANGED <<wiaKey, disturbed>>
        /\ th[t].pc \notin Refreshing
        /\ UNCHANGED <<attestation, attestationStatus>>
    BY <1>t, <1>3 DEF CreatePost, Idle, ThunkState, Refreshing, HoldsKey
  <2> QED
    BY <2>1, NoOwnKey DEF HoldsKey
<1>4. ASSUME NEW t \in Thunk, CreateFulfilled(t) PROVE Goal
  <2>1. /\ \A s \in Thunk \ {t} : th'[s] = th[s]
        /\ th'[t].pc \in {"idle"} /\ UNCHANGED <<wiaKey, disturbed>>
        /\ th[t].pc \notin Refreshing
        /\ UNCHANGED <<attestation, attestationStatus>>
    BY <1>t, <1>4 DEF CreateFulfilled, Idle, ThunkState, Refreshing, HoldsKey
  <2> QED
    BY <2>1, NoOwnKey DEF HoldsKey
<1>5. ASSUME NEW t \in Thunk, CreateRejected(t) PROVE Goal
  <2>1. /\ \A s \in Thunk \ {t} : th'[s] = th[s]
        /\ th'[t].pc \in {"idle"} /\ UNCHANGED <<wiaKey, disturbed>>
        /\ th[t].pc \notin Refreshing
        /\ UNCHANGED <<attestation, attestationStatus>>
    BY <1>t, <1>5 DEF CreateRejected, Idle, ThunkState, Refreshing, HoldsKey
  <2> QED
    BY <2>1, NoOwnKey DEF HoldsKey
<1>6. ASSUME NEW t \in Thunk, PressRevoke(t) PROVE Goal
  <2>1. /\ \A s \in Thunk \ {t} : th'[s] = th[s]
        /\ th'[t].pc \in {"revoke_put", "revoke_reject"} /\ UNCHANGED <<wiaKey, disturbed>>
        /\ th[t].pc \notin Refreshing
        /\ UNCHANGED <<attestation, attestationStatus>>
    BY <1>t, <1>6 DEF PressRevoke, Idle, ThunkState, Refreshing, HoldsKey
  <2> QED
    BY <2>1, NoOwnKey DEF HoldsKey
<1>7. ASSUME NEW t \in Thunk, RevokePut(t) PROVE Goal
  <2>1. /\ \A s \in Thunk \ {t} : th'[s] = th[s]
        /\ th'[t].pc \in {"revoke_done"} /\ UNCHANGED <<wiaKey, disturbed>>
        /\ th[t].pc \notin Refreshing
        /\ UNCHANGED <<attestation, attestationStatus>>
    BY <1>t, <1>7 DEF RevokePut, Idle, ThunkState, Refreshing, HoldsKey
  <2> QED
    BY <2>1, NoOwnKey DEF HoldsKey
<1>8. ASSUME NEW t \in Thunk, RevokeFulfilled(t) PROVE Goal
  <2>1. /\ \A s \in Thunk \ {t} : th'[s] = th[s]
        /\ th'[t].pc \in {"idle"} /\ UNCHANGED <<wiaKey, disturbed>>
        /\ attestationStatus' = "initial"
    BY <1>t, <1>8 DEF RevokeFulfilled, AttestationReset, Idle, ThunkState
  <2> QED
    BY <2>1, NoOwnKey DEF HoldsKey
<1>9. ASSUME NEW t \in Thunk, RevokeRejected(t) PROVE Goal
  <2>1. /\ \A s \in Thunk \ {t} : th'[s] = th[s]
        /\ th'[t].pc \in {"idle"} /\ UNCHANGED <<wiaKey, disturbed>>
        /\ th[t].pc \notin Refreshing
        /\ UNCHANGED <<attestation, attestationStatus>>
    BY <1>t, <1>9 DEF RevokeRejected, Idle, ThunkState, Refreshing, HoldsKey
  <2> QED
    BY <2>1, NoOwnKey DEF HoldsKey
<1>10. ASSUME NEW t \in Thunk, PressAttest(t) PROVE Goal
  <2>1. /\ \A s \in Thunk \ {t} : th'[s] = th[s]
        /\ th'[t].pc \in {"att_delete", "att_reject"} /\ UNCHANGED <<wiaKey, disturbed>>
        /\ attestationStatus' = "loading"
    BY <1>t, <1>10 DEF PressAttest, AttestStart, Idle, ThunkState
  <2> QED
    BY <2>1, NoOwnKey DEF HoldsKey
<1>11. ASSUME NEW t \in Thunk, AttestDelete(t) PROVE Goal
  <2>1. /\ th'[t].pc = "att_generate" /\ \A s \in Thunk \ {t} : th'[s] = th[s]
        /\ ~ disturbed' => \A s \in Thunk \ {t} : th[s].pc \notin HoldsKey
    BY <1>t, <1>11 DEF AttestDelete, ThunkState
  <2>2. ASSUME NEW s \in Thunk PROVE OwnKey(s)'
    BY <2>1 DEF OwnKey, HoldsKey, HasKey
  <2> QED
    BY <2>1, <2>2, OnGoing DEF Refreshing
<1>12. ASSUME NEW t \in Thunk, AttestGenerate(t) PROVE Goal
  <2>0. /\ \A s \in Thunk \ {t} : th'[s] = th[s]
        /\ UNCHANGED <<disturbed, attestation, attestationStatus>>
    BY <1>t, <1>12 DEF AttestGenerate
  <2>1. CASE wiaKey # None
    <3>1. th'[t].pc = "att_reject" /\ wiaKey' = wiaKey
      BY <1>t, <1>12, <2>1 DEF AttestGenerate, ThunkState
    <3> QED
      BY <2>0, <3>1, NoOwnKey DEF HoldsKey, Refreshing
  <2>2. CASE wiaKey = None
    <3>1. th'[t].pc = "att_request" /\ wiaKey' = keys + 1 /\ keys < MaxKey
      BY <1>t, <1>12, <2>2 DEF AttestGenerate, ThunkState
    <3>2. wiaKey' # None
      BY <1>t, <3>1, WalletAssumption DEF Key
    <3>3. ASSUME NEW s \in Thunk PROVE OwnKey(s)'
      <4>1. CASE s = t
        BY <3>1, <3>2, <4>1 DEF OwnKey, HasKey
      <4>2. CASE s # t
        <5>1. disturbed \/ th[s].pc \notin HoldsKey
          BY <2>2 DEF RefreshInv, OwnKey
        <5> QED
          BY <2>0, <4>2, <5>1 DEF OwnKey, HasKey, HoldsKey
      <4> QED
        BY <4>1, <4>2
    <3> QED
      BY <3>1, <3>3, OnGoing DEF Refreshing, HoldsKey
  <2> QED
    BY <2>1, <2>2
<1>13. ASSUME NEW t \in Thunk, AttestRequest(t) PROVE Goal
  <2>0. /\ \A s \in Thunk \ {t} : th'[s] = th[s]
        /\ UNCHANGED <<wiaKey, disturbed, attestation, attestationStatus>>
    BY <1>t, <1>13 DEF AttestRequest
  <2>1. CASE wiaKey = None
    <3>1. th'[t].pc = "att_reject"
      BY <1>t, <1>13, <2>1 DEF AttestRequest, ThunkState
    <3> QED
      BY <2>0, <3>1, NoOwnKey DEF HoldsKey, Refreshing
  <2>2. CASE wiaKey # None
    <3>1. th'[t].pc = "att_sign" /\ th'[t].cnf = wiaKey
      BY <1>t, <1>13, <2>2 DEF AttestRequest, ThunkState
    <3>2. ASSUME NEW s \in Thunk PROVE OwnKey(s)'
      <4>1. CASE s = t
        BY <1>13, <2>0, <2>2, <3>1, <4>1 DEF RefreshInv, OwnKey, HasKey, AttestRequest
      <4>2. CASE s # t
        BY <2>0, <4>2 DEF RefreshInv, OwnKey
      <4> QED
        BY <4>1, <4>2
    <3> QED
      BY <3>1, <3>2, OnGoing DEF Refreshing, HoldsKey
  <2> QED
    BY <2>1, <2>2
<1>14. ASSUME NEW t \in Thunk, AttestSign(t) PROVE Goal
  <2>0. /\ \A s \in Thunk \ {t} : th'[s] = th[s]
        /\ UNCHANGED <<wiaKey, disturbed, attestation, attestationStatus>>
    BY <1>t, <1>14 DEF AttestSign
  <2>1. CASE wiaKey = None
    <3>1. th'[t].pc = "att_reject"
      BY <1>t, <1>14, <2>1 DEF AttestSign, ThunkState
    <3> QED
      BY <2>0, <3>1, NoOwnKey DEF HoldsKey, Refreshing
  <2>2. CASE wiaKey # None
    <3>1. th'[t].pc = "att_token" /\ th'[t].cnf = th[t].cnf
      BY <1>t, <1>14, <2>2 DEF AttestSign, ThunkState
    <3>2. ASSUME NEW s \in Thunk PROVE OwnKey(s)'
      <4>1. CASE s = t
        BY <1>14, <2>0, <2>2, <3>1, <4>1 DEF RefreshInv, OwnKey, HasKey, AttestSign
      <4>2. CASE s # t
        BY <2>0, <4>2 DEF RefreshInv, OwnKey
      <4> QED
        BY <4>1, <4>2
    <3> QED
      BY <3>1, <3>2, OnGoing DEF Refreshing, HoldsKey
  <2> QED
    BY <2>1, <2>2
<1>15. ASSUME NEW t \in Thunk, AttestToken(t) PROVE Goal
  <2> DEFINE wia == [key |-> th[t].cnf, tag |-> th[t].tag, exp |-> now + Ttl]
  <2>0. /\ \A s \in Thunk \ {t} : th'[s] = th[s]
        /\ UNCHANGED <<wiaKey, disturbed, attestation, attestationStatus>>
        /\ th[t].pc = "att_token"
    BY <1>t, <1>15 DEF AttestToken
  <2>1. \/ th'[t] = [th[t] EXCEPT !.pc = "att_done", !.wia = wia]
        \/ th'[t] = [th[t] EXCEPT !.pc = "att_reject"]
    BY <1>t, <1>15 DEF AttestToken
  <2>2. wia.key = th[t].cnf
    OBVIOUS
  <2> HIDE DEF wia
  <2>3. CASE th'[t] = [th[t] EXCEPT !.pc = "att_reject"]
    <3>1. th'[t].pc = "att_reject"
      BY <1>t, <2>3 DEF ThunkState
    <3> QED
      BY <2>0, <3>1, NoOwnKey DEF HoldsKey, Refreshing
  <2>4. CASE th'[t] = [th[t] EXCEPT !.pc = "att_done", !.wia = wia]
    <3>1. th'[t].pc = "att_done" /\ th'[t].wia.key = th[t].cnf
      BY <1>t, <2>2, <2>4 DEF ThunkState
    <3>2. ASSUME NEW s \in Thunk PROVE OwnKey(s)'
      <4>1. CASE s = t
        BY <2>0, <3>1, <4>1 DEF RefreshInv, OwnKey, HasKey, HoldsKey
      <4>2. CASE s # t
        BY <2>0, <4>2 DEF RefreshInv, OwnKey
      <4> QED
        BY <4>1, <4>2
    <3> QED
      BY <3>1, <3>2, OnGoing DEF Refreshing, HoldsKey
  <2> QED
    BY <2>1, <2>3, <2>4
<1>16. ASSUME NEW t \in Thunk, AttestFulfilled(t) PROVE Goal
  <2>1. /\ \A s \in Thunk \ {t} : th'[s] = th[s]
        /\ th'[t].pc \in {"idle", "select"} /\ th[t].pc = "att_done"
        /\ attestation' = th[t].wia /\ UNCHANGED <<wiaKey, disturbed>>
    BY <1>t, <1>16 DEF AttestFulfilled, AttestReturn, Idle
  <2>2. ASSUME NEW s \in Thunk PROVE OwnKey(s)'
    <3>1. CASE s = t
      BY <2>1, <3>1 DEF OwnKey, HasKey, HoldsKey
    <3>2. CASE s # t
      BY <2>1, <3>2 DEF RefreshInv, OwnKey
    <3> QED
      BY <3>1, <3>2
  <2>3. ~ disturbed => th[t].wia # None /\ th[t].wia.key = wiaKey
    BY <2>1 DEF RefreshInv, OwnKey, Inv, Holds, HasWia
  <2> QED
    BY <2>1, <2>2, <2>3 DEF DoneMeansUsable
<1>17. ASSUME NEW t \in Thunk, AttestRejected(t) PROVE Goal
  <2>1. /\ \A s \in Thunk \ {t} : th'[s] = th[s]
        /\ th'[t].pc \in {"idle", "select"} /\ UNCHANGED <<wiaKey, disturbed>>
        /\ attestationStatus' = "error"
    BY <1>t, <1>17 DEF AttestRejected, AttestReturn, Idle, ThunkState
  <2> QED
    BY <2>1, NoOwnKey DEF HoldsKey
<1>18. ASSUME NEW t \in Thunk, PressIssue(t) PROVE Goal
  <2>1. /\ UNCHANGED <<wiaKey, disturbed, attestation>> /\ th[t].pc = "idle"
        /\ \/ AttestStart(t, "issue")
           \/ SelectAttestation(t, "issue") /\ UNCHANGED attestationStatus
    BY <1>18 DEF PressIssue
  <2>2. CASE AttestStart(t, "issue")
    <3>1. /\ \A s \in Thunk \ {t} : th'[s] = th[s]
          /\ th'[t].pc \in {"att_reject", "att_delete"}
          /\ attestationStatus' = "loading"
      BY <1>t, <2>2 DEF AttestStart, Idle
    <3> QED
      BY <2>1, <3>1, NoOwnKey DEF HoldsKey
  <2>3. CASE SelectAttestation(t, "issue") /\ UNCHANGED attestationStatus
    <3>1. /\ \A s \in Thunk \ {t} : th'[s] = th[s]
          /\ th'[t].pc \in {"idle", "using"}
      BY <1>t, <2>3 DEF SelectAttestation, Idle
    <3> QED
      BY <2>1, <2>3, <3>1, NoOwnKey DEF HoldsKey, Refreshing
  <2> QED
    BY <2>1, <2>2, <2>3
<1>19. ASSUME NEW t \in Thunk, IssueSelect(t) PROVE Goal
  <2>1. /\ \A s \in Thunk \ {t} : th'[s] = th[s]
        /\ th'[t].pc \in {"idle", "using"} /\ UNCHANGED <<wiaKey, disturbed>>
        /\ th[t].pc \notin Refreshing
        /\ UNCHANGED <<attestation, attestationStatus>>
    BY <1>t, <1>19 DEF IssueSelect, SelectAttestation, Idle, ThunkState, Refreshing, HoldsKey
  <2> QED
    BY <2>1, NoOwnKey DEF HoldsKey
<1>20. ASSUME NEW t \in Thunk, IssueEnd(t) PROVE Goal
  <2>1. /\ \A s \in Thunk \ {t} : th'[s] = th[s]
        /\ th'[t].pc \in {"idle"} /\ UNCHANGED <<wiaKey, disturbed>>
        /\ th[t].pc \notin Refreshing
        /\ UNCHANGED <<attestation, attestationStatus>>
    BY <1>t, <1>20 DEF IssueEnd, Idle, ThunkState, Refreshing, HoldsKey
  <2> QED
    BY <2>1, NoOwnKey DEF HoldsKey
<1>21. ASSUME NEW t \in Thunk, PressTrustmark(t) PROVE Goal
  <2>1. /\ \A s \in Thunk \ {t} : th'[s] = th[s]
        /\ th'[t].pc \in {"tm_check"} /\ UNCHANGED <<wiaKey, disturbed>>
        /\ th[t].pc \notin Refreshing
        /\ UNCHANGED <<attestation, attestationStatus>>
    BY <1>t, <1>21 DEF PressTrustmark, Idle, ThunkState, Refreshing, HoldsKey
  <2> QED
    BY <2>1, NoOwnKey DEF HoldsKey
<1>22. ASSUME NEW t \in Thunk, TrustmarkCheck(t) PROVE Goal
  <2>1. /\ \A s \in Thunk \ {t} : th'[s] = th[s]
        /\ th'[t].pc \in {"idle", "tm_sign"} /\ UNCHANGED <<wiaKey, disturbed>>
        /\ th[t].pc \notin Refreshing
        /\ UNCHANGED <<attestation, attestationStatus>>
    BY <1>t, <1>22 DEF TrustmarkCheck, Idle, ThunkState, Refreshing, HoldsKey
  <2> QED
    BY <2>1, NoOwnKey DEF HoldsKey
<1>23. ASSUME NEW t \in Thunk, TrustmarkSign(t) PROVE Goal
  <2>1. /\ \A s \in Thunk \ {t} : th'[s] = th[s]
        /\ th'[t].pc \in {"idle"} /\ UNCHANGED <<wiaKey, disturbed>>
        /\ th[t].pc \notin Refreshing
        /\ UNCHANGED <<attestation, attestationStatus>>
    BY <1>t, <1>23 DEF TrustmarkSign, Idle, ThunkState, Refreshing, HoldsKey
  <2> QED
    BY <2>1, NoOwnKey DEF HoldsKey
<1>24. CASE Reset
  BY <1>24 DEF Reset, AttestationReset, RefreshInv, DoneMeansUsable, OwnKey
<1>25. CASE PersistInstance
  BY <1>25 DEF PersistInstance, RefreshInv, DoneMeansUsable, OwnKey
<1>26. CASE PersistAttestation
  BY <1>26 DEF PersistAttestation, RefreshInv, DoneMeansUsable, OwnKey
<1>27. CASE Restart
  BY <1>27 DEF Restart, Idle, DoneMeansUsable, OwnKey, HoldsKey, HasKey
<1>28. CASE Tick
  BY <1>28 DEF Tick, RefreshInv, DoneMeansUsable, OwnKey
<1>29. CASE UNCHANGED vars
  BY <1>29 DEF vars, RefreshInv, DoneMeansUsable, OwnKey
<1> QED
  BY <1>1, <1>2, <1>3, <1>4, <1>5, <1>6, <1>7, <1>8, <1>9, <1>10, <1>11,
     <1>12, <1>13, <1>14, <1>15, <1>16, <1>17, <1>18, <1>19, <1>20, <1>21,
     <1>22, <1>23, <1>24, <1>25, <1>26, <1>27, <1>28, <1>29
  DEF Next, Press, Step

(* However many refreshes interleave, fail or crash, and whatever resets   *)
(* the store: once none is under way, "done" means that the attestation    *)
(* belongs to the device's key, unless regenerateCryptoKey of one deleted  *)
(* the key of another.                                                     *)
THEOREM RefreshSafety == Spec => []DoneMeansUsable
<1>1. Init => RefreshInv
  BY InitInv DEF Init, Idle, RefreshInv, DoneMeansUsable, OwnKey, HoldsKey, HasKey
<1>2. RefreshInv /\ Inv' /\ [Next]_vars => RefreshInv'
  BY NextRefresh DEF RefreshInv
<1>3. RefreshInv => DoneMeansUsable
  BY DEF RefreshInv
<1> QED
  BY <1>1, <1>2, <1>3, Invariance, PTL DEF Spec

-----------------------------------------------------------------------------
(* The tags of the instances that are created and revoked.                 *)

(* A step of a thunk that leaves the provider alone and ends up with no    *)
(* tag to register or to revoke.                                           *)
LEMMA NoOwnTag ==
    ASSUME RevokeInv, NEW t \in Thunk, \A s \in Thunk \ {t} : th'[s] = th[s],
           th'[t].pc \notin {"create_post", "revoke_put", "revoke_done"},
           th'[t].op = "revoke" => th'[t].pc = "revoke_reject",
           UNCHANGED <<registered, tags>>
    PROVE  /\ \A g \in Tag : g > tags' => registered'[g] = "unknown"
           /\ \A s \in Thunk : OwnTag(s)'
<1>1. ASSUME NEW s \in Thunk PROVE OwnTag(s)'
  <2>1. CASE s = t
    BY <2>1 DEF OwnTag
  <2>2. CASE s # t
    BY <2>2 DEF RevokeInv, OwnTag
  <2> QED
    BY <2>1, <2>2
<1> QED
  BY <1>1 DEF RevokeInv

LEMMA NextTags ==
    RevokeInv /\ [Next]_vars =>
        /\ \A g \in Tag : g > tags' => registered'[g] = "unknown"
        /\ \A s \in Thunk : OwnTag(s)'
<1> DEFINE Goal == /\ \A g \in Tag : g > tags' => registered'[g] = "unknown"
                   /\ \A s \in Thunk : OwnTag(s)'
<1> SUFFICES ASSUME RevokeInv, [Next]_vars PROVE Goal
  OBVIOUS
<1>t. /\ th \in [Thunk -> ThunkState] /\ tags \in Nat /\ Tag \subseteq Nat
      /\ registered \in [Tag -> {"unknown", "valid", "revoked"}]
      /\ keyTag \in Tag \cup {None} /\ None \notin Tag
  BY WalletAssumption DEF RevokeInv, Inv, TypeOK, Tag
<1>h. ASSUME NEW t \in Thunk, th[t].pc \in {"create_post", "revoke_put"}
      PROVE  th[t].tag \in Tag
  BY <1>t, <1>h DEF RevokeInv, Inv, Holds, HasTag, ThunkState
<1> USE DEF At, Goto, End, device, instanceSlice, attestationSlice
<1>1. ASSUME NEW t \in Thunk, PressCreate(t) PROVE Goal
  <2>1. /\ \A s \in Thunk \ {t} : th'[s] = th[s]
        /\ th'[t].op # "revoke"
        /\ th'[t].pc \in {"create_key"} /\ UNCHANGED <<registered, tags>>
    BY <1>t, <1>1 DEF PressCreate, Start, Idle, ThunkState, RevokeInv, OwnTag
  <2> QED
    BY <2>1, NoOwnTag
<1>2. ASSUME NEW t \in Thunk, CreateKey(t) PROVE Goal
  <2>1. /\ \A s \in Thunk \ {t} : th'[s] = th[s]
        /\ th'[t] = [th[t] EXCEPT !.pc = "create_post", !.tag = tags + 1]
        /\ tags' = tags + 1 /\ registered' = registered /\ tags + 1 \in Tag
        /\ th[t].pc = "create_key"
    BY <1>t, <1>2, WalletAssumption DEF CreateKey, Tag
  <2>2. /\ th'[t].pc = "create_post" /\ th'[t].tag = tags + 1
        /\ th'[t].op # "revoke" /\ registered[tags + 1] = "unknown"
    BY <1>t, <2>1 DEF ThunkState, RevokeInv, OwnTag
  <2>3. ASSUME NEW s \in Thunk \ {t}, th[s].pc = "create_post"
        PROVE  th[s].tag # tags + 1
    <3>1. th[s].tag <= tags /\ th[s].tag \in Nat
      BY <1>h, <1>t, <2>3 DEF RevokeInv, OwnTag
    <3> QED
      BY <1>t, <3>1
  <2>4. ASSUME NEW s \in Thunk PROVE OwnTag(s)'
    <3>1. CASE s = t
      <4>1. /\ th'[s].pc = "create_post" /\ th'[s].op # "revoke"
            /\ th'[s].tag = tags' /\ registered'[th'[s].tag] = "unknown"
        BY <2>1, <2>2, <3>1
      <4>0. tags' <= tags'
        BY <1>t, <2>1
      <4>2. \A u \in Thunk \ {s} : th'[u].pc = "create_post" => th'[u].tag # th'[s].tag
        BY <2>1, <2>2, <2>3, <3>1
      <4> QED
        BY <4>0, <4>1, <4>2 DEF OwnTag
    <3>2. CASE s # t
      <4>1. th[s].pc = "create_post" => th[s].tag <= tags' /\ th[s].tag # tags + 1
        BY <1>h, <1>t, <2>1, <2>3, <3>2 DEF RevokeInv, OwnTag
      <4>2. OwnTag(s)
        BY DEF RevokeInv
      <4>3. th[s].pc = "create_post" => \A u \in Thunk \ {s} :
                th'[u].pc = "create_post" => th'[u].tag # th[s].tag
        BY <2>1, <2>2, <4>1, <4>2 DEF OwnTag
      <4> QED
        BY <2>1, <3>2, <4>1, <4>2, <4>3 DEF OwnTag
    <3> QED
      BY <3>1, <3>2
  <2> QED
    BY <1>t, <2>1, <2>4 DEF RevokeInv
<1>3. ASSUME NEW t \in Thunk, CreatePost(t) PROVE Goal
  <2>1. /\ \A s \in Thunk \ {t} : th'[s] = th[s]
        /\ th'[t] = [th[t] EXCEPT !.pc = "create_done"] /\ th[t].pc = "create_post"
        /\ registered' = [registered EXCEPT ![th[t].tag] = "valid"] /\ tags' = tags
    BY <1>t, <1>3 DEF CreatePost
  <2>2. /\ th'[t].pc = "create_done" /\ th'[t].tag = th[t].tag /\ th'[t].op = th[t].op
        /\ th[t].tag \in Tag /\ registered'[th[t].tag] = "valid"
        /\ \A g \in Tag \ {th[t].tag} : registered'[g] = registered[g]
    BY <1>h, <1>t, <2>1 DEF ThunkState
  <2>3. th[t].tag <= tags
    BY <1>t, <2>1, <2>2 DEF RevokeInv, OwnTag
  <2>4. ASSUME NEW s \in Thunk \ {t}, th[s].pc \in {"create_post", "revoke_put", "revoke_done"}
        PROVE  th[s].tag \in Tag
    BY <1>t, <2>4 DEF RevokeInv, Inv, Holds, HasTag, ThunkState
  <2>5. ASSUME NEW s \in Thunk PROVE OwnTag(s)'
    <3>1. CASE s = t
      BY <2>1, <2>2, <3>1, ZenonT(30) DEF RevokeInv, OwnTag
    <3>2. CASE s # t /\ th[s].pc = "create_post"
      <4>1. th[s].tag # th[t].tag
        BY <2>1, <3>2 DEF RevokeInv, OwnTag
      <4>2. OwnTag(s)
        BY DEF RevokeInv
      <4>3. registered'[th[s].tag] = registered[th[s].tag]
        BY <2>2, <2>4, <3>2, <4>1
      <4>4. \A u \in Thunk \ {s} : th'[u].pc = "create_post" => th'[u].tag # th[s].tag
        BY <2>1, <2>2, <3>2, <4>2 DEF OwnTag
      <4> QED
        BY <2>1, <3>2, <4>2, <4>3, <4>4 DEF OwnTag
    <3>3. CASE s # t /\ th[s].pc # "create_post"
      <4>1. th[s].pc = "revoke_done" => registered'[th[s].tag] = "revoked"
        BY <2>1, <2>2, <2>4, <3>3 DEF RevokeInv, OwnTag
      <4>2. th[s].pc = "revoke_put" => registered'[th[s].tag] # "unknown"
        BY <2>1, <2>2, <2>4, <3>3 DEF RevokeInv, OwnTag
      <4> QED
        BY <2>1, <3>3, <4>1, <4>2 DEF RevokeInv, OwnTag
    <3> QED
      BY <3>1, <3>2, <3>3
  <2>6. \A g \in Tag : g > tags' => registered'[g] = "unknown"
    BY <1>t, <2>1, <2>2, <2>3 DEF RevokeInv
  <2> QED
    BY <2>5, <2>6
<1>4. ASSUME NEW t \in Thunk, CreateFulfilled(t) PROVE Goal
  <2>1. /\ \A s \in Thunk \ {t} : th'[s] = th[s]
        /\ th'[t].op # "revoke"
        /\ th'[t].pc \in {"idle"} /\ UNCHANGED <<registered, tags>>
    BY <1>t, <1>4 DEF CreateFulfilled, Idle, ThunkState, RevokeInv, OwnTag
  <2> QED
    BY <2>1, NoOwnTag
<1>5. ASSUME NEW t \in Thunk, CreateRejected(t) PROVE Goal
  <2>1. /\ \A s \in Thunk \ {t} : th'[s] = th[s]
        /\ th'[t].op # "revoke"
        /\ th'[t].pc \in {"idle"} /\ UNCHANGED <<registered, tags>>
    BY <1>t, <1>5 DEF CreateRejected, Idle, ThunkState, RevokeInv, OwnTag
  <2> QED
    BY <2>1, NoOwnTag
<1>6. ASSUME NEW t \in Thunk, PressRevoke(t) PROVE Goal
  <2>1. /\ \A s \in Thunk \ {t} : th'[s] = th[s]
        /\ th[t].pc = "idle"
        /\ th'[t].pc = (IF keyTag = None THEN "revoke_reject" ELSE "revoke_put")
        /\ th'[t].tag = keyTag /\ th'[t].op = "revoke" /\ UNCHANGED <<registered, tags>>
    BY <1>t, <1>6 DEF PressRevoke, Idle
  <2>2. CASE keyTag = None
    BY <2>1, <2>2, NoOwnTag
  <2>3. CASE keyTag # None
    <3>1. registered[keyTag] # "unknown"
      BY <2>3 DEF RevokeInv, Inv, StoredTagIsRegistered
    <3>2. ASSUME NEW s \in Thunk PROVE OwnTag(s)'
      <4>1. CASE s = t
        BY <2>1, <2>3, <3>1, <4>1 DEF OwnTag
      <4>2. CASE s # t
        BY <2>1, <2>3, <4>2 DEF RevokeInv, OwnTag
      <4> QED
        BY <4>1, <4>2
    <3> QED
      BY <2>1, <3>2 DEF RevokeInv
  <2> QED
    BY <2>2, <2>3
<1>7. ASSUME NEW t \in Thunk, RevokePut(t) PROVE Goal
  <2>1. /\ \A s \in Thunk \ {t} : th'[s] = th[s]
        /\ th'[t] = [th[t] EXCEPT !.pc = "revoke_done"] /\ th[t].pc = "revoke_put"
        /\ registered' = [registered EXCEPT ![th[t].tag] = "revoked"] /\ tags' = tags
    BY <1>t, <1>7 DEF RevokePut
  <2>2. /\ th'[t].pc = "revoke_done" /\ th'[t].tag = th[t].tag /\ th'[t].op = th[t].op
        /\ th[t].tag \in Tag /\ registered'[th[t].tag] = "revoked"
        /\ \A g \in Tag \ {th[t].tag} : registered'[g] = registered[g]
    BY <1>h, <1>t, <2>1 DEF ThunkState
  <2>3. th[t].tag <= tags
    BY <1>t, <2>1, <2>2 DEF RevokeInv, OwnTag
  <2>4. ASSUME NEW s \in Thunk \ {t}, th[s].pc \in {"create_post", "revoke_put", "revoke_done"}
        PROVE  th[s].tag \in Tag
    BY <1>t, <2>4 DEF RevokeInv, Inv, Holds, HasTag, ThunkState
  <2>5. ASSUME NEW s \in Thunk PROVE OwnTag(s)'
    <3>1. CASE s = t
      BY <2>1, <2>2, <3>1 DEF RevokeInv, OwnTag
    <3>2. CASE s # t /\ th[s].pc = "create_post"
      <4>1. th[s].tag # th[t].tag
        BY <2>1, <3>2 DEF RevokeInv, OwnTag
      <4>2. OwnTag(s)
        BY DEF RevokeInv
      <4>3. registered'[th[s].tag] = registered[th[s].tag]
        BY <2>2, <2>4, <3>2, <4>1
      <4>4. \A u \in Thunk \ {s} : th'[u].pc = "create_post" => th'[u].tag # th[s].tag
        BY <2>1, <2>2, <3>2, <4>2 DEF OwnTag
      <4> QED
        BY <2>1, <3>2, <4>2, <4>3, <4>4 DEF OwnTag
    <3>3. CASE s # t /\ th[s].pc # "create_post"
      <4>1. th[s].pc = "revoke_done" => registered'[th[s].tag] = "revoked"
        BY <2>1, <2>2, <2>4, <3>3 DEF RevokeInv, OwnTag
      <4>2. th[s].pc = "revoke_put" => registered'[th[s].tag] # "unknown"
        BY <2>1, <2>2, <2>4, <3>3 DEF RevokeInv, OwnTag
      <4> QED
        BY <2>1, <3>3, <4>1, <4>2 DEF RevokeInv, OwnTag
    <3> QED
      BY <3>1, <3>2, <3>3
  <2>6. \A g \in Tag : g > tags' => registered'[g] = "unknown"
    BY <1>t, <2>1, <2>2, <2>3 DEF RevokeInv
  <2> QED
    BY <2>5, <2>6
<1>8. ASSUME NEW t \in Thunk, RevokeFulfilled(t) PROVE Goal
  <2>1. /\ \A s \in Thunk \ {t} : th'[s] = th[s]
        /\ th'[t].op # "revoke"
        /\ th'[t].pc \in {"idle"} /\ UNCHANGED <<registered, tags>>
    BY <1>t, <1>8 DEF RevokeFulfilled, Idle, ThunkState, RevokeInv, OwnTag
  <2> QED
    BY <2>1, NoOwnTag
<1>9. ASSUME NEW t \in Thunk, RevokeRejected(t) PROVE Goal
  <2>1. /\ \A s \in Thunk \ {t} : th'[s] = th[s]
        /\ th'[t].op # "revoke"
        /\ th'[t].pc \in {"idle"} /\ UNCHANGED <<registered, tags>>
    BY <1>t, <1>9 DEF RevokeRejected, Idle, ThunkState, RevokeInv, OwnTag
  <2> QED
    BY <2>1, NoOwnTag
<1>10. ASSUME NEW t \in Thunk, PressAttest(t) PROVE Goal
  <2>1. /\ \A s \in Thunk \ {t} : th'[s] = th[s]
        /\ th'[t].op # "revoke"
        /\ th'[t].pc \in {"att_delete", "att_reject"} /\ UNCHANGED <<registered, tags>>
    BY <1>t, <1>10 DEF PressAttest, AttestStart, Idle, ThunkState, RevokeInv, OwnTag
  <2> QED
    BY <2>1, NoOwnTag
<1>11. ASSUME NEW t \in Thunk, AttestDelete(t) PROVE Goal
  <2>1. /\ \A s \in Thunk \ {t} : th'[s] = th[s]
        /\ th'[t].op # "revoke"
        /\ th'[t].pc \in {"att_generate"} /\ UNCHANGED <<registered, tags>>
    BY <1>t, <1>11 DEF AttestDelete, Idle, ThunkState, RevokeInv, OwnTag
  <2> QED
    BY <2>1, NoOwnTag
<1>12. ASSUME NEW t \in Thunk, AttestGenerate(t) PROVE Goal
  <2>1. /\ \A s \in Thunk \ {t} : th'[s] = th[s]
        /\ th'[t].op # "revoke"
        /\ th'[t].pc \in {"att_request", "att_reject"} /\ UNCHANGED <<registered, tags>>
    BY <1>t, <1>12 DEF AttestGenerate, Idle, ThunkState, RevokeInv, OwnTag
  <2> QED
    BY <2>1, NoOwnTag
<1>13. ASSUME NEW t \in Thunk, AttestRequest(t) PROVE Goal
  <2>1. /\ \A s \in Thunk \ {t} : th'[s] = th[s]
        /\ th'[t].op # "revoke"
        /\ th'[t].pc \in {"att_sign", "att_reject"} /\ UNCHANGED <<registered, tags>>
    BY <1>t, <1>13 DEF AttestRequest, Idle, ThunkState, RevokeInv, OwnTag
  <2> QED
    BY <2>1, NoOwnTag
<1>14. ASSUME NEW t \in Thunk, AttestSign(t) PROVE Goal
  <2>1. /\ \A s \in Thunk \ {t} : th'[s] = th[s]
        /\ th'[t].op # "revoke"
        /\ th'[t].pc \in {"att_token", "att_reject"} /\ UNCHANGED <<registered, tags>>
    BY <1>t, <1>14 DEF AttestSign, Idle, ThunkState, RevokeInv, OwnTag
  <2> QED
    BY <2>1, NoOwnTag
<1>15. ASSUME NEW t \in Thunk, AttestToken(t) PROVE Goal
  <2>1. /\ \A s \in Thunk \ {t} : th'[s] = th[s]
        /\ th'[t].op # "revoke"
        /\ th'[t].pc \in {"att_done", "att_reject"} /\ UNCHANGED <<registered, tags>>
    BY <1>t, <1>15 DEF AttestToken, Idle, ThunkState, RevokeInv, OwnTag
  <2> QED
    BY <2>1, NoOwnTag
<1>16. ASSUME NEW t \in Thunk, AttestFulfilled(t) PROVE Goal
  <2>1. /\ \A s \in Thunk \ {t} : th'[s] = th[s]
        /\ th'[t].op # "revoke"
        /\ th'[t].pc \in {"idle", "select"} /\ UNCHANGED <<registered, tags>>
    BY <1>t, <1>16 DEF AttestFulfilled, AttestReturn, Idle, ThunkState, RevokeInv, OwnTag
  <2> QED
    BY <2>1, NoOwnTag
<1>17. ASSUME NEW t \in Thunk, AttestRejected(t) PROVE Goal
  <2>1. /\ \A s \in Thunk \ {t} : th'[s] = th[s]
        /\ th'[t].op # "revoke"
        /\ th'[t].pc \in {"idle", "select"} /\ UNCHANGED <<registered, tags>>
    BY <1>t, <1>17 DEF AttestRejected, AttestReturn, Idle, ThunkState, RevokeInv, OwnTag
  <2> QED
    BY <2>1, NoOwnTag
<1>18. ASSUME NEW t \in Thunk, PressIssue(t) PROVE Goal
  <2>1. /\ UNCHANGED <<registered, tags>>
        /\ AttestStart(t, "issue") \/ SelectAttestation(t, "issue")
    BY <1>18 DEF PressIssue
  <2>2. CASE AttestStart(t, "issue")
    <3>1. /\ \A s \in Thunk \ {t} : th'[s] = th[s]
          /\ th'[t].op = "issue"
          /\ th'[t].pc \in {"att_reject", "att_delete"}
      BY <1>t, <2>2 DEF AttestStart, Idle
    <3> QED
      BY <2>1, <3>1, NoOwnTag
  <2>3. CASE SelectAttestation(t, "issue")
    <3>1. /\ \A s \in Thunk \ {t} : th'[s] = th[s]
          /\ th'[t].op \in {"none", "issue"}
          /\ th'[t].pc \in {"idle", "using"}
      BY <1>t, <2>3 DEF SelectAttestation, Idle
    <3> QED
      BY <2>1, <3>1, NoOwnTag
  <2> QED
    BY <2>1, <2>2, <2>3
<1>19. ASSUME NEW t \in Thunk, IssueSelect(t) PROVE Goal
  <2>1. /\ \A s \in Thunk \ {t} : th'[s] = th[s]
        /\ th'[t].op # "revoke"
        /\ th'[t].pc \in {"idle", "using"} /\ UNCHANGED <<registered, tags>>
    BY <1>t, <1>19 DEF IssueSelect, SelectAttestation, Idle, ThunkState, RevokeInv, OwnTag
  <2> QED
    BY <2>1, NoOwnTag
<1>20. ASSUME NEW t \in Thunk, IssueEnd(t) PROVE Goal
  <2>1. /\ \A s \in Thunk \ {t} : th'[s] = th[s]
        /\ th'[t].op # "revoke"
        /\ th'[t].pc \in {"idle"} /\ UNCHANGED <<registered, tags>>
    BY <1>t, <1>20 DEF IssueEnd, Idle, ThunkState, RevokeInv, OwnTag
  <2> QED
    BY <2>1, NoOwnTag
<1>21. ASSUME NEW t \in Thunk, PressTrustmark(t) PROVE Goal
  <2>1. /\ \A s \in Thunk \ {t} : th'[s] = th[s]
        /\ th'[t].op # "revoke"
        /\ th'[t].pc \in {"tm_check"} /\ UNCHANGED <<registered, tags>>
    BY <1>t, <1>21 DEF PressTrustmark, Idle, ThunkState, RevokeInv, OwnTag
  <2> QED
    BY <2>1, NoOwnTag
<1>22. ASSUME NEW t \in Thunk, TrustmarkCheck(t) PROVE Goal
  <2>1. /\ \A s \in Thunk \ {t} : th'[s] = th[s]
        /\ th'[t].op # "revoke"
        /\ th'[t].pc \in {"idle", "tm_sign"} /\ UNCHANGED <<registered, tags>>
    BY <1>t, <1>22 DEF TrustmarkCheck, Idle, ThunkState, RevokeInv, OwnTag
  <2> QED
    BY <2>1, NoOwnTag
<1>23. ASSUME NEW t \in Thunk, TrustmarkSign(t) PROVE Goal
  <2>1. /\ \A s \in Thunk \ {t} : th'[s] = th[s]
        /\ th'[t].op # "revoke"
        /\ th'[t].pc \in {"idle"} /\ UNCHANGED <<registered, tags>>
    BY <1>t, <1>23 DEF TrustmarkSign, Idle, ThunkState, RevokeInv, OwnTag
  <2> QED
    BY <2>1, NoOwnTag
<1>24. CASE Reset
  BY <1>24 DEF Reset, RevokeInv, OwnTag
<1>25. CASE PersistInstance
  BY <1>25 DEF PersistInstance, RevokeInv, OwnTag
<1>26. CASE PersistAttestation
  BY <1>26 DEF PersistAttestation, RevokeInv, OwnTag
<1>27. CASE Restart
  BY <1>27 DEF Restart, RevokeInv, OwnTag, Idle
<1>28. CASE Tick
  BY <1>28 DEF Tick, RevokeInv, OwnTag
<1>29. CASE UNCHANGED vars
  BY <1>29 DEF vars, RevokeInv, OwnTag
<1> QED
  BY <1>1, <1>2, <1>3, <1>4, <1>5, <1>6, <1>7, <1>8, <1>9, <1>10, <1>11,
     <1>12, <1>13, <1>14, <1>15, <1>16, <1>17, <1>18, <1>19, <1>20, <1>21,
     <1>22, <1>23, <1>24, <1>25, <1>26, <1>27, <1>28, <1>29
  DEF Next, Press, Step

(* Only the last step of a revocation ends it as done.                     *)
LEMMA DoneByRevoking ==
    ASSUME RevokeInv, Next, NEW t \in Thunk, th[t].op = "revoke", th'[t] = Idle,
           revocationStatus' = "done"
    PROVE  th[t].pc = "revoke_done"
<1>1. th[t] # Idle /\ th \in [Thunk -> ThunkState]
      /\ th[t].pc \in {"revoke_put", "revoke_done", "revoke_reject"}
  BY DEF Idle, RevokeInv, OwnTag, Inv, TypeOK
<1>2. CASE \E s \in Thunk : Press(s) \/ Step(s)
  <2>1. PICK s \in Thunk : Press(s) \/ Step(s)
    BY <1>2
  <2>2. s # t => th'[t] = th[t]
    BY <1>1, <2>1 DEF PressCreate, PressRevoke, PressAttest, PressIssue,
       PressTrustmark, CreateKey, CreatePost, CreateFulfilled, CreateRejected,
       RevokePut, RevokeFulfilled, RevokeRejected, AttestDelete,
       AttestGenerate, AttestRequest, AttestSign, AttestToken,
       AttestFulfilled, AttestRejected, IssueSelect, IssueEnd, TrustmarkCheck,
       TrustmarkSign, Start, AttestStart, AttestReturn, SelectAttestation,
       Goto, End, Press, Step
  <2>3. Press(t) \/ Step(t)
    BY <1>1, <2>1, <2>2
  <2>4. RevokePut(t) \/ RevokeFulfilled(t) \/ RevokeRejected(t)
    BY <1>1, <2>3 DEF PressCreate, PressRevoke, PressAttest, PressIssue,
       PressTrustmark, CreateKey, CreatePost, CreateFulfilled, CreateRejected,
       AttestDelete, AttestGenerate, AttestRequest, AttestSign, AttestToken,
       AttestFulfilled, AttestRejected, IssueSelect, IssueEnd, TrustmarkCheck,
       TrustmarkSign, Press, Step, At
  <2>5. ~ RevokeRejected(t)
    BY DEF RevokeRejected
  <2>6. ~ RevokePut(t)
    BY <1>1 DEF RevokePut, Goto, Idle, ThunkState
  <2> QED
    BY <2>4, <2>5, <2>6 DEF RevokeFulfilled, At
<1>3. CASE Reset \/ PersistInstance \/ PersistAttestation \/ Tick
  BY <1>1, <1>3 DEF Reset, PersistInstance, PersistAttestation, Tick
<1>4. CASE Restart
  BY <1>4 DEF Restart
<1> QED
  BY <1>2, <1>3, <1>4 DEF Next

(* Whatever else is in flight: when revokeWalletInstanceThunk shows as     *)
(* done, the provider has revoked the instance it was started for, and no  *)
(* creation that interleaved made it valid again.                          *)
THEOREM RevocationSafety == Spec => DoneMeansRevoked
<1>1. Init => RevokeInv
  BY InitInv DEF Init, Idle, RevokeInv, OwnTag
<1>2. RevokeInv /\ Inv' /\ [Next]_vars => RevokeInv'
  BY NextTags DEF RevokeInv
<1>3. RevokeInv /\ [Next]_vars =>
        [\A t \in Thunk :
            th[t].op = "revoke" /\ th'[t] = Idle /\ revocationStatus' = "done" =>
                registered[th[t].tag] = "revoked"]_vars
  BY DoneByRevoking DEF RevokeInv, OwnTag
<1> QED
  BY <1>1, <1>2, <1>3, Invariance, PTL DEF Spec, DoneMeansRevoked

=============================================================================
