-------------------------- MODULE TrustChainProofs --------------------------
(* Proofs about TrustChain, for every federation and every bound.          *)
EXTENDS TrustChain, TLAPS

(* What makes signatures identify entities: a key set lists keys of one    *)
(* owner; a published document is signed by its issuer and lists the keys  *)
(* of its subject, which for a configuration is the issuer.                *)
OwnedBy(ks, e) == \A i \in 1 .. Len(ks) : Owner(ks[i]) = e

Honest(t) ==
    /\ Owner(t.sig) = t.iss
    /\ OwnedBy(t.jwks, t.sub)
    /\ "EC" \in t.shape => t.sub = t.iss

KeySet(e) == {ks \in Seq(Key) : ks # <<>> /\ OwnedBy(ks, e)}

Inv ==
    /\ TypeOK
    /\ \A e \in Entity : jwks[e] \in KeySet(e)
    /\ \A t \in published : Honest(t)
    /\ AcceptedChainIsPath

-----------------------------------------------------------------------------
(* A configuration made from a key set of its entity is a well-formed      *)
(* document, signed by its issuer, listing the keys of its subject.        *)
LEMMA ConfigurationHonest ==
    ASSUME NEW e \in Entity, NEW ks \in KeySet(e)
    PROVE  Configuration(e, ks) \in Token /\ Honest(Configuration(e, ks))
<1>1. Len(ks) \in 1 .. Len(ks) /\ ks[Len(ks)] \in Key
    BY DEF KeySet
<1>2. Owner(ks[Len(ks)]) = e
    BY <1>1 DEF KeySet, OwnedBy
<1> QED
    BY <1>1, <1>2 DEF Configuration, Token, Honest, SigningKey, KeySet

(* The same for a statement made from the key sets of its two entities.    *)
LEMMA StatementHonest ==
    ASSUME NEW sup \in Entity, NEW sub \in Entity,
           NEW supKeys \in KeySet(sup), NEW subKeys \in KeySet(sub)
    PROVE  /\ Statement(sup, sub, supKeys, subKeys) \in Token
           /\ Honest(Statement(sup, sub, supKeys, subKeys))
<1>1. Len(supKeys) \in 1 .. Len(supKeys) /\ supKeys[Len(supKeys)] \in Key
    BY DEF KeySet
<1>2. Owner(supKeys[Len(supKeys)]) = sup
    BY <1>1 DEF KeySet, OwnedBy
<1> QED
    BY <1>1, <1>2 DEF Statement, Token, Honest, SigningKey, KeySet

(* An element found among the keys of the next document was issued by the  *)
(* subject of that document: verify needs no comparison of iss and sub.    *)
LEMMA VerifiedIssuer ==
    ASSUME NEW t, Owner(t.sig) = t.iss, NEW e, NEW ks, OwnedBy(ks, e),
           Verify(t, t.kid, ks)
    PROVE  t.iss = e
BY DEF Verify, VerifyJwt, OwnedBy

(* What validateTrustChain accepts, when every readable document is        *)
(* honest, is a path to the owner of the anchor's keys.                    *)
LEMMA ValidatedChainIsPath ==
    ASSUME NEW S, \A t \in S : Honest(t),
           NEW anchorConf \in S, anchorConf.sub = Anchor,
           NEW c \in Seq(S \cup {Unreadable}),
           ValidateTrustChain(anchorConf, c)
    PROVE  /\ c[Len(c)].iss = Anchor
           /\ \A i \in 1 .. (Len(c) - 1) : c[i].iss = c[i + 1].sub
<1>1. Len(c) \in Nat \ {0}
    BY DEF ValidateTrustChain
<1>2. \A i \in 1 .. Len(c) : Honest(c[i])
    <2> SUFFICES ASSUME NEW i \in 1 .. Len(c) PROVE Honest(c[i])
        OBVIOUS
    <2>1. c[i] \in S \cup {Unreadable}
        OBVIOUS
    <2>2. c[i].shape # {}
        BY DEF ValidateTrustChain, Parses
    <2>3. Unreadable.shape = {}
        BY DEF Unreadable, Configuration
    <2> QED
        BY <2>1, <2>2, <2>3
<1>3. \A i \in 1 .. Len(c) : Verify(c[i], c[i].kid, SelectKeys(anchorConf, c, i))
    BY DEF ValidateTrustChain
<1>4. c[Len(c)].iss = Anchor
    <2>1. SelectKeys(anchorConf, c, Len(c)) = anchorConf.jwks
        BY DEF SelectKeys
    <2>2. OwnedBy(anchorConf.jwks, Anchor)
        BY DEF Honest
    <2> QED
        BY <1>1, <1>2, <1>3, <2>1, <2>2, VerifiedIssuer DEF Honest
<1>5. ASSUME NEW i \in 1 .. (Len(c) - 1)
      PROVE  c[i].iss = c[i + 1].sub
    <2>1. i \in 1 .. Len(c) /\ i + 1 \in 1 .. Len(c) /\ i # Len(c)
        BY <1>1
    <2>2. SelectKeys(anchorConf, c, i) = c[i + 1].jwks
        BY <2>1 DEF SelectKeys
    <2>3. OwnedBy(c[i + 1].jwks, c[i + 1].sub)
        BY <1>2, <2>1 DEF Honest
    <2>4. Owner(c[i].sig) = c[i].iss
        BY <1>2, <2>1 DEF Honest
    <2> QED
        BY <1>3, <2>1, <2>2, <2>3, <2>4, VerifiedIssuer
<1> QED
    BY <1>4, <1>5
-----------------------------------------------------------------------------
(* Every key set starts as the first key of its owner.                     *)
LEMMA InitKeySet ==
    ASSUME NEW e \in Entity
    PROVE  <<<<e, 1>>>> \in KeySet(e)
<1>1. <<e, 1>> \in Key
    BY EntityAssumption DEF Key
<1> QED
    BY <1>1 DEF KeySet, OwnedBy, Owner

LEMMA InitInv == Init => Inv
<1> SUFFICES ASSUME Init PROVE Inv
    OBVIOUS
<1>1. \A e \in Entity : jwks[e] \in KeySet(e)
    BY InitKeySet DEF Init
<1>2. \A p \in Superior : statement[p] \in Token /\ Honest(statement[p])
    <2> SUFFICES ASSUME NEW p \in Superior
                 PROVE  statement[p] \in Token /\ Honest(statement[p])
        OBVIOUS
    <2>1. p[1] \in Entity /\ p[2] \in Entity
        BY EntityAssumption
    <2> QED
        BY <2>1, InitKeySet, StatementHonest DEF Init
<1>3. \A t \in published : t \in Token /\ Honest(t)
    BY <1>1, <1>2, ConfigurationHonest DEF Init
<1>4. TypeOK
    <2>1. jwks \in [Entity -> Seq(Key)] /\ \A e \in Entity : jwks[e] # <<>>
        BY <1>1 DEF Init, KeySet
    <2>2. statement \in [Superior -> Token]
        BY <1>2 DEF Init
    <2>3. call = NoCall /\ rotations \in 0 .. MaxRotations
        BY EntityAssumption DEF Init
    <2> QED
        BY <1>3, <2>1, <2>2, <2>3 DEF TypeOK
<1>5. AcceptedChainIsPath
    BY DEF Init, NoCall, AcceptedChainIsPath
<1> QED
    BY <1>1, <1>3, <1>4, <1>5 DEF Inv

(* A step that publishes one more honest document and leaves the last call *)
(* alone keeps what the invariant says of documents and of the call.       *)
LEMMA PublishKeepsInv ==
    ASSUME Inv, NEW t \in Token, Honest(t),
           published' = published \cup {t}, UNCHANGED call
    PROVE  /\ published' \subseteq Token
           /\ \A u \in published' : Honest(u)
           /\ AcceptedChainIsPath'
           /\ \/ call' = NoCall
              \/ /\ call'.status \in {"accepted", "rejected"}
                 /\ call'.anchorConf \in published'
                 /\ call'.chain \in Seq(published' \cup {Unreadable})
                 /\ call'.renewOnFail \in BOOLEAN
<1>1. published' \subseteq Token /\ \A u \in published' : Honest(u)
    BY DEF Inv, TypeOK
<1>2. AcceptedChainIsPath'
    BY DEF Inv, AcceptedChainIsPath
<1>3. ASSUME call.chain \in Seq(published \cup {Unreadable})
      PROVE  call'.chain \in Seq(published' \cup {Unreadable})
    BY <1>3
<1> QED
    BY <1>1, <1>2, <1>3 DEF Inv, TypeOK

LEMMA NextInv == Inv /\ [Next]_vars => Inv'
<1> SUFFICES ASSUME Inv, [Next]_vars PROVE Inv'
    OBVIOUS
<1>1. ASSUME NEW e \in Entity, RotateKey(e) PROVE Inv'
    <2> DEFINE new == <<e, SigningKey(jwks[e])[2] + 1>>
    <2>1. PICK ks \in {<<new>>, Append(jwks[e], new)} :
            /\ jwks' = [jwks EXCEPT ![e] = ks]
            /\ published' = published \cup {Configuration(e, ks)}
        BY <1>1 DEF RotateKey
    <2>2. jwks[e] \in Seq(Key) /\ jwks[e] # <<>> /\ OwnedBy(jwks[e], e)
        BY DEF Inv, KeySet
    <2>3. SigningKey(jwks[e]) \in Key
        BY <2>2 DEF SigningKey
    <2>4. new \in Key /\ Owner(new) = e
        BY <1>1, <2>3, EntityAssumption DEF RotateKey, Key, Owner
    <2>5. ks \in KeySet(e)
        <3>1. CASE ks = <<new>>
            BY <2>4, <3>1 DEF KeySet, OwnedBy
        <3>2. CASE ks = Append(jwks[e], new)
            <4> HIDE DEF new
            <4>1. ks \in Seq(Key) /\ Len(ks) = Len(jwks[e]) + 1
                BY <2>2, <2>4, <3>2
            <4>2. ASSUME NEW i \in 1 .. Len(ks) PROVE Owner(ks[i]) = e
                <5>1. CASE i = Len(ks)
                    BY <2>2, <2>4, <3>2, <4>1, <5>1
                <5>2. CASE i \in 1 .. Len(jwks[e])
                    <6>1. ks[i] = jwks[e][i]
                        BY <2>2, <3>2, <5>2
                    <6> QED
                        BY <2>2, <5>2, <6>1 DEF OwnedBy
                <5> QED
                    BY <2>2, <4>1, <5>1, <5>2
            <4>3. ks # <<>>
                BY <2>2, <4>1
            <4> QED
                BY <4>1, <4>2, <4>3 DEF KeySet, OwnedBy
        <3> QED
            BY <2>1, <3>1, <3>2
    <2>6. Configuration(e, ks) \in Token /\ Honest(Configuration(e, ks))
        BY <2>5, ConfigurationHonest
    <2>7. \A f \in Entity : jwks'[f] \in KeySet(f)
        BY <2>1, <2>5 DEF Inv, TypeOK
    <2>8. jwks' \in [Entity -> Seq(Key)] /\ \A f \in Entity : jwks'[f] # <<>>
        BY <2>1, <2>5, <2>7 DEF Inv, TypeOK, KeySet
    <2>9. statement' \in [Superior -> Token] /\ rotations' \in 0 .. MaxRotations
        BY <1>1, EntityAssumption DEF RotateKey, Inv, TypeOK
    <2>10. UNCHANGED call
        BY <1>1 DEF RotateKey
    <2> QED
        BY <2>1, <2>6, <2>7, <2>8, <2>9, <2>10, PublishKeepsInv
        DEF Inv, TypeOK
<1>2. ASSUME NEW p \in Superior, RefreshStatement(p) PROVE Inv'
    <2> DEFINE new == Statement(p[1], p[2], jwks[p[1]], jwks[p[2]])
    <2>1. p[1] \in Entity /\ p[2] \in Entity
        BY EntityAssumption
    <2>2. new \in Token /\ Honest(new)
        BY <2>1, StatementHonest DEF Inv
    <2>3. /\ statement' = [statement EXCEPT ![p] = new]
          /\ published' = published \cup {new}
          /\ UNCHANGED <<jwks, call, rotations>>
        BY <1>2 DEF RefreshStatement
    <2>4. statement' \in [Superior -> Token]
        BY <2>2, <2>3 DEF Inv, TypeOK
    <2> QED
        BY <2>2, <2>3, <2>4, PublishKeepsInv DEF Inv, TypeOK
<1>3. ASSUME CallVerify PROVE Inv'
    <2>1. PICK anchorConf \in AnchorConfs, c \in Chains, r \in BOOLEAN :
            VerifyTrustChain(anchorConf, c, r)
        BY <1>3 DEF CallVerify
    <2>2. PICK n \in 0 .. MaxChain : c \in [1 .. n -> published \cup {Unreadable}]
        BY <2>1 DEF Chains
    <2>3. c \in Seq(published \cup {Unreadable})
        BY <2>2, EntityAssumption
    <2>4. anchorConf \in published /\ anchorConf.sub = Anchor
        BY <2>1 DEF AnchorConfs, Inv, Honest
    <2>5. /\ call' = [status |-> IF ValidateTrustChain(anchorConf, c)
                                 THEN "accepted" ELSE "rejected",
                      anchorConf |-> anchorConf, chain |-> c,
                      renewOnFail |-> r]
          /\ UNCHANGED <<jwks, statement, published, rotations>>
        BY <2>1 DEF VerifyTrustChain
    <2>6. AcceptedChainIsPath'
        <3> SUFFICES ASSUME ValidateTrustChain(anchorConf, c)
                     PROVE  /\ c[Len(c)].iss = Anchor
                            /\ \A i \in 1 .. (Len(c) - 1) : c[i].iss = c[i + 1].sub
            BY <2>5 DEF AcceptedChainIsPath
        <3> QED
            BY <2>3, <2>4, ValidatedChainIsPath DEF Inv
    <2>7. TypeOK'
        BY <2>3, <2>4, <2>5 DEF Inv, TypeOK
    <2> QED
        BY <2>5, <2>6, <2>7 DEF Inv
<1>4. ASSUME Return PROVE Inv'
    BY <1>4 DEF Return, Inv, TypeOK, NoCall, AcceptedChainIsPath
<1>5. ASSUME UNCHANGED vars PROVE Inv'
    BY <1>5 DEF vars, Inv, TypeOK, AcceptedChainIsPath
<1> QED
    BY <1>1, <1>2, <1>3, <1>4, <1>5 DEF Next

(* In every federation and for chains of every length, whatever            *)
(* verifyTrustChain accepts is a path from the first document's issuer to  *)
(* the trust anchor, although the code compares signatures only.           *)
THEOREM AcceptedChains == Spec => [](TypeOK /\ AcceptedChainIsPath)
<1>1. Inv => TypeOK /\ AcceptedChainIsPath
    BY DEF Inv
<1> QED
    BY <1>1, InitInv, NextInv, PTL DEF Spec

-----------------------------------------------------------------------------
(* The keys of a set stand in the order in which they were generated, so   *)
(* no key is listed twice.                                                 *)
Ascending(ks) == \A i \in 1 .. Len(ks) : \A j \in 1 .. (i - 1) : ks[j][2] < ks[i][2]

KeysAscend == \A e \in Entity : Ascending(jwks[e])

(* A kid tells the keys of one entity apart, as a thumbprint does.         *)
DistinctKids ==
    \A k, l \in Key : Owner(k) = Owner(l) /\ KidOf(k) = KidOf(l) => k = l

LEMMA InitAscend == Init => KeysAscend
BY DEF Init, KeysAscend, Ascending

LEMMA NextAscend == Inv /\ KeysAscend /\ [Next]_vars => KeysAscend'
<1> SUFFICES ASSUME Inv, KeysAscend, [Next]_vars PROVE KeysAscend'
    OBVIOUS
<1>1. ASSUME NEW e \in Entity, RotateKey(e) PROVE KeysAscend'
    <2> DEFINE new == <<e, SigningKey(jwks[e])[2] + 1>>
    <2>1. PICK ks \in {<<new>>, Append(jwks[e], new)} : jwks' = [jwks EXCEPT ![e] = ks]
        BY <1>1 DEF RotateKey
    <2>2. jwks[e] \in Seq(Key) /\ jwks[e] # <<>> /\ Ascending(jwks[e])
        BY DEF Inv, TypeOK, KeysAscend
    <2>3. Ascending(ks)
        <3>1. CASE ks = <<new>>
            BY <3>1 DEF Ascending
        <3>2. CASE ks = Append(jwks[e], new)
            <4> DEFINE n == Len(jwks[e])
            <4>1. n \in Nat \ {0} /\ \A i \in 1 .. n : jwks[e][i] \in Key
                BY <2>2
            <4>2. \A i \in 1 .. n : jwks[e][i][2] \in Nat
                BY <4>1, EntityAssumption DEF Key
            <4>3. new[2] = jwks[e][n][2] + 1
                BY DEF SigningKey
            <4> HIDE DEF new
            <4>4. Len(ks) = n + 1 /\ ks[n + 1] = new /\ \A i \in 1 .. n : ks[i] = jwks[e][i]
                BY <2>2, <3>2
            <4> HIDE DEF n
            <4>5. ASSUME NEW i \in 1 .. Len(ks), NEW j \in 1 .. (i - 1)
                  PROVE  ks[j][2] < ks[i][2]
                <5>1. CASE i = n + 1
                    <6>1. j \in 1 .. n /\ n \in 1 .. n
                        BY <4>1, <5>1
                    <6>2. j = n \/ jwks[e][j][2] < jwks[e][n][2]
                        BY <2>2, <4>1, <6>1 DEF Ascending, n
                    <6> QED
                        <7>1. ks[i][2] = jwks[e][n][2] + 1 /\ ks[j] = jwks[e][j]
                            BY <4>3, <4>4, <5>1, <6>1
                        <7>2. jwks[e][n][2] \in Nat /\ jwks[e][j][2] \in Nat
                            BY <4>2, <6>1
                        <7> QED
                            BY <6>2, <7>1, <7>2
                <5>2. CASE i # n + 1
                    <6>1. i \in 1 .. n /\ j \in 1 .. n
                        BY <4>1, <4>4, <5>2
                    <6>2. jwks[e][j][2] < jwks[e][i][2]
                        BY <2>2, <6>1 DEF Ascending, n
                    <6> QED
                        BY <4>4, <6>1, <6>2
                <5> QED
                    BY <5>1, <5>2
            <4> QED
                BY <4>5 DEF Ascending
        <3> QED
            BY <2>1, <3>1, <3>2
    <2> QED
        BY <2>1, <2>3 DEF Inv, TypeOK, KeysAscend
<1>2. ASSUME UNCHANGED jwks PROVE KeysAscend'
    BY <1>2 DEF KeysAscend
<1> QED
    BY <1>1, <1>2 DEF Next, vars, RefreshStatement, CallVerify, VerifyTrustChain, Return

(* jwks.find tries only the first key with the kid of the header: what was *)
(* signed with the last key of a set is verified with this set all the same*)
LEMMA LastKeyVerifies ==
    ASSUME DistinctKids, NEW e \in Entity, NEW ks \in KeySet(e), Ascending(ks),
           NEW t, t.sig = SigningKey(ks), t.kid = KidOf(SigningKey(ks))
    PROVE  Verify(t, t.kid, ks)
<1>1. Len(ks) \in 1 .. Len(ks)
    BY DEF KeySet
<1>2. ASSUME NEW j \in 1 .. (Len(ks) - 1) PROVE KidOf(ks[j]) # KidOf(ks[Len(ks)])
    <2>1. /\ j \in 1 .. Len(ks) /\ ks[j] \in Key /\ ks[Len(ks)] \in Key
          /\ Owner(ks[j]) = e /\ Owner(ks[Len(ks)]) = e
        BY <1>1 DEF KeySet, OwnedBy
    <2>2. ks[j][2] < ks[Len(ks)][2]
        BY <1>1 DEF Ascending
    <2>3. ks[j] # ks[Len(ks)]
        BY <2>1, <2>2, EntityAssumption DEF Key
    <2> QED
        BY <2>1, <2>3 DEF DistinctKids
<1> QED
    BY <1>1, <1>2 DEF Verify, VerifyJwt, SigningKey

(* The document in place i is signed with the last key of the set it is    *)
(* checked against.                                                        *)
WellSigned(anchorConf, c, i) ==
    \E e \in Entity :
        /\ SelectKeys(anchorConf, c, i) = jwks[e]
        /\ c[i].sig = SigningKey(jwks[e])
        /\ c[i].kid = KidOf(SigningKey(jwks[e]))

LEMMA WellSignedVerifies ==
    ASSUME Inv, KeysAscend, DistinctKids, NEW anchorConf, NEW c, NEW i,
           WellSigned(anchorConf, c, i)
    PROVE  Verify(c[i], c[i].kid, SelectKeys(anchorConf, c, i))
<1>1. PICK e \in Entity : /\ SelectKeys(anchorConf, c, i) = jwks[e]
                          /\ c[i].sig = SigningKey(jwks[e])
                          /\ c[i].kid = KidOf(SigningKey(jwks[e]))
    BY DEF WellSigned
<1>2. jwks[e] \in KeySet(e) /\ Ascending(jwks[e])
    BY DEF Inv, KeysAscend
<1> QED
    BY <1>1, <1>2, LastKeyVerifies

(* The documents of a path, each made from the present keys, validate with *)
(* and without the anchor's own configuration.                             *)
LEMMA SignedPathValidates ==
    ASSUME Inv, KeysAscend, DistinctKids, NEW n \in Nat, n >= 2,
           NEW path \in [1 .. n -> Entity], path[n] = Anchor,
           NEW T, NEW chain \in Seq(T), Len(chain) = n,
           chain[1] = Configuration(path[1], jwks[path[1]]),
           \A i \in 2 .. n :
                chain[i] = Statement(path[i], path[i - 1], jwks[path[i]], jwks[path[i - 1]]),
           NEW anchorConf, anchorConf = Configuration(Anchor, jwks[Anchor])
    PROVE  /\ ValidateTrustChain(anchorConf, chain)
           /\ ValidateTrustChain(anchorConf, Append(chain, anchorConf))
<1> DEFINE longer == Append(chain, anchorConf)
<1>1. /\ \A i \in 1 .. n : chain[i].sig = SigningKey(jwks[path[i]])
      /\ \A i \in 1 .. n : chain[i].kid = KidOf(SigningKey(jwks[path[i]]))
      /\ \A i \in 1 .. (n - 1) : chain[i + 1].jwks = jwks[path[i]]
      /\ "EC" \in chain[1].shape
      /\ \A i \in 2 .. n : "ES" \in chain[i].shape
    <2>1. ASSUME NEW i \in 1 .. n
          PROVE  /\ chain[i].sig = SigningKey(jwks[path[i]])
                 /\ chain[i].kid = KidOf(SigningKey(jwks[path[i]]))
        <3>1. CASE i = 1
            BY <3>1 DEF Configuration
        <3>2. CASE i # 1
            <4>1. chain[i] = Statement(path[i], path[i - 1], jwks[path[i]], jwks[path[i - 1]])
                BY <3>2
            <4> QED
                BY <4>1 DEF Statement
        <3> QED
            BY <3>1, <3>2
    <2>2. ASSUME NEW i \in 1 .. (n - 1) PROVE chain[i + 1].jwks = jwks[path[i]]
        <3>1. i + 1 \in 2 .. n /\ (i + 1) - 1 = i
            OBVIOUS
        <3>2. chain[i + 1] = Statement(path[i + 1], path[i], jwks[path[i + 1]], jwks[path[i]])
            BY <3>1
        <3> QED
            BY <3>2 DEF Statement
    <2>3. "EC" \in chain[1].shape
        BY DEF Configuration
    <2>4. ASSUME NEW i \in 2 .. n PROVE "ES" \in chain[i].shape
        <3>1. chain[i] = Statement(path[i], path[i - 1], jwks[path[i]], jwks[path[i - 1]])
            OBVIOUS
        <3> QED
            BY <3>1 DEF Statement
    <2> QED
        BY <2>1, <2>2, <2>3, <2>4
<1>2. /\ anchorConf.jwks = jwks[Anchor] /\ "EC" \in anchorConf.shape
      /\ anchorConf.sig = SigningKey(jwks[Anchor])
      /\ anchorConf.kid = KidOf(SigningKey(jwks[Anchor]))
    BY DEF Configuration
<1>3. ValidateTrustChain(anchorConf, chain)
    <2>1. ASSUME NEW i \in 1 .. Len(chain)
          PROVE  Parses(chain, i) /\ WellSigned(anchorConf, chain, i)
        <3>1. Parses(chain, i)
            <4>1. CASE i = 1
                <5>1. "EC" \in SelectTokenShape(chain, i)
                    BY <4>1 DEF SelectTokenShape
                <5> QED
                    BY <1>1, <4>1, <5>1 DEF Parses
            <4>2. CASE i \in 2 .. n
                <5>1. "ES" \in SelectTokenShape(chain, i)
                    BY <4>2 DEF SelectTokenShape
                <5> QED
                    BY <1>1, <4>2, <5>1 DEF Parses
            <4> QED
                BY <4>1, <4>2
        <3>2. SelectKeys(anchorConf, chain, i) = jwks[path[i]]
            BY <1>1, <1>2 DEF SelectKeys
        <3> QED
            BY <1>1, <3>1, <3>2 DEF WellSigned
    <2> QED
        BY <2>1, WellSignedVerifies DEF ValidateTrustChain
<1>4. ValidateTrustChain(anchorConf, longer)
    <2>1. /\ Len(longer) = n + 1 /\ longer[n + 1] = anchorConf
          /\ \A i \in 1 .. n : longer[i] = chain[i]
          /\ longer # <<>>
        OBVIOUS
    <2> HIDE DEF longer
    <2>2. ASSUME NEW i \in 1 .. Len(longer)
          PROVE  Parses(longer, i) /\ WellSigned(anchorConf, longer, i)
        <3>1. Parses(longer, i)
            <4>1. CASE i = 1
                <5>1. "EC" \in longer[i].shape
                    BY <1>1, <2>1, <4>1
                <5>2. "EC" \in SelectTokenShape(longer, i)
                    BY <4>1 DEF SelectTokenShape
                <5> QED
                    BY <5>1, <5>2 DEF Parses
            <4>2. CASE i \in 2 .. n
                <5>1. "ES" \in longer[i].shape
                    BY <1>1, <2>1, <4>2
                <5>2. "ES" \in SelectTokenShape(longer, i)
                    BY <4>2 DEF SelectTokenShape
                <5> QED
                    BY <5>1, <5>2 DEF Parses
            <4>3. CASE i = n + 1
                <5>1. "EC" \in longer[i].shape
                    BY <1>2, <2>1, <4>3
                <5>2. "EC" \in SelectTokenShape(longer, i)
                    BY <2>1, <4>3 DEF SelectTokenShape
                <5> QED
                    BY <5>1, <5>2 DEF Parses
            <4> QED
                BY <2>1, <4>1, <4>2, <4>3
        <3>2. CASE i = n + 1
            BY <1>2, <2>1, <3>1, <3>2, EntityAssumption DEF WellSigned, SelectKeys
        <3>3. CASE i = n
            <4>1. SelectKeys(anchorConf, longer, i) = jwks[path[i]]
                BY <1>2, <2>1, <3>3 DEF SelectKeys
            <4> QED
                BY <1>1, <2>1, <3>1, <3>3, <4>1 DEF WellSigned
        <3>4. CASE i \in 1 .. (n - 1)
            <4>1. longer[i] = chain[i] /\ longer[i + 1] = chain[i + 1]
                BY <2>1, <3>4
            <4>2. SelectKeys(anchorConf, longer, i) = jwks[path[i]]
                BY <1>1, <2>1, <3>4, <4>1 DEF SelectKeys
            <4>3. path[i] \in Entity /\ i \in 1 .. n
                BY <3>4
            <4>4. /\ longer[i].sig = SigningKey(jwks[path[i]])
                  /\ longer[i].kid = KidOf(SigningKey(jwks[path[i]]))
                BY <1>1, <4>1, <4>3
            <4> QED
                BY <3>1, <4>2, <4>3, <4>4 DEF WellSigned
        <3> QED
            BY <2>1, <3>2, <3>3, <3>4
    <2> QED
        BY <2>1, <2>2, WellSignedVerifies DEF ValidateTrustChain
<1> QED
    BY <1>3, <1>4

LEMMA RefreshedPath == Inv /\ KeysAscend /\ DistinctKids => RefreshedPathIsAccepted
<1> SUFFICES ASSUME Inv, KeysAscend, DistinctKids, NEW path \in PathsToAnchor,
                    \A i \in 2 .. Len(path) :
                        ServedChain(path)[i] =
                            Statement(path[i], path[i - 1], jwks[path[i]], jwks[path[i - 1]])
             PROVE  LET anchorConf == Configuration(Anchor, jwks[Anchor])
                        chain == ServedChain(path)
                    IN  /\ ValidateTrustChain(anchorConf, chain)
                        /\ ValidateTrustChain(anchorConf, Append(chain, anchorConf))
    BY DEF RefreshedPathIsAccepted
<1>1. PICK n \in 2 .. MaxChain : path \in [1 .. n -> Entity]
    BY DEF PathsToAnchor
<1>2. n \in Nat /\ n >= 2 /\ Len(path) = n
    BY <1>1, EntityAssumption
<1>3. path[n] = Anchor
    BY <1>2 DEF PathsToAnchor
<1> DEFINE T == {ServedChain(path)[i] : i \in 1 .. n}
<1>4. ServedChain(path) \in [1 .. n -> T]
    BY <1>2 DEF ServedChain
<1>5. ServedChain(path)[1] = Configuration(path[1], jwks[path[1]])
    BY <1>2 DEF ServedChain
<1> HIDE DEF T
<1>6. ServedChain(path) \in Seq(T) /\ Len(ServedChain(path)) = n
    BY <1>2, <1>4
<1> QED
    BY <1>1, <1>2, <1>3, <1>5, <1>6, SignedPathValidates

(* No false rejection, in every federation, for paths of every length and  *)
(* after any rotations: validateTrustChain tries one key per document, and *)
(* it is the right one as long as a kid tells the keys of an entity apart. *)
THEOREM FreshPathsAccepted ==
    ASSUME DistinctKids
    PROVE  Spec => []RefreshedPathIsAccepted
<1>1. Inv /\ KeysAscend => RefreshedPathIsAccepted
    BY DistinctKids, RefreshedPath
<1> QED
    BY <1>1, InitInv, InitAscend, NextInv, NextAscend, PTL DEF Spec
=============================================================================
