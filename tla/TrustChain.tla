----------------------------- MODULE TrustChain -----------------------------
(***************************************************************************)
(* The federation trust chain of src/src/trust: chain.ts (the validation   *)
(* and the renewal of a chain) and index.ts (verifyTrustChain).            *)
(*                                                                         *)
(* The federation is the environment: its entities rotate their keys,      *)
(* re-sign their configurations and refresh the statements they make about *)
(* their subordinates, each at its own pace.  A chain handed to the wallet *)
(* (it travels in the header of the wallet attestation) is any sequence of *)
(* documents published at any time, in any order, or of unreadable ones.   *)
(***************************************************************************)
EXTENDS Naturals, Sequences

CONSTANTS
    Entity,         \* the entities of the federation
    Anchor,         \* the trust anchor the caller knows
    Superior,       \* pairs <<superior, subordinate>>
    TrustMarked,    \* entities whose configuration carries trust_marks
    MaxGen,         \* bound: keys an entity generates in a behaviour
    MaxRotations,   \* bound: rotations in a behaviour
    MaxChain,       \* bound: length of the chains handed to the wallet
    KidOf(_)        \* the kid under which a key is listed in a JWK set

ASSUME EntityAssumption ==
    /\ Anchor \in Entity
    /\ Superior \subseteq Entity \X Entity
    /\ TrustMarked \subseteq Entity
    /\ MaxGen \in Nat \ {0}
    /\ MaxRotations \in Nat
    /\ MaxChain \in Nat \ {0}

VARIABLES
    jwks,       \* the JWK set each entity publishes; it signs with the last one
    statement,  \* the statement each superior serves about a subordinate
    published,  \* every document published so far
    call,       \* the last call of verifyTrustChain
    rotations   \* how many rotations happened (for the bound)

vars == <<jwks, statement, published, call, rotations>>

(* A key is the g-th one its owner generated.                              *)
Key == Entity \X (1 .. MaxGen)

Owner(k) == k[1]

(* A signed document: the schemas it parses as, its claims, the kid of its *)
(* header and the key that really signed it.                               *)
Token == [shape : SUBSET {"EC", "ES"}, iss : Entity, sub : Entity,
          jwks : Seq(Key), kid : {KidOf(k) : k \in Key}, sig : Key]

SigningKey(ks) == ks[Len(ks)]

(* types.ts: a configuration needs metadata.federation_entity, a statement *)
(* needs trust_marks; a configuration with trust_marks parses as both.     *)
Configuration(e, ks) ==
    [shape |-> IF e \in TrustMarked THEN {"EC", "ES"} ELSE {"EC"},
     iss |-> e, sub |-> e, jwks |-> ks,
     kid |-> KidOf(SigningKey(ks)), sig |-> SigningKey(ks)]

Statement(sup, sub, supKeys, subKeys) ==
    [shape |-> {"ES"}, iss |-> sup, sub |-> sub, jwks |-> subKeys,
     kid |-> KidOf(SigningKey(supKeys)), sig |-> SigningKey(supKeys)]

(* An element that is empty or decodes to no known shape.                  *)
Unreadable == [Configuration(Anchor, <<<<Anchor, 1>>>>) EXCEPT !.shape = {}]

-----------------------------------------------------------------------------
(* chain.ts: validateTrustChain and its helpers.                           *)

(* verify of the JWT library: the key made the signature of the token.     *)
VerifyJwt(token, jwk) == token.sig = jwk

(* jwks.find returns the FIRST key with the kid, and only that is tried.   *)
Verify(token, kid, keys) ==
    \E i \in 1 .. Len(keys) :
        /\ KidOf(keys[i]) = kid
        /\ \A j \in 1 .. (i - 1) : KidOf(keys[j]) # kid
        /\ VerifyJwt(token, keys[i])

SelectTokenShape_AnchorLast(chain, i) ==
    IF i = 1 \/ i = Len(chain) THEN {"EC"} ELSE {"ES"}

SelectTokenShape(chain, i) ==
    IF i = 1 THEN {"EC"}
    ELSE IF i = Len(chain) THEN {"ES", "EC"}
    ELSE {"ES"}

Parses(chain, i) == chain[i].shape \cap SelectTokenShape(chain, i) # {}

SelectKeys(anchorConf, chain, i) ==
    IF i = Len(chain) THEN anchorConf.jwks ELSE chain[i + 1].jwks

ValidateTrustChain_AnchorUnchecked(anchorConf, chain) ==
    /\ chain # <<>>
    /\ \A i \in 1 .. Len(chain) :
        /\ Parses(chain, i)
        /\ i < Len(chain) =>
            Verify(chain[i], chain[i].kid, SelectKeys(anchorConf, chain, i))

(* TRUE when the promise resolves.  Every element is parsed before any     *)
(* signature is checked; one failure of either kind rejects the whole.     *)
ValidateTrustChain(anchorConf, chain) ==
    /\ chain # <<>>
    /\ \A i \in 1 .. Len(chain) :
        /\ Parses(chain, i)
        /\ Verify(chain[i], chain[i].kid, SelectKeys(anchorConf, chain, i))

(* What the endpoints of the federation serve now.                         *)
FetchConfiguration(e) == Configuration(e, jwks[e])

FetchStatement(iss, sub) ==
    IF <<iss, sub>> \in Superior THEN statement[<<iss, sub>>] ELSE Unreadable

(* chain.ts: renewTrustChain when every endpoint answers.  A document that *)
(* parses as a configuration is fetched as one, whatever else it is.       *)
RenewTrustChain(chain) ==
    [i \in 1 .. Len(chain) |->
        IF "EC" \in chain[i].shape THEN FetchConfiguration(chain[i].iss)
        ELSE FetchStatement(chain[i].iss, chain[i].sub)]

-----------------------------------------------------------------------------
NoCall == [status |-> "idle"]

Init ==
    /\ jwks = [e \in Entity |-> <<<<e, 1>>>>]
    /\ statement = [p \in Superior |->
            Statement(p[1], p[2], <<<<p[1], 1>>>>, <<<<p[2], 1>>>>)]
    /\ published = {Configuration(e, jwks[e]) : e \in Entity}
                     \cup {statement[p] : p \in Superior}
    /\ call = NoCall
    /\ rotations = 0

(* Environment: an entity adds a key to its set, or replaces the set, and  *)
(* signs its configuration with the new key.                               *)
RotateKey(e) ==
    /\ rotations < MaxRotations
    /\ rotations' = rotations + 1
    /\ SigningKey(jwks[e])[2] < MaxGen
    /\ LET new == <<e, SigningKey(jwks[e])[2] + 1>>
       IN  \E ks \in {<<new>>, Append(jwks[e], new)} :
            /\ jwks' = [jwks EXCEPT ![e] = ks]
            /\ published' = published \cup {Configuration(e, ks)}
    /\ UNCHANGED <<statement, call>>

(* Environment: a superior refreshes its statement about a subordinate.    *)
RefreshStatement(p) ==
    LET new == Statement(p[1], p[2], jwks[p[1]], jwks[p[2]])
    IN  /\ statement' = [statement EXCEPT ![p] = new]
        /\ published' = published \cup {new}
        /\ UNCHANGED <<jwks, call, rotations>>

(* index.ts: verifyTrustChain.  The promise of validateTrustChain is       *)
(* returned from the try block without being awaited: a rejection leaves   *)
(* the function without entering the catch block, renewOnFail or not.      *)
VerifyTrustChain(anchorConf, chain, renewOnFail) ==
    /\ call' = [status |-> IF ValidateTrustChain(anchorConf, chain)
                           THEN "accepted" ELSE "rejected",
                anchorConf |-> anchorConf,
                chain |-> chain,
                renewOnFail |-> renewOnFail]
    /\ UNCHANGED <<jwks, statement, published, rotations>>

(* The anchor's configuration is one the caller obtained at some time.     *)
AnchorConfs == {t \in published : t.iss = Anchor /\ "EC" \in t.shape}

Chains ==
    UNION {[1 .. n -> published \cup {Unreadable}] : n \in 0 .. MaxChain}

CallVerify ==
    /\ call = NoCall
    /\ \E anchorConf \in AnchorConfs, chain \in Chains, r \in BOOLEAN :
            VerifyTrustChain(anchorConf, chain, r)

Return ==
    /\ call # NoCall
    /\ call' = NoCall
    /\ UNCHANGED <<jwks, statement, published, rotations>>

Next ==
    \/ \E e \in Entity : RotateKey(e)
    \/ \E p \in Superior : RefreshStatement(p)
    \/ CallVerify
    \/ Return

Spec == Init /\ [][Next]_vars
-----------------------------------------------------------------------------
(* Type invariant.                                                         *)
TypeOK ==
    /\ jwks \in [Entity -> Seq(Key)]
    /\ \A e \in Entity : jwks[e] # <<>>
    /\ statement \in [Superior -> Token]
    /\ published \subseteq Token
    /\ rotations \in 0 .. MaxRotations
    /\ \/ call = NoCall
       \/ /\ call.status \in {"accepted", "rejected"}
          /\ call.anchorConf \in published
          /\ call.chain \in Seq(published \cup {Unreadable})
          /\ call.renewOnFail \in BOOLEAN

(* validateTrustChain compares no iss and no sub: it only looks for each   *)
(* signature among the keys of the next element.  Still, a chain it        *)
(* accepts is a path of the federation, each document issued by the        *)
(* subject of the next one and the last one by the trust anchor, however   *)
(* old its documents are and whatever rotations happened between them.     *)
AcceptedChainIsPath ==
    call.status = "accepted" =>
        LET c == call.chain IN
        /\ c[Len(c)].iss = Anchor
        /\ \A i \in 1 .. (Len(c) - 1) : c[i].iss = c[i + 1].sub

(* The chain of the documents served now along a path of entities.         *)
ServedChain(path) ==
    [i \in 1 .. Len(path) |->
        IF i = 1 THEN Configuration(path[1], jwks[path[1]])
        ELSE statement[<<path[i], path[i - 1]>>]]

PathsToAnchor ==
    {path \in UNION {[1 .. n -> Entity] : n \in 2 .. MaxChain} :
        /\ path[Len(path)] = Anchor
        /\ \A i \in 2 .. Len(path) : <<path[i], path[i - 1]>> \in Superior}

(* No false rejection: once the superiors of a path have refreshed their   *)
(* statements, the chain they serve is accepted by validateTrustChain,     *)
(* with and without the anchor's own configuration as its last element,    *)
(* whatever rotations happened before.                                     *)
RefreshedPathIsAccepted ==
    \A path \in PathsToAnchor :
        LET anchorConf == Configuration(Anchor, jwks[Anchor])
            chain == ServedChain(path)
        IN  (\A i \in 2 .. Len(path) :
                chain[i] = Statement(path[i], path[i - 1],
                                     jwks[path[i]], jwks[path[i - 1]]))
            => /\ ValidateTrustChain(anchorConf, chain)
               /\ ValidateTrustChain(anchorConf, Append(chain, anchorConf))

(* index.ts promises "fast chain renewal": with renewOnFail, a chain is    *)
(* rejected only if its freshly fetched version does not validate either.  *)
(* The code does not keep this (README, Findings).                         *)
RejectedOnlyAfterRenewal ==
    [][call'.status = "rejected" /\ call'.renewOnFail =>
        ~ ValidateTrustChain(call'.anchorConf, RenewTrustChain(call'.chain))]_vars
=============================================================================
