# TLA+ verification of io-react-native-wallet

The library (`src/src`) lets a mobile application act as an IT-Wallet: it
creates a wallet instance at the wallet provider, obtains a wallet instance
attestation (WIA) for a key of the device, checks federation trust chains, and
obtains and presents credentials. The library holds no state of its own; the
keys live in the keystore under a tag, the rest in the Redux store of the
application (`src/example/src`), whose thunks call the library. Most of what can
go wrong lies between the two, at the `await`s: that is what the modules model.

## Inventory

| part | code | module |
|---|---|---|
| federation trust chain | `src/src/trust` | `TrustChain` |
| wallet instance, its slice | `src/src/wallet-instance`, `example/src/thunks/instance.ts`, `store/reducers/instance.ts` | `WalletInstance` |
| attestation, its slice and selector | `src/src/wallet-instance-attestation`, `example/src/thunks/attestation.ts`, `store/reducers/attestation.ts` | `WalletInstance` |
| trustmark | `src/src/credential/trustmark` | `WalletInstance` |
| persistence, session and instance resets | `example/src/store` | `WalletInstance` |
| credential issuance | `src/src/credential/issuance`, `src/src/utils/{par,pop,dpop}.ts`, `example/src/utils/credential.ts` | `Issuance`, `IssuanceContract` |
| PID flow, pid slice, login screens | `example/src/thunks/{pid,pidCieID}.ts`, `store/reducers/pid.ts`, `screens/PidScreen.tsx`, `screens/login` | `PidFlow` |
| credential slice, its thunks and screens | `store/reducers/credential.ts`, `thunks/{credential,trustmark}.ts`, `screens/{Credential,StatusAttestation,Trustmark}Screen.tsx` | `CredentialStore` (extends `PidFlow`) |
| login with the identity card | `example/src/components/cie`, `components/TestCieL3Scenario.tsx` | `CieReader`, and the modal in `PidFlow` |
| SD-JWT, parsing of credentials | `src/src/sd-jwt`, `credential/issuance/07-...` | `SdJwt`, `SdJwtHolder` |
| presentation | `src/src/credential/presentation` | `Presentation` (extends `SdJwt`) |
| status attestation | `src/src/credential/status`, error handler of `06-obtain-credential.ts` | `StatusAttestation` (extends `ResponseErrors`) |
| error mapping, provider client | `src/src/utils/{errors,misc}.ts`, `src/src/client` | `ResponseErrors`, `ProviderCalls` |
| schemas, encodings, generated types, layout | `src/src/**/types.ts`, ... | data, see *Not modelled* |

The hazards of each part, with the line where they bite, are listed in
`PROJECT.json`.

## Modules

Every action is the code of one async function between two awaits. Anything
that may come in at an await (another thunk, a reset, a redirect, a crash, the
clock) is another action.

**TrustChain.** Environment: entities rotate keys (`RotateKey`, adding to or
replacing the key set) and superiors refresh their statements
(`RefreshStatement`), each at its own pace. `published` keeps every document
ever published. `CallVerify` hands `verifyTrustChain` any sequence of them, or of
unreadable ones, with any configuration of the anchor. `ValidateTrustChain`
follows `chain.ts`: shapes by position, the first key with the kid of the header,
the keys of the next element or of the anchor. A signature is the key that made
it. `RenewTrustChain` is the renewal when every endpoint answers; no action uses
it, because the code never reaches it (see findings); a property does.

**WalletInstance.** The device (`wiaKey`, counters), the provider
(`registered`), the store (`keyTag`, `attestation`, three statuses), what
redux-persist wrote (`disk`), the cache of the memoised selector (`memo`) and the
thunks in flight (`th`). Slots in `Thunk` bound how many run at once. A thunk
that needs a WIA awaits `getAttestationThunk` inside itself: `op` says who goes on
after it (`AttestReturn`). Any await may reject (`...Rejected`), before or after the
provider has acted. `Restart` kills all thunks and rehydrates from `disk`.
`sessionReset` and `instanceReset` act alike on the state modelled (`Reset`). Time
is an integer; the two environments of the application are one provider.
`disturbed` is a history variable that no action reads: the last delete of the WIA
key took one that another refresh had generated and still counted on.

**Issuance.** One record per flow in `fl`. A flow reads the WIA key again at
every signature (client id, header, proof of possession, request), so each read
is its own step; a token that carries the key in its header takes two. All flows
share the entries under `WIA_KEYTAG` and `DPOP_KEYTAG` and the redirect URI.
`Redirect` delivers a code to all listening flows. The issuer is external: it
checks PKCE, client, proof of possession, DPoP binding, spends a code once, may
grant something else and may bind the credential to any key. `WiaDelete` and
`WiaGenerate` are the refresh of `WalletInstance` seen from here. PID flows
(`QueryFlow`) use response mode `query`, the others `form_post.jwt`.

**IssuanceContract.** What the caller may rely on, without the protocol: each
flow is begun, authorised, issued for, and then delivers its own credential or
fails. `Issuance` implements it under the mapping at the end of that module.

**PidFlow.** The pid slice (`pid`, `pidFlowParams`, `pidAsyncStatus`), the thunks in
flight, the issuer's view of a flow (`flows` pushed, codes `spent`), the SPID login
screen and the CIE L3 web view with its modal. Each extra reducer is an operator
(`OnPreparePending`, `OnContinueFulfilled`, ...), each thunk one action per await.
SPID and CIE L3 take two thunks with a web view in between; the second reads the
parameters from the store again and guesses its method (`GuessedMethod`). The
redirect may be reported twice, the screen may be left, a card error may come to a
view that is gone. A press on a button is allowed at any time, also while its
method is loading (the screens do not always hide it). `Patient` restricts the
user to one flow at a time.

**CredentialStore.** Extends `PidFlow` with the credential slice: credentials,
status attestations and trustmarks by type, their statuses, the thunks and the
three screens that dispatch them. `preparePidFlowParamsThunk` resets this slice in
the same step in which it goes on with the PID (`CredentialResetDispatched`); the
session and instance resets and a restart are joint steps of both slices
(`ResetAll`, `RestartAll`), persistence is not: each slice is written by itself.

**CieReader.** The web views opened one after the other, the calls of
`startCieAndroid` or `startCieiOS` under way (their awaits come in a different order
on each platform), the listeners, which are one set for the whole application, and
what was handed to the callbacks. `platform` is chosen in the initial state and
never changes. The reader and the card are external: the reader has one URL, that of
the start that set it last, and a reading goes to all listeners. `cardRead` is a
history of the readings: whose listener got one, and whose URL was signed. All
errors of the reader are one action, because the modal treats them alike.

**SdJwt.** Operators on tokens: the JWT with its `_sd` list, and what stands after
each separator. A path is the array it names and an index in it; the code writes
`verified_claims.claims` and searches the payload's own `_sd`. `filteredDisclosures` is a recursive function on the segments.
`SdJwtHolder` makes a state machine of a holder who discloses parts of parts, and
states the reference definitions.

**Presentation.** One record per flow; QR code, configuration, DPoP proof (header
and signature are two reads of the key), request object, consent, answer. Relying
parties rotate keys; a GET may be answered from a cache, an answer may be lost. The
attestation key is deleted and generated in two steps (`WiaDelete`, `WiaGenerate`), and
a flow that needs it in between fails.
`PrepareVpToken` uses `Disclose` of `SdJwt`.

**ResponseErrors, ProviderCalls, StatusAttestation.** `ResponseErrors` maps a
response (status and kind of body) to the error a caller sees: class, code,
status. `ProviderCalls` runs the four functions of the wallet provider against the
state of an instance, `StatusAttestation` the credential request and the status
flow against an issuer that grants, revokes and rotates keys, both with a gateway
that may answer with any status from 300 to 599, those included that the handlers
take for a decision of the provider or the issuer. Each outcome keeps who gave the
answer (`by`), which no code can see.

The `MC` modules give the constants. The `*Proofs` modules and
`PresentationReasons` hold the theorems. The names of `SdJwtHolder`, `ProviderCalls`,
`CieReader` and `PidFlow` have a prefix (`HolderInit`, `CallNext`, `CieSpec`,
`pidVars`), so that a module can extend them beside another component.
Definitions named `X_...` stand before `X` and are the plausible mistakes used to
see that each property can fail.

## Runs

| run | instance | checks |
|---|---|---|
| `trust_chain` | 4 entities, 2 rotations, chains up to 3 | `AcceptedChainIsPath`, `RefreshedPathIsAccepted` |
| `trust_chain_renewal` | 1 rotation | finding 1: `RejectedOnlyAfterRenewal` fails |
| `wallet_interleaved` | 2 thunks, 2 keys, 1 tag, time to 1 | `StoredTagIsRegistered`, `RefreshOnlyWhenNeeded`, `DoneMeansUsable`, `DoneMeansRevoked` |
| `wallet_concurrent` | 2 thunks, 1 key, 1 tag, time stands still, fair | `LoadingEnds` |
| `issuance` | 1 PID flow and 1 other, 2 WIA keys, 3 DPoP keys, 2 issuer keys, fair | `DeliveredIsOwn`, `LoneFlowFailsForAReason`, `ImplementsContract`, `FlowEnds` |
| `credential_store` | 1 PID thunk and 1 credential thunk, 1 type, 1 PID flow, 1 restart, fair | `LoadingHasThunk`, `DoneMeansPresent`, `DoneMeansPid`, `UsedParamsAreGone`, `LoadingEnds` |
| `credential_store_patient` | the same thunks, 2 types, 2 PIDs, one operation at a time | `CredentialsOfCurrentPid`, `ShownTrustmarkIsOwn`, `LoadingMeansGoingOn` |
| `cie_reader` | 2 views, 3 starts, either platform | `SuccessNeedsCard`, `CompletedOnce`, `OneListener` |
| `sd_jwt` | up to 2 hashes and 3 segments, 2 names, 2 values, 2 salts | `StillVerifies`, `RevealsExactly`, `IndexLeadsToClaim`, `ParsedIsDisclosed` |
| `presentation` | 2 flows, 2 relying parties that lose their RSA key, 2 key generations, 2 WIA keys, fair | `AnswersScannedClient`, `AcceptedIsConsented`, `RefusedForAReason`, `FlowEnds` |
| `provider_calls` | 2 callers, 4 calls, 4 gateway statuses | type, `FailureIsTyped`, `SuccessMeansDone`, `CodeTellsInstance`, `NonceTellsNothing` |
| `status_attestation` | 3 credentials, one without disclosures, 2 flows, 2 key generations, gateway status 404 | `AttestsOwnCredential`, `InvalidStatusIsTheIssuers` |

The type invariants of the components are part of the theorems below;
`provider_calls` also checks its own.

*Bounds.* Two keys, tags or issuer keys are an old and a new one; the third DPoP
key is one left by an earlier run. Two thunks or flows are enough for every pair
of steps to interleave. A chain of three has a first, a middle and a last
element, and one of two makes them coincide. `MaxTime` and `Ttl` let an
attestation be at its expiry instant and past it; in `wallet_concurrent` both are 0,
to keep the run with fairness small. Two tags beside two keys are out of reach in
`wallet_interleaved`; any number of either is in the theorems. When a bound on keys or tags is
reached, the generating step is no longer enabled but its rejection is. In
`credential_store` a PID thunk meets a credential thunk; a second PID thunk, or a
second flow, takes TLC too long, so that two PID flows overlap is only in
`PidSliceSafe`, for any number of them, and that two flows receive each other's
redirect only in `DeliveredCredentials` and `ContractRefinement`. The patient user of
`credential_store_patient` never meets a late answer or a second method: its three
properties are about what the code promises one operation at a time, and are false
otherwise (findings 8, 10 and 11). Its SPID redirects do not contain "cie"
(`SpidUrlHasCie`), without which `LoadingMeansGoingOn` is false as well (finding 7).
The gateway statuses are, for the provider, a redirect, two that its handlers take
for a decision and a failure, and for an issuer the one its handlers do. Three starts over two views let a start be overtaken by one
of the same view and by one of the next. Three segments hold two disclosures and a
separator, or two of one name and another. `RsaGen` gives the relying parties of
`presentation` a key to encrypt for in the first generation only, so that both
branches are met. `PersistPid` and `PersistCredentials` stop after the last
restart, when what they write can no longer be read. Four calls are two rounds of
two callers. `SYMMETRY` is over the thunks of `wallet_interleaved`, the callers of
`provider_calls` and the flows of `status_attestation`, which no constant tells
apart, and is not used with liveness.

*Deadlock* is not checked for `Issuance`, `Presentation`, `StatusAttestation`,
`ProviderCalls` and `CieReader`, where a bounded number of flows, calls or views
comes to an end; for the first two `FlowEnds` says what does come to an end.

*Fairness.* Weak fairness of each thunk's or flow's next step: a promise of the
platform settles one way or the other and the event loop runs what awaits it.
The wait for a redirect settles by the 120 second timeout of `until`. No fairness
is assumed of users, resets, the network's success or the clock. In `Presentation` the
consent screen (`PrepareResponse`) is the user's and not fair: `FlowEnds` is about the
way to the screen and the way from it. In
`CredentialStore` only the credential thunks are fair, the PID flow may stop
anywhere. The other modules have no fairness and no liveness property.

## Findings

Twenty places where the code does something else than a comment or a doc says.
The first is a run of its own, `trust_chain_renewal`. Each of the others is a
property stated in its module and false of the model; to see the shortest
behaviour, put the property in place of those of the configuration named, as an
`INVARIANT` or, where it is marked so, a `PROPERTY`. Paths are under `src/`.

1. `verifyTrustChain` never renews a chain: the promise is returned, not awaited,
   inside `try` (`src/trust/index.ts:42`; line 28: "Whether to renew the provided
   chain if the validation fails at first. Default: true").
   `RejectedOnlyAfterRenewal`.
2. `shouldRequestAttestationSelector` is memoised on the attestation only and
   misses its expiry (`example/src/store/reducers/attestation.ts:110`; line 108:
   "@returns true if the Wallet Instance Attestation is expired or not present").
   `SelectorIsExact`, `MCWalletInstanceInterleaved.cfg`.
3. A failed refresh leaves the old attestation with a replaced key, and the
   awaiting thunk continues with both (`example/src/thunks/attestation.ts:28`;
   `src/credential/issuance/04-complete-user-authorization.ts:149`: "The Wallet
   Instance's crypto context associated with the walletInstanceAttestation
   parameter"). `ContextMatchesAttestation`, the same.
4. An attestation that arrives after a reset is stored
   (`example/src/store/reducers/attestation.ts:35`; line 58: "Reset the attestation
   state when the instance is reset."). `NoAttestationWithoutInstance`, the same.
5. The trustmark's key check and its signature are separated by awaits
   (`src/credential/trustmark/get-credential-trustmark.ts:98`; line 47: "The public
   key used to sign the trustmark must the same used for the Wallet Instance
   Attestation."). `TrustmarkSignedByWiaKey`, the same.
6. Concurrent issuance flows replace each other's DPoP key
   (`example/src/utils/credential.ts:223`; line 222: "Generate the DPoP context which
   will be used for the whole issuance flow"). `OneDpopKeyPerFlow`, `MCIssuance.cfg`.
7. The continuation of a PID flow may settle the status of another method: when two
   flows overlap (`example/src/store/reducers/pid.ts:152`), and when it fails and the
   SPID redirect URL happens to contain "cie" (line 181), as the random base 36
   `state` in it may (`src/utils/par.ts:83`); line 146: "Sets the obtained credential
   and sets its state to isDone while resetting isLoading and hasError for the
   requested credential." `OutcomeUnderOwnMethod` (`PROPERTY`),
   `MCCredentialStore.cfg`.
8. A PID login that is abandoned stays loading
   (`example/src/store/reducers/pid.ts:128`; `example/src/store/types.ts:20`:
   "isLoading: whether the operation is in progress"). `LoadingMeansGoingOn`, the
   same.
9. A redirect that is reported twice marks a PID already obtained as an error
   (`example/src/store/reducers/pid.ts:178`; `example/src/store/types.ts:21`:
   "hasError: whether the operation has failed and the error that occurred").
   `ObtainedIsNotAnError` (`PROPERTY`), the same.
10. A credential that arrives after the reset for a new PID is stored
    (`example/src/store/reducers/credential.ts:121`; `example/src/thunks/pid.ts:97`:
    "Reset the credential state before obtaining a new PID").
    `CredentialsOfCurrentPid`, the same with `MaxFlow = 2`.
11. A trustmark that arrives after its screen was closed is stored
    (`example/src/store/reducers/credential.ts:218`; line 98: "Removes a trustmark
    from the store given a credential type"). `TrustmarkOnlyWhileShown`,
    `MCCredentialStore.cfg`.
12. A credential obtained again keeps the status attestation of the old one
    (`example/src/store/reducers/credential.ts:124`; line 32: "statusAttestation: the
    status attestation for the credentials"). `StatusOfStoredCredential`,
    `MCCredentialStorePatient.cfg`.
13. An error page in the CIE web view makes the error handler throw
    (`example/src/components/cie/component.tsx:173`; line 91: "Callback function in
    case of error."). `ErrorPageIsReported`, `MCCieReader.cfg`.
14. `disclose` fails on tokens with the trailing separator that `decode` expects
    (`src/sd-jwt/index.ts:110`; line 39: "token are expected in the form
    "sd-jwt~disclosure0~disclosure1~...~disclosureN~""). `ExpectedFormIsDisclosable`,
    `MCSdJwt.cfg`.
15. `getValueFromDisclosures` takes falsy values for missing ones
    (`src/sd-jwt/converters.ts:9`; line 8: "value didn't found, we return nothing").
    `FoundValueIsReturned`, the same.
16. A failed nonce request of `getAttestation` has no specific code
    (`src/wallet-instance-attestation/issuing.ts:94`; line 75: "@throws
    {WalletProviderResponseError} with a specific code for more context").
    `AttestationFailureIsSpecific`, `MCProviderCalls.cfg`.
17. An error response with a broken JSON body is reported as a `SyntaxError`
    (`src/utils/misc.ts:19`; line 8: "@throws UnexpectedStatusCodeError if the status
    is different from the one expected"). `UnexpectedStatusIsTyped`,
    `MCStatusAttestation.cfg`.
18. The paths that `disclose` returns name an array that is not the one searched: the
    hash is looked up in the payload's `_sd`, the path says
    `verified_claims.claims._sd` (`src/sd-jwt/index.ts:103`; line 75: "along with the
    path each claim can be found on the SD-JWT token"). The index is right
    (`IndexLeadsToClaim`). `PathsLeadToClaims`, `MCSdJwt.cfg`.
19. A 403 or 404 of whatever stands before the provider or the issuer is reported as
    their decision (`src/wallet-instance-attestation/issuing.ts:124`,
    `src/credential/status/02-status-attestation.ts:93`;
    `src/utils/error-codes.ts:37`: "thrown when obtaining a wallet instance attestation
    but the wallet instance is revoked", line 12: "thrown when a credential status is
    invalid"). The status alone is looked at. `RevokedMeansRevoked`,
    `MCProviderCalls.cfg`, and `InvalidMeansInvalid`, `MCStatusAttestation.cfg`.
20. A view may be handed the reading of a URL that another view's start has set, when
    starts overlap (`example/src/components/cie/manager.ts:19`;
    `example/src/components/cie/component.tsx:78`: "extrapolates the authentication URL
    necessary for CieManager to sign via certificate"). `OwnUrlIsRead`,
    `MCCieReader.cfg`.

None of 3, 5 and 6 makes a flow return a credential that is not its own
(`DeliveredIsOwn` holds): requests become inconsistent and are refused. 7 to 9 are
about what is shown: whatever overlaps, done means a PID (`DoneMeansPid`).

## Proofs

All for every value of the constants, from the named assumptions on constants
(`EntityAssumption`, `WalletAssumption`, `CallAssumption`, `IssuanceAssumption`,
`PidAssumption`, `CredentialAssumption`, `ReaderAssumption`, `HolderAssumption`,
`PresentationAssumption`, `VcAssumption`, `StatusAssumption`): the bounds are numbers;
`None` is none of the values it stands in for; a gateway answers with statuses in
300..599 (`GatewayAssumption`); in `StatusAssumption` no two credentials share a key; in `VcAssumption` the
credentials of a wallet verify, as `verifyAndParseCredential` has seen to. TLC
evaluates each of them on a run. A theorem that needs more says so in its `ASSUME`.

**Trust chain** (`TrustChainProofs`).

- `AcceptedChains`: `TypeOK` and `AcceptedChainIsPath`. The inductive invariant adds
  that every key set belongs to its entity and that every published document is
  *honest*: signed by its issuer's key, listing keys of its subject, and, if it is a
  configuration, about its issuer. The path then follows link by link: whoever's
  keys verify a document is its issuer (`VerifiedIssuer`, `ValidatedChainIsPath`).
- `FreshPathsAccepted`: the converse, `RefreshedPathIsAccepted`, if a kid tells the
  keys of an entity apart (`DistinctKids`; a thumbprint does). The code looks up one
  key, the first with the kid of the header. `KeysAscend` (the keys of a set are in
  the order of their generation, so none is listed twice) makes it the one that
  signed (`LastKeyVerifies`), and `SignedPathValidates` goes through the positions
  of a chain, with and without the anchor's configuration at its end.

**Wallet instance** (`WalletInstanceProofs`), each for any number of interleaved
thunks.

- `StoreSafety`: `TypeOK`, `StoredTagIsRegistered` and `RefreshOnlyWhenNeeded`. The
  strengthening says what a thunk holds at each step (`Holds`) and that a cached TRUE
  stays true because time only moves on (`MemoSound`).
- `RefreshSafety`: `DoneMeansUsable`. `OwnKey`: unless the last delete took it, the key
  that a refresh has generated, read or got an attestation for is the device's. A
  second `generate` cannot replace it, because a tag that has a key is refused; only a
  delete can, and `disturbed` remembers that one.
- `RevocationSafety`: the action property `DoneMeansRevoked`. `OwnTag`: a thunk past its
  PUT has a tag that the provider has revoked, and a tag that is being registered is
  new, so that no creation undoes a revocation.

**Issuance** (`IssuanceProofs`).

- `DeliveredCredentials`: `TypeOK` and `DeliveredIsOwn` for any number of flows.
  `Knows` says what a flow has at each step, `Records` that a pushed request carries
  the verifier of its flow; together they give that a token's code is the flow's
  own.
- `ContractRefinement`: `Issuance` implements `IssuanceContract`, from the same
  invariant, step by step.
- `LoneFlow`: the action property `LoneFlowFailsForAReason`. `Lone` says, step by step,
  that while the attestation's key is in place every reading a flow has of it is that
  key (`Reads`), and that a flow that is alone still has its DPoP key and an unspent
  code (`Undisturbed`). Alone is as long as no other flow has begun: none becomes idle
  again.

**PID flow, credential slice and card reader** (`PidFlowProofs`,
`CredentialStoreProofs`).

- `PidSliceSafe`: `PidTypeOK`, `DoneMeansPid` and `UsedParamsAreGone` for any number of
  thunks. The strengthening says that every flow number that is anywhere was given
  out by the issuer, so the next one is new, and that a continuation has a URL and,
  past the first check, parameters.
- `ComposedPidFlow` and `CredentialSliceSafe`: every step of the composition is a step
  of `PidFlow` or leaves the pid slice alone, so the theorems before carry over; and
  `TypeOK`, `LoadingHasThunk`, `DoneMeansPresent`, which are inductive together.
- `OwnReading` and `LastStartListens`: `SuccessNeedsCard` and `CompletedOnce` on both
  platforms (a finished view has a listener that got a reading, and a reading stays
  in the history), `OneListener` on iOS.

**SD-JWT and presentation** (`PresentationProofs`, `PresentationReasons`).

- `Holding`: the four properties of `sd_jwt`, for tokens of any length and any number
  of disclosures. What `FilteredDisclosures` computes is established without an
  induction schema: every set of naturals that is not empty has a least element
  (`Least`, from the well-foundedness of < on Nat), so a property of the first n
  segments that is handed on from n - 1 to n cannot fail first anywhere (`UpTo`).
  `FilterPicks` and `PicksTwice` then relate the filter to the reference `Picks`, once
  and after a second disclosure.
- `ScannedClient`: `AnswersScannedClient`, for any number of flows, parties and
  generations: a request verified with a key of the scanned party's configuration was
  made by that party.
- `RefusalReasons`: `RefusedForAReason`. `Ordered` says that the keys a flow has read
  were read one after the other and are no newer than the present ones, so if the
  first and the last agree all do; `Blamed` remembers the reason in a form that later
  rotations keep (`Grows`). It rests on `DisclosedVerifies`: what `disclose` gives of a
  verified credential verifies.
- `AcceptedAnswers`: `AcceptedIsConsented`. `Sent` follows the token from the consent to
  the relying party.

**Status attestation and provider calls** (`StatusAttestationProofs`).

- `OwnStatus` and `InvalidStatus`: an accepted status attestation is of the credential
  asked about, because issued attestations carry the key of their credential and no
  two credentials share one; of the issuer's answers its refusals and nothing else
  come out as `CredentialInvalidStatus`, and the decision stays. Both hold with any
  gateway, which `InvalidMeansInvalid` (finding 19) does not.
- `ProviderOutcomes`: the five properties of `provider_calls`, for any number of
  callers and calls and any gateway statuses. `Fits` says what a result must be for
  the answer it was made from; the lemmas before it compute what each handler gives
  for each status (`CaseOf`: `buildFrom` finds the case of a status handled once).

Only model-checked: liveness under fairness (`LoadingEnds`, `FlowEnds`), which the
prover does not handle, and the three properties of the patient user. The properties
of the findings are false and are neither.

## Not modelled

- Schemas (`zod` types), encodings, thumbprints, hashes, the JWE of an answer and
  the URL templates of the generated client: data. A document parses or does not,
  a hash is what it is the hash of, a signature is the key that made it.
- Wording, layout, toasts, the countdown of `ExpirationTimer`, the debug overlay,
  and the texts an issuer's configuration gives for an error
  (`extractErrorMessageFromIssuerConf`), the types of the card reader's errors
  (`cie/error.ts`): no property tells them apart.
- The session, environment and debug slices: one stored value each. Their effect on
  the others, the resets, is modelled. The two environments are one provider.
- Native services (integrity attestation, keystore, card reader, web view, storage)
  are external: they succeed, fail, or answer late.
- `pid/sd-jwt` decodes, verifies and converts a PID by a fixed list of claims; what
  it is made of is in `SdJwt`.
- `WalletInstance`, `Issuance` and `PidFlow` are separate modules over the same
  thunks, at different levels: the first two see the awaits inside the library,
  which the third takes as one step that succeeds or fails. Their product is out of
  TLC's reach; `WiaDelete` and `WiaGenerate` (`Issuance`, `Presentation`) stand for what
  the first does to the others.
