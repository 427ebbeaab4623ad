------------------------------ MODULE PidFlow -------------------------------
(***************************************************************************)
(* How the application obtains a PID: the thunks of thunks/pid.ts and      *)
(* thunks/pidCieID.ts, the pid slice and the screens that drive them.      *)
(*                                                                         *)
(* With SPID and with CIE L3 the flow comes in two thunks.  The first one  *)
(* prepares it and leaves its parameters in the store; a web view takes    *)
(* the user through the authentication; the redirect dispatches the second *)
(* thunk, which reads the parameters from the store again.  Nothing ties   *)
(* the redirect, the parameters and the status to one and the same flow.   *)
(* With CIE L2 one thunk does all.  The protocol below is module Issuance, *)
(* the attestation module WalletInstance, the card reader module CieReader.*)
(***************************************************************************)
EXTENDS Naturals

CONSTANTS
    Thunk,          \* slots for thunks in flight at the same time
    None,           \* undefined
    MaxFlow,        \* bound: authorization requests pushed in a behaviour
    MaxRestarts,    \* bound: restarts of the application
    SpidUrlHasCie,  \* what url.includes("cie") may answer for a SPID redirect
    Patient         \* TRUE: the user sees one flow through before the next

Method == {"spid", "cieL2", "cieL3"}
Flow == 1 .. MaxFlow
Status == {"initial", "loading", "done", "error"}

(* What the code reads of the parameters.  The flow stands for the code    *)
(* verifier and the rest of the pushed request; only CIE L3 has a PIN.     *)
Params == [flow : Flow, ciePin : BOOLEAN]

(* The redirect URL: the authorization whose code it carries, the method   *)
(* that led there, and whether the text contains "cie".                    *)
Url == [flow : Flow, method : {"spid", "cieL3"}, cie : BOOLEAN]

ASSUME PidAssumption ==
    /\ MaxFlow \in Nat /\ MaxRestarts \in Nat
    /\ SpidUrlHasCie \subseteq BOOLEAN
    /\ Patient \in BOOLEAN
    /\ None \notin Flow \cup Params \cup Url \cup Method

VARIABLES
    pid,            \* store: the PID, named by the flow it was issued in
    pidAsyncStatus, \* store: the status of each method
    pidFlowParams,  \* store: the parameters of the prepared flow
    pidDisk,        \* what redux-persist wrote of the slice
    th,             \* the thunks in flight
    flows,          \* issuer: how many requests were pushed
    spent,          \* issuer: the authorizations whose code was redeemed
    spidScreen,     \* the flow in the web view of PidSpidLoginScreen
    cieModal,       \* TestCieL3Scenario: isModalVisible
    cieView,        \* the flow whose authUrl the CIE web view took when mounted
    cieListening,   \* listeners of a CIE web view are registered
    restarts        \* how many restarts there were

slice == <<pid, pidAsyncStatus, pidFlowParams>>
issuer == <<flows, spent>>
cieScreen == <<cieModal, cieView>>
pidVars == <<slice, pidDisk, th, issuer, spidScreen, cieScreen, cieListening,
             restarts>>

Idle == [op |-> "none", pc |-> "idle", method |-> None, flow |-> None,
         url |-> None]

asyncStatusInitial == [m \in Method |-> "initial"]

PidInit ==
    /\ pid = None /\ pidFlowParams = None /\ pidDisk = None
    /\ pidAsyncStatus = asyncStatusInitial
    /\ th = [t \in Thunk |-> Idle]
    /\ flows = 0 /\ spent = {}
    /\ spidScreen = None /\ cieModal = FALSE /\ cieView = None
    /\ cieListening = FALSE
    /\ restarts = 0

At(t, op, pc) == th[t].op = op /\ th[t].pc = pc
End(t) == th' = [th EXCEPT ![t] = Idle]
SetStatus(m, s) == pidAsyncStatus' = [pidAsyncStatus EXCEPT ![m] = s]

NothingInFlight == \A t \in Thunk : th[t] = Idle

Quiet ==
    /\ NothingInFlight
    /\ \A m \in Method : pidAsyncStatus[m] # "loading"
    /\ spidScreen = None /\ cieView = None

(* The CIE web view is mounted while there are parameters with a PIN and   *)
(* the modal is visible.  useState takes authUrl when it is mounted: later *)
(* parameters do not replace the page it shows.                            *)
Render(params, modal) ==
    /\ pidFlowParams' = params
    /\ cieModal' = modal
    /\ cieView' = IF params # None /\ params.ciePin /\ modal
                  THEN IF cieView = None THEN params.flow ELSE cieView
                  ELSE None

-----------------------------------------------------------------------------
(* The extra reducers of the slice, one per thunk and outcome.  Those of   *)
(* the continuation for pending and fulfilled do not know the method.      *)

OnPreparePending(m) == SetStatus(m, "loading") /\ UNCHANGED pid
OnPrepareFulfilled(params) == Render(params, cieModal) /\ UNCHANGED <<pid, pidAsyncStatus>>

OnPrepareRejected(m) == Render(None, cieModal) /\ SetStatus(m, "error") /\ UNCHANGED pid

GuessedMethod == IF pidAsyncStatus["cieL3"] = "loading" THEN "cieL3" ELSE "spid"

OnContinuePending ==
    SetStatus(GuessedMethod, "loading") /\ UNCHANGED <<pid, pidFlowParams>>

OnContinueFulfilled(new) ==
    Render(None, cieModal) /\ pid' = new /\ SetStatus(GuessedMethod, "done")

OnContinueRejected_KeepsParams(url) ==
    /\ SetStatus(IF url.cie THEN "cieL3" ELSE "spid", "error")
    /\ UNCHANGED <<pid, pidFlowParams, cieScreen>>

OnContinueRejected(url) ==
    /\ Render(None, cieModal)
    /\ SetStatus(IF url.cie THEN "cieL3" ELSE "spid", "error")
    /\ UNCHANGED pid

OnCieIDPending(m) == SetStatus(m, "loading") /\ UNCHANGED <<pid, pidFlowParams>>

OnCieIDFulfilled(new, m) ==
    pid' = new /\ SetStatus(m, "done") /\ UNCHANGED pidFlowParams

OnCieIDRejected(m) == SetStatus(m, "error") /\ UNCHANGED <<pid, pidFlowParams>>

-----------------------------------------------------------------------------
(* preparePidFlowParamsThunk.                                              *)

(* Both kinds of flow begin alike, on a screen that no login covers.  An   *)
(* attestation is awaited if the selector asks for it; otherwise the thunk *)
(* runs on, over the reset of the credentials, to the first call of the    *)
(* library ("authorize").                                                  *)
Begin(t, op, m) ==
    /\ th[t] = Idle
    /\ spidScreen = None /\ cieView = None
    /\ Patient => Quiet
    /\ \E pc \in {"attest", "authorize"} :
            th' = [th EXCEPT ![t] = [Idle EXCEPT !.op = op, !.pc = pc,
                                                 !.method = m]]

(* An identity provider is selected on PidSpidIdpSelectionScreen.          *)
PressSpid(t) ==
    /\ Begin(t, "prepare", "spid")
    /\ OnPreparePending("spid")
    /\ UNCHANGED <<pidFlowParams, pidDisk, issuer, spidScreen, cieScreen,
                   cieListening, restarts>>

(* TestCieL3Scenario: a well-formed PIN was entered.                       *)
PressCieL3(t) ==
    /\ Begin(t, "prepare", "cieL3")
    /\ OnPreparePending("cieL3")
    /\ Render(pidFlowParams, TRUE)
    /\ UNCHANGED <<pidDisk, issuer, spidScreen, cieListening, restarts>>

(* The awaited dispatch is over and there is an attestation in the store.  *)
Attested(t) ==
    /\ th[t].pc = "attest"
    /\ th' = [th EXCEPT ![t].pc = "authorize"]
    /\ UNCHANGED <<slice, pidDisk, issuer, spidScreen, cieScreen, cieListening,
                   restarts>>

(* The request is pushed and the authorization URL built.  The reducer     *)
(* stores the parameters and leaves the status alone; for SPID the caller  *)
(* navigates to the login screen, or gives the one on the stack a new URL. *)
PrepareFulfilled(t) ==
    LET f == flows + 1 IN
    /\ At(t, "prepare", "authorize")
    /\ flows < MaxFlow
    /\ flows' = f
    /\ OnPrepareFulfilled([flow |-> f, ciePin |-> th[t].method = "cieL3"])
    /\ spidScreen' = IF th[t].method = "spid" THEN f ELSE spidScreen
    /\ End(t)
    /\ UNCHANGED <<pidDisk, spent, cieListening, restarts>>

(* No attestation, or a call of the library failed.                        *)
PrepareRejected(t) ==
    /\ th[t].op = "prepare"
    /\ OnPrepareRejected(th[t].method)
    /\ End(t)
    /\ UNCHANGED <<pidDisk, issuer, spidScreen, cieListening, restarts>>

-----------------------------------------------------------------------------
(* continuePidFlowThunk.                                                   *)

Continue(t, url) ==
    /\ th[t] = Idle
    /\ OnContinuePending
    /\ th' = [th EXCEPT ![t] =
            IF pidFlowParams = None
            THEN [Idle EXCEPT !.op = "continue", !.pc = "reject", !.url = url]
            ELSE [Idle EXCEPT !.op = "continue", !.pc = "complete", !.url = url,
                              !.flow = pidFlowParams.flow]]

(* PidSpidLoginScreen: the web view navigates to the redirect URI.  goBack *)
(* closes the screen, but the event may come again before it is gone.      *)
SpidRedirect(t) ==
    /\ spidScreen # None
    /\ \E cie \in SpidUrlHasCie :
            Continue(t, [flow |-> spidScreen, method |-> "spid", cie |-> cie])
    /\ spidScreen' \in IF Patient THEN {None} ELSE {None, spidScreen}
    /\ UNCHANGED <<pidDisk, issuer, cieScreen, cieListening, restarts>>

(* WebViewComponent: after the card was read the web view is about to load *)
(* the redirect URI; the view stays, so this may happen again.             *)
CieRedirect(t) ==
    /\ cieView # None
    /\ Patient => NothingInFlight
    /\ Continue(t, [flow |-> cieView, method |-> "cieL3", cie |-> TRUE])
    /\ UNCHANGED <<pidDisk, issuer, spidScreen, cieScreen, cieListening,
                   restarts>>

(* The token request, with the code of the URL and the verifier of the     *)
(* parameters: the issuer compares them and takes a code once.             *)
ContinueToken(t) ==
    LET url == th[t].url
        granted == th[t].flow = url.flow /\ url.flow \notin spent
    IN  /\ At(t, "continue", "complete")
        /\ th' = [th EXCEPT ![t].pc = IF granted THEN "obtain" ELSE "reject"]
        /\ spent' = IF granted THEN spent \cup {url.flow} ELSE spent
        /\ UNCHANGED <<slice, pidDisk, flows, spidScreen, cieScreen,
                       cieListening, restarts>>

ContinueFulfilled(t) ==
    /\ At(t, "continue", "obtain")
    /\ OnContinueFulfilled(th[t].flow)
    /\ End(t)
    /\ UNCHANGED <<pidDisk, issuer, spidScreen, cieListening, restarts>>

(* No parameters, an error in the URL, or a call of the library failed.    *)
ContinueRejected(t) ==
    /\ th[t].op = "continue"
    /\ OnContinueRejected(th[t].url)
    /\ End(t)
    /\ UNCHANGED <<pidDisk, issuer, spidScreen, cieListening, restarts>>

-----------------------------------------------------------------------------
(* getPidCieIDThunk.                                                       *)

PressCieL2(t) ==
    /\ Begin(t, "cieID", "cieL2")
    /\ OnCieIDPending("cieL2")
    /\ UNCHANGED <<pidDisk, issuer, spidScreen, cieScreen, cieListening,
                   restarts>>

(* getPidCieID ran from the pushed request to the verified credential.     *)
CieIDFulfilled(t) ==
    /\ At(t, "cieID", "authorize")
    /\ flows < MaxFlow
    /\ flows' = flows + 1
    /\ spent' = spent \cup {flows + 1}
    /\ OnCieIDFulfilled(flows + 1, th[t].method)
    /\ End(t)
    /\ UNCHANGED <<pidDisk, spidScreen, cieScreen, cieListening, restarts>>

CieIDRejected(t) ==
    /\ th[t].op = "cieID"
    /\ OnCieIDRejected(th[t].method)
    /\ End(t)
    /\ UNCHANGED <<pidDisk, issuer, spidScreen, cieScreen, cieListening,
                   restarts>>

-----------------------------------------------------------------------------
(* The screens, the resets and the restart.                                *)

(* The user leaves the login screen without logging in.                    *)
CloseSpid ==
    /\ spidScreen # None
    /\ ~ Patient
    /\ spidScreen' = None
    /\ UNCHANGED <<slice, pidDisk, th, issuer, cieScreen, cieListening,
                   restarts>>

(* The user leaves PidScreen, and the state of TestCieL3Scenario with it.  *)
LeavePid ==
    /\ cieModal /\ cieView = None
    /\ Patient => Quiet
    /\ Render(pidFlowParams, FALSE)
    /\ UNCHANGED <<pid, pidAsyncStatus, pidDisk, th, issuer, spidScreen,
                   cieListening, restarts>>

pidCiel3FlowReset_Pid ==
    /\ Render(None, FALSE)
    /\ SetStatus("cieL3", "initial")
    /\ pid' = None

pidCiel3FlowReset_KeepsStatus ==
    /\ Render(None, FALSE)
    /\ UNCHANGED <<pid, pidAsyncStatus>>

(* The reducer, and the modal its callers close with it.                   *)
pidCiel3FlowReset ==
    /\ Render(None, FALSE)
    /\ SetStatus("cieL3", "initial")
    /\ UNCHANGED pid

(* toggleModal and handleOnError end alike.                                *)
CieClose ==
    /\ cieView # None
    /\ Patient => NothingInFlight
    /\ pidCiel3FlowReset
    /\ UNCHANGED <<pidDisk, th, issuer, spidScreen, cieListening, restarts>>

(* The page of the web view names the authentication URL and the card      *)
(* reader starts.  Its listeners outlive the web view.                     *)
CieStart ==
    /\ cieView # None /\ ~ cieListening
    /\ cieListening' = TRUE
    /\ UNCHANGED <<slice, pidDisk, th, issuer, spidScreen, cieScreen, restarts>>

(* A card error is reported, to a web view that may be gone.               *)
CieLateError ==
    /\ cieListening /\ cieView = None /\ ~ Patient
    /\ pidCiel3FlowReset
    /\ UNCHANGED <<pidDisk, th, issuer, spidScreen, cieListening, restarts>>

(* instanceReset or sessionReset; the latter also leaves all the screens.  *)
Reset ==
    /\ Patient => Quiet
    /\ pid' = None
    /\ pidAsyncStatus' = asyncStatusInitial
    /\ \E modal \in {FALSE, cieModal} : Render(None, modal)
    /\ spidScreen' \in {None, spidScreen}
    /\ UNCHANGED <<pidDisk, th, issuer, cieListening, restarts>>

(* Bound: what is written after the last restart makes no difference.      *)
PersistPid ==
    /\ restarts < MaxRestarts
    /\ pidDisk # pid
    /\ pidDisk' = pid
    /\ UNCHANGED <<slice, th, issuer, spidScreen, cieScreen, cieListening,
                   restarts>>

(* Only the PID is whitelisted: the rest of the slice starts anew.         *)
Restart ==
    /\ restarts < MaxRestarts
    /\ restarts' = restarts + 1
    /\ pid' = pidDisk
    /\ pidFlowParams' = None /\ pidAsyncStatus' = asyncStatusInitial
    /\ th' = [t \in Thunk |-> Idle]
    /\ spidScreen' = None /\ cieModal' = FALSE /\ cieView' = None
    /\ cieListening' = FALSE
    /\ UNCHANGED <<pidDisk, issuer>>

PidPress(t) ==
    \/ PressSpid(t) \/ PressCieL3(t) \/ PressCieL2(t)
    \/ SpidRedirect(t) \/ CieRedirect(t)

PidStep(t) ==
    \/ Attested(t) \/ PrepareFulfilled(t) \/ PrepareRejected(t)
    \/ ContinueToken(t) \/ ContinueFulfilled(t) \/ ContinueRejected(t)
    \/ CieIDFulfilled(t) \/ CieIDRejected(t)

PidNext ==
    \/ \E t \in Thunk : PidPress(t) \/ PidStep(t)
    \/ CloseSpid \/ LeavePid \/ CieClose \/ CieStart \/ CieLateError
    \/ Reset \/ PersistPid \/ Restart

PidSpec == PidInit /\ [][PidNext]_pidVars
-----------------------------------------------------------------------------
ThunkState == [
    op : {"none", "prepare", "continue", "cieID"},
    pc : {"idle", "attest", "authorize", "complete", "obtain", "reject"},
    method : Method \cup {None}, flow : Flow \cup {None}, url : Url \cup {None}]

(* Type invariant.                                                         *)
PidTypeOK ==
    /\ pid \in Flow \cup {None} /\ pidDisk \in Flow \cup {None}
    /\ pidAsyncStatus \in [Method -> Status]
    /\ pidFlowParams \in Params \cup {None}
    /\ th \in [Thunk -> ThunkState]
    /\ flows \in 0 .. MaxFlow /\ spent \subseteq Flow
    /\ spidScreen \in Flow \cup {None} /\ cieView \in Flow \cup {None}
    /\ cieModal \in BOOLEAN /\ cieListening \in BOOLEAN
    /\ restarts \in 0 .. MaxRestarts

(* A method that shows as done has a PID behind it, whichever method the   *)
(* reducers guessed, whatever was reset, cancelled or restarted meanwhile. *)
DoneMeansPid ==
    (\E m \in Method : pidAsyncStatus[m] = "done") => pid # None

(* "You must start from scratch": parameters whose code was redeemed stay  *)
(* in the store only while the continuation that redeemed it runs.  A new  *)
(* attempt can never pick up the remains of an old one.                    *)
UsedParamsAreGone ==
    pidFlowParams # None /\ pidFlowParams.flow \in spent =>
        \E t \in Thunk :
            th[t].op = "continue" /\ th[t].url.flow = pidFlowParams.flow

(* The continuation settles the status "for the requested credential": of  *)
(* the method by which the user came, although its reducers do not know it.*)
(* The code does not keep this (README, Findings).                         *)
OutcomeUnderOwnMethod ==
    [][\A t \in Thunk :
        th[t].op = "continue" /\ th'[t] = Idle /\ restarts' = restarts =>
            pidAsyncStatus'[th[t].url.method] \in {"done", "error"}]_pidVars

(* AsyncStatus: isLoading tells "whether the operation is in progress", in *)
(* a thunk or in the web view of its method.                               *)
LoadingMeansGoingOn ==
    \A m \in Method : pidAsyncStatus[m] = "loading" =>
        \/ \E t \in Thunk : th[t].method = m
        \/ \E t \in Thunk : th[t].op = "continue" /\ th[t].url.method = m
        \/ m = "spid" /\ spidScreen # None
        \/ m = "cieL3" /\ cieView # None

(* AsyncStatus: hasError tells "whether the operation has failed".  A flow *)
(* whose PID is in the store is not reported as failed.                    *)
(* The code does not keep this (README, Findings).                         *)
ObtainedIsNotAnError ==
    [][\A t \in Thunk :
        th[t].op = "continue" /\ th'[t] = Idle /\ pid = th[t].url.flow =>
            pidAsyncStatus'[th[t].url.method] # "error"]_pidVars
=============================================================================
