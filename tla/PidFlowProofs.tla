--------------------------- MODULE PidFlowProofs ----------------------------
(***************************************************************************)
(* How the application obtains a PID, for any number of thunks, flows and  *)
(* restarts: a method that shows as done has a PID behind it, and the      *)
(* parameters of an authorization that was redeemed do not outlive its     *)
(* continuation.  And the reader of the card in it, for any number of web  *)
(* views and starts: a web view that reports a success or a completed      *)
(* reading has a listener that got the URL of a reading, reports the       *)
(* reading once, and on iOS one start has the listeners.                   *)
(***************************************************************************)
EXTENDS PidFlow, CieReader, TLAPS

USE DEF OnPreparePending, OnPrepareFulfilled, OnPrepareRejected,
        OnContinuePending, OnContinueFulfilled, OnContinueRejected,
        OnCieIDPending, OnCieIDFulfilled, OnCieIDRejected

Known(f) == f # None => f \in 1 .. flows

Sound ==
    \A t \in Thunk :
        /\ th[t].op = "continue" =>
            /\ th[t].url \in Url /\ th[t].url.flow \in 1 .. flows
            /\ th[t].pc \in {"complete", "obtain"} => th[t].flow \in Flow
        /\ th[t].op \in {"prepare", "cieID"} => th[t].method \in Method
        /\ th[t].op = "none" => th[t].pc = "idle"

(* Every flow number that is anywhere was given out by the issuer, so the  *)
(* next one is new; a continuation has a URL and, past the first check,    *)
(* parameters.                                                             *)
PidInv ==
    /\ PidTypeOK /\ DoneMeansPid /\ UsedParamsAreGone
    /\ spent \subseteq 1 .. flows
    /\ Known(spidScreen) /\ Known(cieView)
    /\ pidFlowParams # None => pidFlowParams.flow \in 1 .. flows
    /\ Sound

LEMMA Thunks ==
    /\ Idle \in ThunkState /\ Idle.op = "none" /\ Idle.pc = "idle"
    /\ asyncStatusInitial \in [Method -> Status]
    /\ \A m \in Method : asyncStatusInitial[m] = "initial"
  BY DEF Idle, ThunkState, asyncStatusInitial, Status

LEMMA InitPidInv == PidInit => PidInv
<1> SUFFICES ASSUME PidInit PROVE PidInv
  OBVIOUS
<1>1. PidTypeOK
  <2>1. th \in [Thunk -> ThunkState] /\ pidAsyncStatus \in [Method -> Status]
    BY Thunks DEF PidInit
  <2>2. flows \in 0 .. MaxFlow /\ restarts \in 0 .. MaxRestarts
    BY PidAssumption DEF PidInit
  <2> QED
    BY <2>1, <2>2 DEF PidInit, PidTypeOK
<1> QED
  BY <1>1, Thunks DEF PidInit, PidInv, DoneMeansPid, UsedParamsAreGone, Known, Sound

(* What Render leaves is well typed, and shows a flow it was given or one  *)
(* that was on the screen.                                                 *)
LEMMA Rendered ==
    ASSUME PidInv, NEW params \in Params \cup {None}, NEW modal \in BOOLEAN,
           Render(params, modal)
    PROVE  /\ pidFlowParams' = params /\ cieModal' \in BOOLEAN
           /\ cieView' \in Flow \cup {None}
           /\ cieView' # None =>
                cieView' = cieView \/ (params # None /\ cieView' = params.flow)
  BY DEF PidInv, PidTypeOK, Render, Params

(* One thunk becomes another record and the rest stay.                     *)
LEMMA StillSound ==
    ASSUME PidInv, NEW t \in Thunk, NEW new \in ThunkState,
           th' = [th EXCEPT ![t] = new], flows' \in {flows, flows + 1},
           new.op = "continue" =>
                /\ new.url \in Url /\ new.url.flow \in 1 .. flows
                /\ new.pc \in {"complete", "obtain"} => new.flow \in Flow,
           new.op \in {"prepare", "cieID"} => new.method \in Method,
           new.op = "none" => new.pc = "idle"
    PROVE  /\ th' \in [Thunk -> ThunkState] /\ th'[t] = new
           /\ \A u \in Thunk \ {t} : th'[u] = th[u]
           /\ Sound'
<1>1. flows \in Nat
  BY PidAssumption DEF PidInv, PidTypeOK
<1>2. 1 .. flows \subseteq 1 .. flows'
  BY <1>1
<1>3. /\ th' \in [Thunk -> ThunkState] /\ th'[t] = new
      /\ \A u \in Thunk \ {t} : th'[u] = th[u]
  BY DEF PidInv, PidTypeOK
<1>4. ASSUME NEW u \in Thunk
      PROVE  /\ th'[u].op = "continue" =>
                /\ th'[u].url \in Url /\ th'[u].url.flow \in 1 .. flows
                /\ th'[u].pc \in {"complete", "obtain"} => th'[u].flow \in Flow
             /\ th'[u].op \in {"prepare", "cieID"} => th'[u].method \in Method
             /\ th'[u].op = "none" => th'[u].pc = "idle"
  BY <1>3 DEF PidInv, Sound
<1> QED
  BY <1>2, <1>3, <1>4 DEF Sound

LEMMA SetToOther ==
    ASSUME PidInv, NEW m \in Method, NEW st \in Status \ {"done"},
           SetStatus(m, st), UNCHANGED pid
    PROVE  pidAsyncStatus' \in [Method -> Status] /\ DoneMeansPid'
  BY DEF PidInv, PidTypeOK, SetStatus, DoneMeansPid

LEMMA SetToDone ==
    ASSUME PidInv, NEW m \in Method, SetStatus(m, "done"), pid' \in Flow
    PROVE  pidAsyncStatus' \in [Method -> Status] /\ DoneMeansPid'
  BY PidAssumption DEF PidInv, PidTypeOK, SetStatus, DoneMeansPid, Status

(* A step that redeems nothing and prepares nothing.  The parameters go,   *)
(* or stay and no continuation ends.                                       *)
LEMMA Kept ==
    ASSUME PidInv, th' \in [Thunk -> ThunkState], Sound',
           UNCHANGED <<flows, spent>>,
           \/ pidFlowParams' = None
           \/ /\ pidFlowParams' = pidFlowParams
              /\ \A u \in Thunk : th[u].op = "continue" =>
                    th'[u].op = "continue" /\ th'[u].url = th[u].url,
           cieModal' \in BOOLEAN, cieView' \in Flow \cup {None}, Known(cieView)',
           spidScreen' \in {None, spidScreen},
           pid' \in Flow \cup {None}, pidDisk' \in Flow \cup {None},
           pidAsyncStatus' \in [Method -> Status], DoneMeansPid',
           cieListening' \in BOOLEAN, restarts' \in 0 .. MaxRestarts
    PROVE  PidInv'
<1>1. PidTypeOK'
  BY DEF PidInv, PidTypeOK
<1>2. UsedParamsAreGone'
  BY DEF PidInv, UsedParamsAreGone
<1>3. /\ spent' \subseteq 1 .. flows' /\ Known(spidScreen)'
      /\ pidFlowParams' # None => pidFlowParams'.flow \in 1 .. flows'
  BY DEF PidInv, Known
<1> QED
  BY <1>1, <1>2, <1>3 DEF PidInv

(* The same, with what a step leaves of the rest.                          *)
LEMMA KeptWithParams ==
    ASSUME PidInv, NEW t \in Thunk, NEW new \in ThunkState,
           th' = [th EXCEPT ![t] = new],
           th[t].op # "continue",
           new.op = "continue" =>
                /\ new.url \in Url /\ new.url.flow \in 1 .. flows
                /\ new.pc \in {"complete", "obtain"} => new.flow \in Flow,
           new.op \in {"prepare", "cieID"} => new.method \in Method,
           new.op = "none" => new.pc = "idle",
           UNCHANGED <<flows, spent, pidFlowParams, pid, pidDisk, cieListening,
                       restarts>>,
           cieModal' \in BOOLEAN, cieView' \in Flow \cup {None}, Known(cieView)',
           spidScreen' \in {None, spidScreen},
           pidAsyncStatus' \in [Method -> Status], DoneMeansPid'
    PROVE  PidInv'
<1>1. /\ th' \in [Thunk -> ThunkState] /\ th'[t] = new /\ Sound'
      /\ \A u \in Thunk \ {t} : th'[u] = th[u]
  BY StillSound
<1>2. \A u \in Thunk : th[u].op = "continue" =>
            th'[u].op = "continue" /\ th'[u].url = th[u].url
  BY <1>1
<1> QED
  BY <1>1, <1>2, Kept DEF PidInv, PidTypeOK

LEMMA KeptNoParams ==
    ASSUME PidInv, NEW modal \in BOOLEAN, Render(None, modal),
           th' \in [Thunk -> ThunkState], Sound',
           UNCHANGED <<flows, spent, pidDisk, cieListening, restarts>>,
           spidScreen' \in {None, spidScreen}, pid' \in Flow \cup {None},
           pidAsyncStatus' \in [Method -> Status], DoneMeansPid'
    PROVE  PidInv'
<1>1. pidFlowParams' = None /\ cieModal' \in BOOLEAN /\ cieView' = None
  BY DEF Render
<1> QED
  BY <1>1, Kept DEF PidInv, PidTypeOK, Known

LEMMA Ended ==
    ASSUME PidInv, NEW t \in Thunk, End(t), flows' \in {flows, flows + 1}
    PROVE  /\ th' \in [Thunk -> ThunkState] /\ th'[t] = Idle /\ Sound'
           /\ \A u \in Thunk \ {t} : th'[u] = th[u]
<1>1. th' = [th EXCEPT ![t] = Idle]
  BY DEF End
<1> QED
  BY <1>1, StillSound, Thunks

-----------------------------------------------------------------------------
LEMMA BeginInv ==
    ASSUME PidInv, NEW t \in Thunk, NEW op \in {"prepare", "cieID"},
           NEW m \in Method, Begin(t, op, m), SetStatus(m, "loading"),
           UNCHANGED <<flows, spent, pidFlowParams, pid, pidDisk, cieListening,
                       restarts, spidScreen>>,
           cieModal' \in BOOLEAN, cieView' \in Flow \cup {None}, Known(cieView)'
    PROVE  PidInv'
<1>1. PICK pc \in {"attest", "authorize"} :
        th' = [th EXCEPT ![t] = [Idle EXCEPT !.op = op, !.pc = pc, !.method = m]]
  BY DEF Begin
<1>2. PICK new : new = [Idle EXCEPT !.op = op, !.pc = pc, !.method = m]
  OBVIOUS
<1>3. new \in ThunkState /\ new.op = op /\ new.method = m
  BY <1>2 DEF ThunkState, Idle
<1>4. th[t].op = "none"
  BY Thunks DEF Begin
<1>5. pidAsyncStatus' \in [Method -> Status] /\ DoneMeansPid'
  BY SetToOther DEF Status
<1> QED
  BY <1>1, <1>2, <1>3, <1>4, <1>5, KeptWithParams

LEMMA ContinueInv ==
    ASSUME PidInv, NEW t \in Thunk, NEW url \in Url, url.flow \in 1 .. flows,
           Continue(t, url),
           UNCHANGED <<pid, pidFlowParams, pidDisk, flows, spent, cieModal, cieView,
                       cieListening, restarts>>,
           spidScreen' \in {None, spidScreen}
    PROVE  PidInv'
<1>1. PICK new \in ThunkState :
        /\ th' = [th EXCEPT ![t] = new]
        /\ new.op = "continue" /\ new.url = url
        /\ new.pc \in {"complete", "obtain"} => new.flow \in Flow
  <2>1. CASE pidFlowParams = None
    <3>1. PICK new :
            new = [Idle EXCEPT !.op = "continue", !.pc = "reject", !.url = url]
      OBVIOUS
    <3>2. new \in ThunkState /\ new.op = "continue" /\ new.url = url
            /\ new.pc = "reject"
      BY <3>1 DEF Idle, ThunkState
    <3> QED
      BY <2>1, <3>1, <3>2 DEF Continue
  <2>2. CASE pidFlowParams # None
    <3>1. pidFlowParams.flow \in Flow
      BY <2>2 DEF PidInv, PidTypeOK, Params
    <3>2. PICK new :
            new = [Idle EXCEPT !.op = "continue", !.pc = "complete", !.url = url,
                               !.flow = pidFlowParams.flow]
      OBVIOUS
    <3>3. new \in ThunkState /\ new.op = "continue" /\ new.url = url
            /\ new.flow \in Flow
      BY <3>1, <3>2 DEF Idle, ThunkState
    <3> QED
      BY <2>2, <3>2, <3>3 DEF Continue
  <2> QED
    BY <2>1, <2>2
<1>2. th[t].op = "none"
  BY Thunks DEF Continue
<1>3. GuessedMethod \in Method
  BY DEF GuessedMethod, Method
<1>4. pidAsyncStatus' \in [Method -> Status] /\ DoneMeansPid'
  BY <1>3, SetToOther DEF Continue, Status
<1> QED
  BY <1>1, <1>2, <1>4, KeptWithParams DEF PidInv, PidTypeOK, Known

(* A new flow: its number is not among the redeemed ones.                  *)
LEMMA PrepareInv ==
    ASSUME PidInv, NEW t \in Thunk, PrepareFulfilled(t)
    PROVE  PidInv'
<1>1. /\ flows \in Nat /\ flows' = flows + 1 /\ flows' \in Flow
      /\ flows' \in 0 .. MaxFlow
  BY PidAssumption DEF PrepareFulfilled, PidInv, PidTypeOK, Flow
<1>2. PICK p : p = [flow |-> flows + 1, ciePin |-> th[t].method = "cieL3"]
  OBVIOUS
<1>3. p \in Params /\ p.flow = flows' /\ p # None
  <2>1. PICK b \in BOOLEAN : b = (th[t].method = "cieL3")
    OBVIOUS
  <2>2. p = [flow |-> flows', ciePin |-> b]
    BY <1>1, <1>2, <2>1
  <2>3. p \in Params /\ p.flow = flows'
    BY <1>1, <2>2 DEF Params
  <2> QED
    BY <2>3, PidAssumption
<1>4. Render(p, cieModal)
  BY <1>2 DEF PrepareFulfilled
<1>5. /\ pidFlowParams' = p /\ cieModal' \in BOOLEAN
      /\ cieView' \in Flow \cup {None}
      /\ cieView' # None => cieView' = cieView \/ cieView' = p.flow
  BY <1>3, <1>4, Rendered DEF PidInv, PidTypeOK
<1>6. /\ th' \in [Thunk -> ThunkState] /\ Sound'
  BY <1>1, Ended DEF PrepareFulfilled
<1>7. UNCHANGED <<pid, pidAsyncStatus, pidDisk, spent, cieListening, restarts>>
        /\ spidScreen' \in {flows', spidScreen}
  BY DEF PrepareFulfilled
<1>8. PidTypeOK'
  BY <1>1, <1>3, <1>5, <1>6, <1>7 DEF PidInv, PidTypeOK
<1>9. p.flow \notin spent'
  BY <1>1, <1>3, <1>7 DEF PidInv
<1>10. UsedParamsAreGone'
  BY <1>5, <1>9 DEF UsedParamsAreGone
<1>11. DoneMeansPid'
  BY <1>7 DEF PidInv, DoneMeansPid
<1>12. Known(spidScreen)' /\ Known(cieView)' /\ spent' \subseteq 1 .. flows'
        /\ pidFlowParams'.flow \in 1 .. flows'
  BY <1>1, <1>3, <1>5, <1>7 DEF PidInv, Known
<1> QED
  BY <1>6, <1>8, <1>10, <1>11, <1>12 DEF PidInv

(* The thunk that redeems a code still runs when the code is spent.        *)
LEMMA TokenInv ==
    ASSUME PidInv, NEW t \in Thunk, ContinueToken(t)
    PROVE  PidInv'
<1>1. /\ th[t].op = "continue" /\ th[t].pc = "complete" /\ th[t].url \in Url
      /\ th[t].url.flow \in 1 .. flows /\ th[t].flow \in Flow
      /\ UNCHANGED <<slice, pidDisk, flows, spidScreen, cieScreen, cieListening,
                     restarts>>
  BY DEF ContinueToken, At, PidInv, Sound
<1>2. spent' \in {spent, spent \cup {th[t].url.flow}}
  BY DEF ContinueToken
<1>3. PICK pc \in {"obtain", "reject"} : th' = [th EXCEPT ![t].pc = pc]
  BY DEF ContinueToken
<1>4. PICK new : new = [th[t] EXCEPT !.pc = pc]
  OBVIOUS
<1>5. /\ new \in ThunkState /\ new.op = "continue" /\ new.url = th[t].url
      /\ new.flow = th[t].flow
  <2>1. th[t] \in ThunkState
    BY DEF PidInv, PidTypeOK
  <2> QED
    BY <1>1, <1>4, <2>1 DEF ThunkState
<1>6. th' = [th EXCEPT ![t] = new]
  BY <1>3, <1>4 DEF PidInv, PidTypeOK
<1>7. /\ th' \in [Thunk -> ThunkState] /\ th'[t] = new /\ Sound'
      /\ \A u \in Thunk \ {t} : th'[u] = th[u]
  BY <1>1, <1>5, <1>6, StillSound
<1>8. th[t].url.flow \in Flow
  BY <1>1 DEF Url
<1>9. PidTypeOK'
  BY <1>1, <1>2, <1>7, <1>8 DEF PidInv, PidTypeOK, slice, cieScreen
<1>10. UsedParamsAreGone'
  BY <1>1, <1>2, <1>5, <1>7 DEF PidInv, UsedParamsAreGone, slice
<1>11. DoneMeansPid'
  BY <1>1 DEF PidInv, DoneMeansPid, slice
<1> QED
  BY <1>1, <1>2, <1>7, <1>9, <1>10, <1>11
  DEF PidInv, Known, slice, cieScreen

LEMMA CieIDInv ==
    ASSUME PidInv, NEW t \in Thunk, CieIDFulfilled(t)
    PROVE  PidInv'
<1>1. /\ flows \in Nat /\ flows' = flows + 1 /\ flows' \in Flow
      /\ flows' \in 0 .. MaxFlow
  BY PidAssumption DEF CieIDFulfilled, PidInv, PidTypeOK, Flow
<1>2. th[t].op = "cieID" /\ th[t].method \in Method
  BY DEF CieIDFulfilled, At, PidInv, Sound
<1>3. /\ th' \in [Thunk -> ThunkState] /\ Sound'
      /\ \A u \in Thunk \ {t} : th'[u] = th[u]
  BY <1>1, Ended DEF CieIDFulfilled
<1>4. /\ spent' = spent \cup {flows'} /\ pid' = flows'
      /\ UNCHANGED <<pidFlowParams, pidDisk, spidScreen, cieScreen, cieListening,
                     restarts>>
  BY <1>1 DEF CieIDFulfilled
<1>5. pidAsyncStatus' \in [Method -> Status] /\ DoneMeansPid'
  BY <1>1, <1>2, <1>4, SetToDone DEF CieIDFulfilled
<1>6. PidTypeOK'
  BY <1>1, <1>3, <1>4, <1>5 DEF PidInv, PidTypeOK, cieScreen
<1>7. UsedParamsAreGone'
  <2>1. pidFlowParams # None => pidFlowParams.flow # flows'
    BY <1>1 DEF PidInv
  <2> QED
    BY <1>2, <1>3, <1>4, <2>1 DEF PidInv, UsedParamsAreGone
<1> QED
  BY <1>1, <1>3, <1>4, <1>5, <1>6, <1>7 DEF PidInv, Known, cieScreen

LEMMA PidPressInv == ASSUME PidInv, NEW t \in Thunk, PidPress(t) PROVE PidInv'
<1>0. /\ cieModal \in BOOLEAN /\ cieView \in Flow \cup {None} /\ Known(cieView)
      /\ {"spid", "cieL2", "cieL3"} = Method
  BY DEF PidInv, PidTypeOK, Method
<1>1. CASE PressSpid(t)
  BY <1>0, <1>1, BeginInv DEF PressSpid, issuer, cieScreen, Known
<1>2. CASE PressCieL2(t)
  BY <1>0, <1>2, BeginInv DEF PressCieL2, issuer, cieScreen, Known
<1>3. CASE PressCieL3(t)
  <2>1. Render(pidFlowParams, TRUE)
    BY <1>3 DEF PressCieL3
  <2>2. /\ pidFlowParams' = pidFlowParams /\ cieModal' \in BOOLEAN
        /\ cieView' \in Flow \cup {None}
        /\ cieView' # None =>
            cieView' = cieView
            \/ (pidFlowParams # None /\ cieView' = pidFlowParams.flow)
    BY <2>1, Rendered DEF PidInv, PidTypeOK
  <2>3. UNCHANGED <<pid, pidDisk, flows, spent, spidScreen, cieListening, restarts>>
    BY <1>3 DEF PressCieL3, issuer
  <2>4. Known(cieView)'
    BY <2>2, <2>3 DEF PidInv, Known
  <2> QED
    BY <1>0, <1>3, <2>2, <2>3, <2>4, BeginInv DEF PressCieL3
<1>4. CASE SpidRedirect(t)
  <2>1. PICK cie \in SpidUrlHasCie :
            Continue(t, [flow |-> spidScreen, method |-> "spid", cie |-> cie])
    BY <1>4 DEF SpidRedirect
  <2>2. spidScreen \in Flow /\ spidScreen \in 1 .. flows /\ cie \in BOOLEAN
    BY <1>4, PidAssumption DEF SpidRedirect, PidInv, PidTypeOK, Known
  <2>3. PICK url : url = [flow |-> spidScreen, method |-> "spid", cie |-> cie]
    OBVIOUS
  <2>4. url \in Url /\ url.flow \in 1 .. flows
    BY <2>2, <2>3 DEF Url
  <2>5. /\ spidScreen' \in {None, spidScreen}
        /\ UNCHANGED <<pid, pidFlowParams, pidDisk, flows, spent, cieModal, cieView,
                       cieListening, restarts>>
    BY <1>4, <2>1 DEF SpidRedirect, Continue, issuer, cieScreen
  <2> QED
    BY <2>1, <2>3, <2>4, <2>5, ContinueInv
<1>5. CASE CieRedirect(t)
  <2>1. Continue(t, [flow |-> cieView, method |-> "cieL3", cie |-> TRUE])
    BY <1>5 DEF CieRedirect
  <2>2. cieView \in Flow /\ cieView \in 1 .. flows
    BY <1>5 DEF CieRedirect, PidInv, PidTypeOK, Known
  <2>3. PICK url : url = [flow |-> cieView, method |-> "cieL3", cie |-> TRUE]
    OBVIOUS
  <2>4. url \in Url /\ url.flow \in 1 .. flows
    BY <2>2, <2>3 DEF Url
  <2>5. UNCHANGED <<pid, pidFlowParams, pidDisk, flows, spent, cieModal, cieView,
                    cieListening, restarts, spidScreen>>
    BY <1>5 DEF CieRedirect, Continue, issuer, cieScreen
  <2> QED
    BY <2>1, <2>3, <2>4, <2>5, ContinueInv
<1> QED
  BY <1>1, <1>2, <1>3, <1>4, <1>5 DEF PidPress

LEMMA PidStepInv == ASSUME PidInv, NEW t \in Thunk, PidStep(t) PROVE PidInv'
<1>0. cieModal \in BOOLEAN /\ pid \in Flow \cup {None}
  BY DEF PidInv, PidTypeOK
<1>1. CASE Attested(t)
  <2>1. th[t] \in ThunkState /\ th[t].pc = "attest"
    BY <1>1 DEF Attested, PidInv, PidTypeOK
  <2>2. PICK new : new = [th[t] EXCEPT !.pc = "authorize"]
    OBVIOUS
  <2>3. /\ new \in ThunkState /\ new.op = th[t].op /\ new.url = th[t].url
        /\ new.pc = "authorize" /\ new.method = th[t].method
    BY <2>1, <2>2 DEF ThunkState
  <2>4. th' = [th EXCEPT ![t] = new]
    BY <1>1, <2>2 DEF Attested
  <2>5. UNCHANGED <<slice, pidDisk, flows, spent, spidScreen, cieScreen,
                    cieListening, restarts>>
    BY <1>1 DEF Attested, issuer
  <2>6. /\ th' \in [Thunk -> ThunkState] /\ th'[t] = new /\ Sound'
        /\ \A u \in Thunk \ {t} : th'[u] = th[u]
    BY <2>1, <2>3, <2>4, <2>5, StillSound DEF PidInv, Sound
  <2>7. \A u \in Thunk : th[u].op = "continue" =>
            th'[u].op = "continue" /\ th'[u].url = th[u].url
    BY <2>3, <2>6
  <2>8. DoneMeansPid' /\ Known(cieView)'
    BY <2>5 DEF PidInv, DoneMeansPid, Known, slice, cieScreen
  <2> QED
    BY <2>5, <2>6, <2>7, <2>8, Kept DEF PidInv, PidTypeOK, slice, cieScreen
<1>2. CASE PrepareFulfilled(t)
  BY <1>2, PrepareInv
<1>3. CASE PrepareRejected(t)
  <2>1. /\ th[t].method \in Method /\ Render(None, cieModal) /\ End(t)
        /\ SetStatus(th[t].method, "error")
        /\ UNCHANGED <<pid, pidDisk, flows, spent, spidScreen, cieListening,
                       restarts>>
    BY <1>3 DEF PrepareRejected, issuer, PidInv, Sound
  <2>2. pidAsyncStatus' \in [Method -> Status] /\ DoneMeansPid'
    BY <2>1, SetToOther DEF Status
  <2>3. th' \in [Thunk -> ThunkState] /\ Sound'
    BY <2>1, Ended
  <2> QED
    BY <1>0, <2>1, <2>2, <2>3, KeptNoParams
<1>4. CASE ContinueToken(t)
  BY <1>4, TokenInv
<1>5. CASE ContinueFulfilled(t)
  <2>1. /\ th[t].flow \in Flow /\ Render(None, cieModal) /\ End(t)
        /\ pid' = th[t].flow /\ SetStatus(GuessedMethod, "done")
        /\ UNCHANGED <<pidDisk, flows, spent, spidScreen, cieListening, restarts>>
    BY <1>5 DEF ContinueFulfilled, At, issuer, PidInv, Sound
  <2>2. GuessedMethod \in Method
    BY DEF GuessedMethod, Method
  <2>3. pidAsyncStatus' \in [Method -> Status] /\ DoneMeansPid'
    BY <2>1, <2>2, SetToDone
  <2>4. th' \in [Thunk -> ThunkState] /\ Sound'
    BY <2>1, Ended
  <2> QED
    BY <1>0, <2>1, <2>3, <2>4, KeptNoParams
<1>6. CASE ContinueRejected(t)
  <2>1. PICK m \in Method : SetStatus(m, "error")
    BY <1>6 DEF ContinueRejected, Method
  <2>2. /\ Render(None, cieModal) /\ End(t)
        /\ UNCHANGED <<pid, pidDisk, flows, spent, spidScreen, cieListening,
                       restarts>>
    BY <1>6 DEF ContinueRejected, issuer
  <2>3. pidAsyncStatus' \in [Method -> Status] /\ DoneMeansPid'
    BY <2>1, <2>2, SetToOther DEF Status
  <2>4. th' \in [Thunk -> ThunkState] /\ Sound'
    BY <2>2, Ended
  <2> QED
    BY <1>0, <2>2, <2>3, <2>4, KeptNoParams
<1>7. CASE CieIDFulfilled(t)
  BY <1>7, CieIDInv
<1>8. CASE CieIDRejected(t)
  <2>1. /\ th[t].op = "cieID" /\ th[t].method \in Method /\ End(t)
        /\ SetStatus(th[t].method, "error")
        /\ UNCHANGED <<pid, pidFlowParams, pidDisk, flows, spent, spidScreen,
                       cieModal, cieView, cieListening, restarts>>
    BY <1>8 DEF CieIDRejected, issuer, cieScreen, PidInv, Sound
  <2>2. pidAsyncStatus' \in [Method -> Status] /\ DoneMeansPid'
    BY <2>1, SetToOther DEF Status
  <2>3. th' = [th EXCEPT ![t] = Idle]
    BY <2>1 DEF End
  <2> QED
    BY <2>1, <2>2, <2>3, KeptWithParams, Thunks DEF PidInv, PidTypeOK, Known
<1> QED
  BY <1>1, <1>2, <1>3, <1>4, <1>5, <1>6, <1>7, <1>8 DEF PidStep

LEMMA PidNextInv == PidInv /\ [PidNext]_pidVars => PidInv'
<1> SUFFICES ASSUME PidInv, [PidNext]_pidVars PROVE PidInv'
  OBVIOUS
<1>0. /\ cieModal \in BOOLEAN /\ th \in [Thunk -> ThunkState] /\ Sound
      /\ pid \in Flow \cup {None}
  BY DEF PidInv, PidTypeOK
<1>1. ASSUME NEW t \in Thunk, PidPress(t) \/ PidStep(t) PROVE PidInv'
  BY <1>1, PidPressInv, PidStepInv
(* Nothing but the screens, the disk or the listeners changes.             *)
<1>2. ASSUME UNCHANGED <<slice, th, issuer, restarts>>,
             cieModal' \in BOOLEAN, cieView' \in Flow \cup {None}, Known(cieView)',
             spidScreen' \in {None, spidScreen}, cieListening' \in BOOLEAN,
             pidDisk' \in Flow \cup {None}
      PROVE  PidInv'
  <2>1. Sound' /\ DoneMeansPid'
    BY <1>2 DEF PidInv, Sound, DoneMeansPid, slice, issuer
  <2> QED
    BY <1>2, <2>1, Kept DEF PidInv, PidTypeOK, slice, issuer
<1>3. CASE CloseSpid
  BY <1>2, <1>3 DEF CloseSpid, cieScreen, PidInv, PidTypeOK, Known, issuer
<1>4. CASE LeavePid
  <2>1. /\ Render(pidFlowParams, FALSE)
        /\ UNCHANGED <<pid, pidAsyncStatus, pidDisk, th, issuer, spidScreen,
                       cieListening, restarts>>
    BY <1>4 DEF LeavePid
  <2>2. UNCHANGED slice /\ cieModal' = FALSE /\ cieView' = None
    BY <2>1 DEF Render, slice
  <2> QED
    BY <1>2, <2>1, <2>2 DEF PidInv, PidTypeOK, Known
<1>5. CASE CieClose \/ CieLateError
  <2>1. /\ Render(None, FALSE) /\ SetStatus("cieL3", "initial")
        /\ UNCHANGED <<pid, pidDisk, th, flows, spent, spidScreen, cieListening,
                       restarts>>
    BY <1>5 DEF CieClose, CieLateError, pidCiel3FlowReset, issuer
  <2>2. pidAsyncStatus' \in [Method -> Status] /\ DoneMeansPid'
    BY <2>1, SetToOther DEF Status, Method
  <2>3. Sound'
    BY <1>0, <2>1 DEF Sound
  <2> QED
    BY <1>0, <2>1, <2>2, <2>3, KeptNoParams
<1>6. CASE CieStart
  BY <1>2, <1>6 DEF CieStart, cieScreen, PidInv, PidTypeOK, Known, issuer
<1>7. CASE Reset
  <2>1. PICK modal \in {FALSE, cieModal} : Render(None, modal)
    BY <1>7 DEF Reset
  <2>2. /\ pid' = None /\ pidAsyncStatus' = asyncStatusInitial
        /\ spidScreen' \in {None, spidScreen} /\ modal \in BOOLEAN
        /\ UNCHANGED <<pidDisk, th, flows, spent, cieListening, restarts>>
    BY <1>0, <1>7 DEF Reset, issuer
  <2>3. pidAsyncStatus' \in [Method -> Status] /\ DoneMeansPid'
    BY <2>2, Thunks DEF DoneMeansPid
  <2>4. Sound'
    BY <1>0, <2>2 DEF Sound
  <2> QED
    BY <1>0, <2>1, <2>2, <2>3, <2>4, KeptNoParams
<1>8. CASE PersistPid
  BY <1>0, <1>2, <1>8 DEF PersistPid, cieScreen, PidInv, PidTypeOK, Known, issuer
<1>9. CASE Restart
  <2>1. /\ pid' = pidDisk /\ pidFlowParams' = None /\ spidScreen' = None
        /\ pidAsyncStatus' = asyncStatusInitial /\ cieModal' = FALSE
        /\ th' = [t \in Thunk |-> Idle] /\ cieView' = None /\ cieListening' = FALSE
        /\ UNCHANGED <<pidDisk, flows, spent>>
    BY <1>9 DEF Restart, issuer
  <2>2. pidAsyncStatus' \in [Method -> Status] /\ DoneMeansPid'
    BY <2>1, Thunks DEF DoneMeansPid
  <2>3. th' \in [Thunk -> ThunkState] /\ Sound'
    BY <2>1, Thunks DEF Sound
  <2>4. restarts' \in 0 .. MaxRestarts
    <3>1. restarts' = restarts + 1 /\ restarts < MaxRestarts
      BY <1>9 DEF Restart
    <3>2. restarts \in Nat /\ MaxRestarts \in Nat
      BY PidAssumption DEF PidInv, PidTypeOK
    <3> QED
      BY <3>1, <3>2
  <2> QED
    BY <2>1, <2>2, <2>3, <2>4, Kept DEF PidInv, PidTypeOK, Known
<1>10. CASE UNCHANGED pidVars
  <2>1. UNCHANGED <<slice, pidDisk, th, issuer, spidScreen, cieModal, cieView,
                    cieListening, restarts>>
    BY <1>10 DEF pidVars, cieScreen
  <2>2. Known(cieView)'
    BY <2>1 DEF PidInv, Known, issuer
  <2> QED
    BY <1>2, <2>1, <2>2 DEF PidInv, PidTypeOK
<1> QED
  BY <1>1, <1>3, <1>4, <1>5, <1>6, <1>7, <1>8, <1>9, <1>10 DEF PidNext

(* The reducers of continuePidFlowThunk guess the method and take the      *)
(* parameters from the store as they are by then.  Even so a method is     *)
(* done only with a PID in the store, and the parameters whose code was    *)
(* redeemed are gone when the continuation that redeemed it is.            *)
THEOREM PidSliceSafe == PidSpec => [](PidTypeOK /\ DoneMeansPid /\ UsedParamsAreGone)
<1>1. PidInv => PidTypeOK /\ DoneMeansPid /\ UsedParamsAreGone
  BY DEF PidInv
<1> QED
  BY <1>1, InitPidInv, PidNextInv, PTL DEF PidSpec

-----------------------------------------------------------------------------
(* The reader of the card.                                                 *)
USE DEF StartCieAndroid, StartCieiOS

(* isCardReadingFinished and the ref of a view, against what was reported; *)
(* the starts are used up in order.                                        *)
CieInv ==
    /\ CieTypeOK
    /\ SuccessNeedsCard
    /\ \A v \in View :
        /\ view[v].finished => Told(v)
        /\ view[v].emitted => view[v].finished
        /\ outcome.completed[v] = IF view[v].emitted THEN 1 ELSE 0
    /\ \A r, s \in Start : start[s].pc = "unused" /\ r > s => start[r].pc = "unused"
    /\ \A s \in listeners : start[s].pc # "unused"
    /\ \A r \in cardRead : start[r.listener].pc # "unused"
    /\ OneListener

ViewState == [state : {"new", "open", "gone"}, finished : BOOLEAN,
              emitted : BOOLEAN, errorPage : BOOLEAN]

Outcome == [success : SUBSET View, completed : [View -> Nat]]

StartState == [view : View \cup {0},
               pc : {"unused", "start", "pin", "listen", "ready", "failed"}]

LEMMA CieInitInv == CieInit => CieInv
<1> SUFFICES ASSUME CieInit PROVE CieInv
  OBVIOUS
<1>1. CieTypeOK
  BY DEF CieInit, CieTypeOK
<1> QED
  BY <1>1 DEF CieInit, CieInv, SuccessNeedsCard, OneListener

(* A view that was told stays told: a start keeps the view it is of.       *)
LEMMA StillTold ==
    ASSUME CieInv, NEW v \in View, Told(v), cardRead \subseteq cardRead',
           \A s \in Start : start[s].pc # "unused" => start'[s].view = start[s].view
    PROVE  Told(v)'
<1>1. PICK r \in cardRead : start[r.listener].view = v
  BY DEF Told
<1>2. r.listener \in Start /\ start[r.listener].pc # "unused"
  BY DEF CieInv, CieTypeOK
<1> QED
  BY <1>1, <1>2 DEF Told

(* What the web views keep when one of them, or the modal, closes.         *)
LEMMA Reported ==
    ASSUME CieInv, OnError
    PROVE  /\ view' \in [View -> ViewState]
           /\ \A v \in View : /\ view'[v].finished = view[v].finished
                              /\ view'[v].emitted = view[v].emitted
<1>1. /\ view \in [View -> ViewState]
      /\ \A v \in View : view[v] \in ViewState
  BY DEF CieInv, CieTypeOK, ViewState
<1>2. ASSUME NEW v \in View
      PROVE  /\ [view[v] EXCEPT !.state = "gone"] \in ViewState
             /\ [view[v] EXCEPT !.state = "gone"].finished = view[v].finished
             /\ [view[v] EXCEPT !.state = "gone"].emitted = view[v].emitted
  BY <1>1 DEF ViewState
<1>3. \A v \in View : /\ view'[v] \in ViewState
                      /\ view'[v].finished = view[v].finished
                      /\ view'[v].emitted = view[v].emitted
  BY <1>1, <1>2 DEF OnError
<1>4. view' \in [View -> ViewState]
  BY <1>3 DEF OnError
<1> QED
  BY <1>3, <1>4

(* A start under way moves on: the views and what was reported stay.       *)
LEMMA Moves ==
    ASSUME CieInv, NEW s \in Start, start[s].pc # "unused",
           NEW pc \in {"start", "pin", "listen", "ready", "failed"}, Goto(s, pc)
    PROVE  /\ start' \in [Start -> StartState]
           /\ \A r \in Start : /\ start'[r].pc = "unused" <=> start[r].pc = "unused"
                               /\ start'[r].view = start[r].view
<1>1. start \in [Start -> StartState]
  BY DEF CieInv, CieTypeOK, StartState
<1> QED
  BY <1>1 DEF Goto, StartState

(* A view is told, and its success and completion, as before, when starts  *)
(* move on and views close.                                                *)
LEMMA Keeps ==
    ASSUME CieInv, UNCHANGED <<outcome, cardRead>>,
           \A v \in View : /\ view'[v].finished = view[v].finished
                           /\ view'[v].emitted = view[v].emitted,
           \A s \in Start : start[s].pc # "unused" => start'[s].view = start[s].view
    PROVE  /\ SuccessNeedsCard'
           /\ \A v \in View :
                /\ view'[v].finished => Told(v)'
                /\ view'[v].emitted => view'[v].finished
                /\ outcome'.completed[v] = IF view'[v].emitted THEN 1 ELSE 0
<1>1. outcome.success \subseteq View
  BY DEF CieInv, CieTypeOK
<1>2. \A v \in View : Told(v) => Told(v)'
  BY StillTold
<1> QED
  BY <1>1, <1>2 DEF CieInv, SuccessNeedsCard

LEMMA CieNextInv == CieInv /\ [CieNext]_cieVars => CieInv'
<1> SUFFICES ASSUME CieInv, [CieNext]_cieVars PROVE CieInv'
  OBVIOUS
<1>p. UNCHANGED platform
  BY DEF CieNext, cieVars
<1> USE <1>p DEF Open
<1>0. /\ view \in [View -> ViewState] /\ outcome \in Outcome
      /\ \A v \in View : view[v] \in ViewState
  BY DEF CieInv, CieTypeOK, ViewState, Outcome
<1>1. ASSUME NEW v \in View, NEW st \in {"open", "gone"},
             view' = [view EXCEPT ![v].state = st],
             UNCHANGED <<start, listeners, reader, outcome, cardRead>>
      PROVE  CieInv'
  <2>1. view' \in [View -> ViewState]
        /\ \A w \in View : /\ view'[w].finished = view[w].finished
                           /\ view'[w].emitted = view[w].emitted
    BY <1>0, <1>1 DEF ViewState
  <2>2. CieTypeOK'
    BY <1>1, <2>1 DEF CieInv, CieTypeOK, ViewState
  <2>3. /\ SuccessNeedsCard'
        /\ \A w \in View :
            /\ view'[w].finished => Told(w)'
            /\ view'[w].emitted => view'[w].finished
            /\ outcome'.completed[w] = IF view'[w].emitted THEN 1 ELSE 0
    BY <1>1, <2>1, Keeps
  <2> QED
    BY <1>1, <2>2, <2>3 DEF CieInv, OneListener
<1>2. ASSUME NEW v \in View, Mount(v) \/ Unmount(v) PROVE CieInv'
  BY <1>1, <1>2 DEF Mount, Unmount
<1>3. ASSUME NEW v \in View, NEW s \in Start, HandleMessage(v, s) PROVE CieInv'
  <2>1. /\ start[s].pc = "unused"
        /\ \A r \in Start : r < s => start[r].pc # "unused"
        /\ UNCHANGED <<view, reader, outcome, cardRead>>
    BY <1>3 DEF HandleMessage, NextStart
  <2>2. PICK pc \in {"pin", "start"} :
            start' = [start EXCEPT ![s] = [view |-> v, pc |-> pc]]
    BY <1>3 DEF HandleMessage
  <2>3. CieTypeOK'
    BY <1>3, <2>1, <2>2 DEF HandleMessage, CieInv, CieTypeOK
  <2>4. \A r \in Start : r > s => start[r].pc = "unused"
    BY <2>1 DEF CieInv
  <2>5. /\ start'[s].pc # "unused"
        /\ \A r \in Start \ {s} : start'[r] = start[r]
    BY <2>2 DEF CieInv, CieTypeOK
  <2>6. \A q, r \in Start : start'[r].pc = "unused" /\ q > r => start'[q].pc = "unused"
    BY <2>1, <2>4, <2>5 DEF CieInv, Start
  <2>7. \A r \in listeners' : r = s
    BY <1>3 DEF HandleMessage
  <2>8. OneListener' /\ \A r \in listeners' : start'[r].pc # "unused"
    BY <2>4, <2>5, <2>7 DEF OneListener, Start
  <2>9. /\ SuccessNeedsCard'
        /\ \A w \in View :
            /\ view'[w].finished => Told(w)'
            /\ view'[w].emitted => view'[w].finished
            /\ outcome'.completed[w] = IF view'[w].emitted THEN 1 ELSE 0
    BY <2>1, <2>5, Keeps
  <2>10. \A r \in cardRead' : start'[r.listener].pc # "unused"
    <3> SUFFICES ASSUME NEW r \in cardRead PROVE start'[r.listener].pc # "unused"
      BY <2>1
    <3>1. r.listener \in Start /\ start[r.listener].pc # "unused"
      BY DEF CieInv, CieTypeOK
    <3> QED
      BY <2>5, <3>1
  <2> QED
    BY <2>3, <2>6, <2>8, <2>9, <2>10 DEF CieInv
<1>4. ASSUME NEW s \in Start, Started(s) \/ PinSet(s) \/ Listening(s) PROVE CieInv'
  <2>1. /\ start[s].pc # "unused" /\ UNCHANGED <<view, outcome, cardRead>>
        /\ \E pc \in {"start", "pin", "listen", "ready", "failed"} : Goto(s, pc)
    BY <1>4 DEF Started, PinSet, Listening
  <2>2. /\ start' \in [Start -> StartState]
        /\ \A r \in Start : /\ start'[r].pc = "unused" <=> start[r].pc = "unused"
                            /\ start'[r].view = start[r].view
    BY <2>1, Moves
  <2>3. /\ listeners' \subseteq listeners \cup {s}
        /\ platform = "ios" => listeners' = listeners
        /\ reader' \in [on : BOOLEAN, url : Start \cup {0}]
    <3>1. CASE Started(s)
      BY <3>1, ReaderAssumption DEF Started, CieInv, CieTypeOK
    <3>2. CASE PinSet(s)
      BY <3>2 DEF PinSet, CieInv, CieTypeOK
    <3>3. CASE Listening(s)
      BY <3>3 DEF Listening, CieInv, CieTypeOK
    <3> QED
      BY <1>4, <3>1, <3>2, <3>3
  <2>4. CieTypeOK'
    BY <2>1, <2>2, <2>3 DEF CieInv, CieTypeOK, StartState
  <2>5. OneListener' /\ \A r \in listeners' : start'[r].pc # "unused"
    BY <2>1, <2>2, <2>3 DEF CieInv, CieTypeOK, OneListener
  <2>6. \A r \in cardRead' : start'[r.listener].pc # "unused"
    BY <2>1, <2>2 DEF CieInv, CieTypeOK
  <2>7. /\ SuccessNeedsCard'
        /\ \A v \in View :
            /\ view'[v].finished => Told(v)'
            /\ view'[v].emitted => view'[v].finished
            /\ outcome'.completed[v] = IF view'[v].emitted THEN 1 ELSE 0
    BY <2>1, <2>2, Keeps
  <2> QED
    BY <2>2, <2>4, <2>5, <2>6, <2>7 DEF CieInv
<1>5. ASSUME OnError, UNCHANGED <<listeners, reader, outcome, cardRead>>,
             start' \in [Start -> StartState],
             \A r \in Start : /\ start'[r].pc = "unused" <=> start[r].pc = "unused"
                              /\ start'[r].view = start[r].view
      PROVE  CieInv'
  <2>1. CieTypeOK'
    BY <1>5, Reported DEF CieInv, CieTypeOK, ViewState, StartState
  <2>2. OneListener' /\ \A r \in listeners' : start'[r].pc # "unused"
    BY <1>5 DEF CieInv, CieTypeOK, OneListener
  <2>3. \A r \in cardRead' : start'[r.listener].pc # "unused"
    BY <1>5 DEF CieInv, CieTypeOK
  <2>4. /\ SuccessNeedsCard'
        /\ \A v \in View :
            /\ view'[v].finished => Told(v)'
            /\ view'[v].emitted => view'[v].finished
            /\ outcome'.completed[v] = IF view'[v].emitted THEN 1 ELSE 0
    BY <1>5, Reported, Keeps
  <2> QED
    BY <1>5, <2>1, <2>2, <2>3, <2>4 DEF CieInv
<1>6. ASSUME NEW s \in Start, StartFailed(s) PROVE CieInv'
  BY <1>5, <1>6, Moves DEF StartFailed
<1>7. ASSUME UNCHANGED <<start, listeners, reader, outcome, cardRead>>, OnError
      PROVE  CieInv'
  BY <1>5, <1>7 DEF CieInv, CieTypeOK, StartState
<1>8. ASSUME NEW v \in View, HandleOnError(v) PROVE CieInv'
  BY <1>7, <1>8 DEF HandleOnError
<1>9. CASE ReaderError
  BY <1>7, <1>9 DEF ReaderError
<1>10. CASE CardSuccess
  <2> DEFINE told == {[listener |-> s, url |-> reader.url] : s \in listeners}
  <2>0. /\ UNCHANGED <<start, listeners, reader, outcome>>
        /\ cardRead' = cardRead \cup told
        /\ listeners \subseteq Start /\ reader.url \in Start \cup {0}
    BY <1>10 DEF CardSuccess, CieInv, CieTypeOK
  <2>1. ASSUME NEW v \in View
        PROVE  [view[v] EXCEPT !.finished = TRUE] \in ViewState
    BY <1>0 DEF ViewState
  <2>2. view' \in [View -> ViewState]
    BY <1>0, <1>10, <2>1 DEF CardSuccess
  <2>3. cardRead' \subseteq [listener : Start, url : Start \cup {0}]
    <3>1. ASSUME NEW s \in listeners
          PROVE  [listener |-> s, url |-> reader.url]
                    \in [listener : Start, url : Start \cup {0}]
      BY <2>0
    <3>2. cardRead \subseteq [listener : Start, url : Start \cup {0}]
      BY DEF CieInv, CieTypeOK
    <3> QED
      BY <2>0, <3>1, <3>2, Zenon
  <2>4. CieTypeOK'
    BY <2>0, <2>2, <2>3 DEF CieInv, CieTypeOK, ViewState
  <2>5. ASSUME NEW v \in View, Told(v) PROVE Told(v)'
    BY <2>0, <2>5, StillTold
  <2>6. ASSUME NEW v \in View, NEW s \in listeners, start[s].view = v
        PROVE  Told(v)'
    <3>1. [listener |-> s, url |-> reader.url] \in cardRead'
      BY <2>0
    <3> QED
      BY <2>0, <2>6, <3>1 DEF Told
  <2>7. ASSUME NEW v \in View
        PROVE  /\ view'[v].finished => Told(v)'
               /\ view'[v].emitted => view'[v].finished
               /\ view'[v].emitted = view[v].emitted
    <3>1. CASE Open(v) /\ \E s \in listeners : start[s].view = v
      <4>1. view'[v].finished /\ view'[v].emitted = view[v].emitted
        BY <1>0, <1>10, <3>1 DEF CardSuccess, ViewState
      <4> QED
        BY <2>6, <3>1, <4>1
    <3>2. CASE ~ (Open(v) /\ \E s \in listeners : start[s].view = v)
      <4>1. view'[v] = view[v]
        BY <1>10, <3>2 DEF CardSuccess
      <4> QED
        BY <2>5, <4>1 DEF CieInv
    <3> QED
      BY <3>1, <3>2
  <2>8. SuccessNeedsCard'
    BY <2>0, <2>5 DEF CieInv, CieTypeOK, SuccessNeedsCard
  <2>9. \A r \in cardRead' : start'[r.listener].pc # "unused"
    BY <2>0 DEF CieInv
  <2>10. OneListener'
    BY <2>0 DEF CieInv, OneListener
  <2> QED
    BY <2>0, <2>4, <2>7, <2>8, <2>9, <2>10 DEF CieInv
<1>11. ASSUME NEW v \in View, HandleShouldStartLoading(v) PROVE CieInv'
  <2>1. /\ outcome' \in Outcome /\ outcome'.success = outcome.success \cup {v}
        /\ outcome'.completed = outcome.completed
    BY <1>0, <1>11 DEF HandleShouldStartLoading, Outcome
  <2>2. CieTypeOK'
    BY <1>11, <2>1 DEF HandleShouldStartLoading, CieInv, CieTypeOK, Outcome
  <2>3. SuccessNeedsCard'
    BY <1>11, <2>1 DEF HandleShouldStartLoading, CieInv, SuccessNeedsCard, Told
  <2> QED
    BY <1>11, <2>1, <2>2, <2>3 DEF HandleShouldStartLoading, CieInv, OneListener, Told
<1>12. ASSUME NEW v \in View, HandleOnLoadEnd(v) PROVE CieInv'
  <2> DEFINE completed == view[v].finished /\ ~ view[v].emitted
  <2>1. /\ view' = [view EXCEPT ![v].errorPage = FALSE,
                                ![v].emitted = @ \/ completed]
        /\ outcome' = [outcome EXCEPT !.completed[v] =
                IF completed THEN @ + 1 ELSE @]
        /\ UNCHANGED <<start, listeners, reader, cardRead>>
    BY <1>12 DEF HandleOnLoadEnd
  <2>2. completed \in BOOLEAN /\ view[v].emitted \in BOOLEAN
    <3>1. view[v].finished \in BOOLEAN /\ view[v].emitted \in BOOLEAN
      BY <1>0 DEF ViewState
    <3> QED
      BY <3>1
  <2>3. view' \in [View -> ViewState]
    BY <1>0, <2>1, <2>2, ZenonT(30) DEF ViewState
  <2>4. /\ view'[v].finished = view[v].finished
        /\ view'[v].emitted = (view[v].emitted \/ completed)
        /\ \A w \in View \ {v} : view'[w] = view[w]
    BY <1>0, <2>1 DEF ViewState
  <2>5. /\ outcome' \in Outcome /\ outcome'.success = outcome.success
        /\ outcome'.completed[v] = IF completed THEN outcome.completed[v] + 1
                                   ELSE outcome.completed[v]
        /\ \A w \in View \ {v} : outcome'.completed[w] = outcome.completed[w]
    BY <1>0, <2>1 DEF Outcome
  <2>6. CieTypeOK'
    BY <2>1, <2>3, <2>5 DEF CieInv, CieTypeOK, ViewState, Outcome
  <2>7. /\ view'[v].finished => Told(v)'
        /\ view'[v].emitted => view'[v].finished
        /\ outcome'.completed[v] = IF view'[v].emitted THEN 1 ELSE 0
    <3>1. /\ view[v].finished => Told(v)
          /\ view[v].emitted => view[v].finished
          /\ outcome.completed[v] = IF view[v].emitted THEN 1 ELSE 0
      BY DEF CieInv
    <3>2. CASE completed
      <4>1. view'[v].emitted /\ ~ view[v].emitted
        BY <2>4, <3>2
      <4>2. outcome.completed[v] = 0
        BY <3>1, <4>1
      <4>3. outcome'.completed[v] = 1
        BY <2>5, <3>2, <4>2
      <4>4. view'[v].finished /\ Told(v)'
        BY <2>1, <2>4, <3>1, <3>2 DEF Told
      <4> QED
        BY <4>1, <4>3, <4>4
    <3>3. CASE ~ completed
      <4>1. view'[v].emitted <=> view[v].emitted
        BY <2>2, <2>4, <3>3
      <4> QED
        BY <2>1, <2>4, <2>5, <3>1, <3>3, <4>1 DEF Told
    <3> QED
      BY <3>2, <3>3
  <2>8. \A w \in View : Told(w) => Told(w)'
    BY <2>1, StillTold
  <2>9. \A w \in View :
          /\ view'[w].finished => Told(w)'
          /\ view'[w].emitted => view'[w].finished
          /\ outcome'.completed[w] = IF view'[w].emitted THEN 1 ELSE 0
    BY <2>4, <2>5, <2>7, <2>8 DEF CieInv
  <2>10. SuccessNeedsCard'
    BY <1>0, <2>5, <2>8 DEF CieInv, SuccessNeedsCard, Outcome
  <2>11. OneListener'
    BY <2>1 DEF CieInv, OneListener
  <2> QED
    BY <2>1, <2>6, <2>9, <2>10, <2>11 DEF CieInv
<1>13. ASSUME NEW v \in View, LoadEndErrorPage(v) PROVE CieInv'
  <2>1. /\ view' = [view EXCEPT ![v].errorPage = TRUE]
        /\ UNCHANGED <<start, listeners, reader, outcome, cardRead>>
    BY <1>13 DEF LoadEndErrorPage
  <2>2. view' \in [View -> ViewState]
    BY <1>0, <2>1 DEF ViewState
  <2>3. \A w \in View : /\ view'[w].finished = view[w].finished
                        /\ view'[w].emitted = view[w].emitted
    BY <1>0, <2>1 DEF ViewState
  <2>4. CieTypeOK'
    BY <2>1, <2>2 DEF CieInv, CieTypeOK, ViewState
  <2>5. SuccessNeedsCard' /\ OneListener'
    BY <2>1 DEF CieInv, SuccessNeedsCard, OneListener, Told
  <2> QED
    BY <2>1, <2>3, <2>4, <2>5 DEF CieInv, Told
<1>14. CASE UNCHANGED cieVars
  BY <1>14 DEF cieVars, CieInv, CieTypeOK, SuccessNeedsCard, OneListener, Told
<1> QED
  BY <1>2, <1>3, <1>4, <1>6, <1>8, <1>9, <1>10, <1>11, <1>12, <1>13, <1>14
  DEF CieNext

(* handleShouldStartLoading and handleOnLoadEnd report for a web view only *)
(* a reading that a listener of its own was told of, and the completed     *)
(* event once, although nothing removes the listeners of a view that is    *)
(* gone.                                                                   *)
THEOREM OwnReading == CieSpec => [](CieTypeOK /\ SuccessNeedsCard /\ CompletedOnce)
<1>1. CieInv => CieTypeOK /\ SuccessNeedsCard /\ CompletedOnce
  BY DEF CieInv, CompletedOnce
<1> QED
  BY <1>1, CieInitInv, CieNextInv, PTL DEF CieSpec

(* startCieiOS removes all listeners before the first await: only the last *)
(* start has any.                                                          *)
THEOREM LastStartListens == CieSpec => []OneListener
<1>1. CieInv => OneListener
  BY DEF CieInv
<1> QED
  BY <1>1, CieInitInv, CieNextInv, PTL DEF CieSpec

=============================================================================
