----------------------------- MODULE CieReader ------------------------------
(***************************************************************************)
(* The login with the electronic identity card: WebViewComponent           *)
(* (components/cie/component.tsx), which takes the user through the pages  *)
(* of the identity provider, and the card reader it starts                 *)
(* (components/cie/manager.ts).  A web view lives as long as the modal of  *)
(* TestCieL3Scenario; the reader and its listeners are one for the whole   *)
(* application, and starting it takes several awaits, in another order on  *)
(* each platform.                                                          *)
(***************************************************************************)
EXTENDS Naturals

CONSTANTS
    MaxViews,   \* bound: web views opened in a behaviour
    MaxStarts   \* bound: times a page asks for the reader

View == 1 .. MaxViews
Start == 1 .. MaxStarts

ASSUME ReaderAssumption ==
    MaxViews \in Nat /\ MaxStarts \in Nat

VARIABLES
    platform,   \* "ios" or "android", never changed
    view,       \* each web view: is it open, its isCardReadingFinished, its ref
                \* cieCompletedEventEmitted, does it show an error page
    start,      \* each call of startCieAndroid or startCieiOS: view, progress
    listeners,  \* the calls whose three listeners are registered
    reader,     \* the reader: listening or not, and whose URL it has
    outcome,    \* what was handed to the callbacks: the views that succeeded,
                \* the completed events
    cardRead    \* the readings so far: whose listener got the URL, and whose
                \* authentication URL the card had signed

cieVars == <<platform, view, start, listeners, reader, outcome, cardRead>>

Open(v) == view[v].state = "open"

CieInit ==
    /\ platform \in {"ios", "android"}
    /\ view = [v \in View |->
            [state |-> "new", finished |-> FALSE, emitted |-> FALSE,
             errorPage |-> FALSE]]
    /\ start = [s \in Start |-> [view |-> 0, pc |-> "unused"]]
    /\ listeners = {}
    /\ reader = [on |-> FALSE, url |-> 0]
    /\ outcome = [success |-> {}, completed |-> [v \in View |-> 0]]
    /\ cardRead = {}

(* TestCieL3Scenario.handleOnError closes the modal, whichever view it     *)
(* shows by now and whatever the error; the rest of what it does is in     *)
(* PidFlow.                                                                *)
OnError ==
    view' = [v \in View |->
        IF Open(v) THEN [view[v] EXCEPT !.state = "gone"] ELSE view[v]]

-----------------------------------------------------------------------------
(* The life of a web view.                                                 *)

Mount(v) ==
    /\ view[v].state = "new"
    /\ \A w \in View : ~ Open(w) /\ (w < v => view[w].state = "gone")
    /\ view' = [view EXCEPT ![v].state = "open"]
    /\ UNCHANGED <<start, listeners, reader, outcome, cardRead>>

(* toggleModal, or new parameters.  No listener is removed.                *)
Unmount(v) ==
    /\ Open(v)
    /\ view' = [view EXCEPT ![v].state = "gone"]
    /\ UNCHANGED <<start, listeners, reader, outcome, cardRead>>

-----------------------------------------------------------------------------
(* Starting the reader.                                                    *)

NextStart(s) ==
    start[s].pc = "unused" /\ \A r \in Start : r < s => start[r].pc # "unused"

(* Both remove all listeners; on iOS the new ones are registered at once,  *)
(* on Android after start().                                               *)
StartCieAndroid(v, s) ==
    /\ listeners' = {}
    /\ start' = [start EXCEPT ![s] = [view |-> v, pc |-> "start"]]

StartCieiOS(v, s) ==
    /\ listeners' = {s}
    /\ start' = [start EXCEPT ![s] = [view |-> v, pc |-> "pin"]]

HandleMessage_NoRemove(v, s) ==
    /\ Open(v)
    /\ NextStart(s)
    /\ IF platform = "ios"
       THEN /\ listeners' = listeners \cup {s}
            /\ start' = [start EXCEPT ![s] = [view |-> v, pc |-> "pin"]]
       ELSE /\ UNCHANGED listeners
            /\ start' = [start EXCEPT ![s] = [view |-> v, pc |-> "start"]]
    /\ UNCHANGED <<view, reader, outcome, cardRead>>

(* A page with the login link was loaded.                                  *)
HandleMessage(v, s) ==
    /\ Open(v)
    /\ NextStart(s)
    /\ IF platform = "ios" THEN StartCieiOS(v, s) ELSE StartCieAndroid(v, s)
    /\ UNCHANGED <<view, reader, outcome, cardRead>>

Goto(s, pc) == start' = [start EXCEPT ![s].pc = pc]

(* start() resolved.                                                       *)
Started(s) ==
    /\ start[s].pc = "start"
    /\ IF platform = "ios"
       THEN Goto(s, "listen") /\ UNCHANGED listeners
       ELSE Goto(s, "pin") /\ listeners' = listeners \cup {s}
    /\ UNCHANGED <<view, reader, outcome, cardRead>>

(* setPin resolved; the authentication URL is set next.                    *)
PinSet(s) ==
    /\ start[s].pc = "pin"
    /\ Goto(s, IF platform = "ios" THEN "start" ELSE "listen")
    /\ reader' = [reader EXCEPT !.url = s]
    /\ UNCHANGED <<view, listeners, outcome, cardRead>>

(* startListeningNFC resolved: waiting_card.                               *)
Listening(s) ==
    /\ start[s].pc = "listen"
    /\ Goto(s, "ready")
    /\ reader' = [reader EXCEPT !.on = TRUE]
    /\ UNCHANGED <<view, listeners, outcome, cardRead>>

(* One of these calls failed, or one before them threw.                    *)
StartFailed(s) ==
    /\ start[s].pc \in {"start", "pin", "listen"}
    /\ Goto(s, "failed")
    /\ OnError
    /\ UNCHANGED <<listeners, reader, outcome, cardRead>>

-----------------------------------------------------------------------------
(* Events of the reader.                                                   *)

(* An event that handleCieEvent reports as an error: the card is lost,     *)
(* wrong, locked, expired...  The onError listener does the same; the      *)
(* other events only change a text.                                        *)
ReaderError ==
    /\ reader.on /\ listeners # {}
    /\ OnError
    /\ UNCHANGED <<start, listeners, reader, outcome, cardRead>>

(* The card was read: every listener hands the URL to continueWithUrl of   *)
(* the view that started it, where it is lost if the view is gone.         *)
CardSuccess ==
    /\ reader.on /\ listeners # {}
    /\ view' = [v \in View |->
            IF Open(v) /\ \E s \in listeners : start[s].view = v
            THEN [view[v] EXCEPT !.finished = TRUE] ELSE view[v]]
    /\ cardRead' = cardRead \cup {[listener |-> s, url |-> reader.url] : s \in listeners}
    /\ UNCHANGED <<start, listeners, reader, outcome>>

-----------------------------------------------------------------------------
(* Events of the web view.                                                 *)

HandleShouldStartLoading_AnyTime(v) ==
    /\ Open(v)
    /\ outcome' = [outcome EXCEPT !.success = @ \cup {v}]
    /\ UNCHANGED <<view, start, listeners, reader, cardRead>>

(* The page leads to the redirect URL.                                     *)
HandleShouldStartLoading(v) ==
    /\ Open(v)
    /\ view[v].finished
    /\ outcome' = [outcome EXCEPT !.success = @ \cup {v}]
    /\ UNCHANGED <<view, start, listeners, reader, cardRead>>

HandleOnLoadEnd_NoRef(v) ==
    /\ Open(v) /\ outcome.completed[v] < 2
    /\ view' = [view EXCEPT ![v].errorPage = FALSE]
    /\ outcome' = [outcome EXCEPT !.completed[v] =
            IF view[v].finished THEN @ + 1 ELSE @]
    /\ UNCHANGED <<start, listeners, reader, cardRead>>

(* A page was loaded; after the card was read the first one is reported.   *)
HandleOnLoadEnd(v) ==
    LET completed == view[v].finished /\ ~ view[v].emitted IN
    /\ Open(v)
    /\ view' = [view EXCEPT ![v].errorPage = FALSE,
                            ![v].emitted = @ \/ completed]
    /\ outcome' = [outcome EXCEPT !.completed[v] =
            IF completed THEN @ + 1 ELSE @]
    /\ UNCHANGED <<start, listeners, reader, cardRead>>

(* The title of the page says that it is an error page.  handleOnError     *)
(* gets an Error, looks for its nativeEvent.statusCode and throws, before  *)
(* any callback is called.                                                 *)
LoadEndErrorPage(v) ==
    /\ Open(v)
    /\ view' = [view EXCEPT ![v].errorPage = TRUE]
    /\ UNCHANGED <<start, listeners, reader, outcome, cardRead>>

(* onError and onHttpError of the web view.                                *)
HandleOnError(v) ==
    /\ Open(v)
    /\ OnError
    /\ UNCHANGED <<start, listeners, reader, outcome, cardRead>>

CieNext ==
    /\ UNCHANGED platform
    /\ \/ \E v \in View :
            \/ Mount(v) \/ Unmount(v)
            \/ \E s \in Start : HandleMessage(v, s)
            \/ HandleShouldStartLoading(v) \/ HandleOnLoadEnd(v)
            \/ LoadEndErrorPage(v) \/ HandleOnError(v)
       \/ \E s \in Start : Started(s) \/ PinSet(s) \/ Listening(s) \/ StartFailed(s)
       \/ ReaderError \/ CardSuccess

CieSpec == CieInit /\ [][CieNext]_cieVars
-----------------------------------------------------------------------------
(* Type invariant.                                                         *)
CieTypeOK ==
    /\ platform \in {"ios", "android"}
    /\ view \in [View -> [state : {"new", "open", "gone"},
                          finished : BOOLEAN, emitted : BOOLEAN,
                          errorPage : BOOLEAN]]
    /\ start \in [Start -> [view : View \cup {0},
                            pc : {"unused", "start", "pin", "listen", "ready",
                                  "failed"}]]
    /\ listeners \subseteq Start
    /\ reader \in [on : BOOLEAN, url : Start \cup {0}]
    /\ outcome \in [success : SUBSET View, completed : [View -> Nat]]
    /\ cardRead \subseteq [listener : Start, url : Start \cup {0}]

(* A listener that this web view registered has got the URL of a reading.  *)
Told(v) == \E r \in cardRead : start[r.listener].view = v

(* A web view reports success only after a listener of its own has got the *)
(* URL of a reading: not with a reading that only an earlier view, whose   *)
(* listeners may still be registered, was told of, nor when the pages pass *)
(* over the redirect URL before.                                           *)
SuccessNeedsCard == \A v \in outcome.success : Told(v)

(* "The ref here prevents the 'read completed' event being fired multiple  *)
(* times": once per view at most, and only if its listener was told that a *)
(* card was read.                                                          *)
CompletedOnce ==
    \A v \in View :
        outcome.completed[v] <= 1 /\ (outcome.completed[v] = 1 => Told(v))

(* On iOS a card event is handled once, by the last view that started the  *)
(* reader, however many starts are under way.                              *)
OneListener ==
    platform = "ios" =>
        \A s \in listeners : \A r \in Start : r > s => start[r].pc = "unused"

(* WebViewComponent "extrapolates the authentication URL necessary for     *)
(* CieManager to sign": the reading a listener gets is of the URL that its *)
(* own view asked for.                                                     *)
(* The code does not keep this (README, Findings).                         *)
OwnUrlIsRead == \A r \in cardRead : start[r.url].view = start[r.listener].view

(* CIEParams.onError is the "callback function in case of error".  It      *)
(* closes the view, so no open view is left on an error page.              *)
(* The code does not keep this (README, Findings).                         *)
ErrorPageIsReported == \A v \in View : ~ (Open(v) /\ view[v].errorPage)
=============================================================================
