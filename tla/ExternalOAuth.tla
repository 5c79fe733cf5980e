----------------------------- MODULE ExternalOAuth -----------------------------
(***************************************************************************)
(* The OAuth popup handshake of the widgets:                               *)
(*   - openOAuthAuthenticator, the action of the Vuex module               *)
(*     src/web/widgets/src/store/widgets/external_oauth.js, and            *)
(*   - openOAuthWindow of src/web/widgets/src/utils/util.js.               *)
(* Both open the browser window named 'window' before their one await,     *)
(* ask for the provider's URL, and then navigate the popup to it, or the   *)
(* parent frame when there is no popup.  The popup is the one resource of  *)
(* spec section 5; `popup` is what the named window shows.                 *)
(***************************************************************************)
EXTENDS Naturals, FiniteSets

CONSTANTS
    OAuthStates,    \* anti-forgery values the identity API may return
    NoValue,        \* JavaScript undefined
    MaxCalls,       \* bound on the calls the UI makes
    PopupBlockable  \* may window.open return null (popup blocker)?

ASSUME MaxCalls \in Nat /\ PopupBlockable \in BOOLEAN

VARIABLES
    state,       \* external_oauth's Vuex state, a record of its fields
    loginFormCleared, \* loginAccountForm's state was reset to its defaults
    popup,       \* the named window: "none", "blank" or the state of the
                 \* provider URL it shows ("url" for one from openOAuthWindow)
    parentAt,    \* the provider URL the parent frame was sent to, or NoValue
    storage,     \* sessionStorage 'io.authcore.temporary.oauth_state'
    inMobile,    \* the browser is a mobile one (fixed for the session)
    hasSuccessRedirectUrl, \* client.successRedirectUrl is set (fixed)
    inflight,    \* calls suspended at their await
    calls

vars == <<state, loginFormCleared, popup, parentAt, storage, inMobile,
          hasSuccessRedirectUrl, inflight, calls>>

Purposes == {"authenticate", "create", "other"}
\* What the local `oauthWindow` / `w` holds after window.open.
Handles == {"window", "null", "undefined"}
URLs == OAuthStates \cup {"url"}

Request ==
    [id : 1..MaxCalls, caller : {"store"}, purpose : {"authenticate", "create"},
     win : Handles]
    \cup [id : 1..MaxCalls, caller : {"util"}, win : Handles]

Ok(s) == [kind |-> "ok", state |-> s]
Failure == [kind |-> "error"]

State ==
    [loading : BOOLEAN, error : {"raw", NoValue}, done : BOOLEAN,
     oauthState : OAuthStates \cup {NoValue}]

TypeOK ==
    /\ state \in State
    /\ loginFormCleared \in BOOLEAN
    /\ popup \in {"none", "blank"} \cup URLs
    /\ parentAt \in URLs \cup {NoValue}
    /\ storage \in OAuthStates \cup {NoValue}
    /\ inMobile \in BOOLEAN
    /\ hasSuccessRedirectUrl \in BOOLEAN
    /\ inflight \subseteq Request
    /\ calls \in 0..MaxCalls

getDefaultState ==
    [loading |-> FALSE, error |-> NoValue, done |-> FALSE, oauthState |-> NoValue]

Init ==
    /\ state = getDefaultState
    /\ loginFormCleared = FALSE
    /\ popup = "none"
    /\ parentAt = NoValue
    /\ storage = NoValue
    /\ inMobile \in BOOLEAN
    /\ hasSuccessRedirectUrl \in BOOLEAN
    /\ inflight = {}
    /\ calls = 0

(***************************************************************************)
(* Mutations, as functions from the state to the state, and the browser.  *)
(***************************************************************************)
OPEN_OAUTH_AUTHENTICATOR_STARTED(s) ==
    [s EXCEPT !.loading = TRUE, !.error = NoValue]

OPEN_OAUTH_AUTHENTICATOR_COMPLETED_StoresEndpoint(s, st) ==
    [s EXCEPT !.loading = FALSE, !.done = TRUE, !.oauthState = "url"]

OPEN_OAUTH_AUTHENTICATOR_COMPLETED(s, st) ==
    [s EXCEPT !.loading = FALSE, !.done = TRUE, !.oauthState = st]

OPEN_OAUTH_AUTHENTICATOR_FAILED_KeepsLoading(s) ==
    [s EXCEPT !.error = "raw"]

OPEN_OAUTH_AUTHENTICATOR_FAILED(s) ==
    [s EXCEPT !.loading = FALSE, !.error = "raw"]

\* window.open(...): the named window, navigated to about:blank, or null
\* when a popup blocker refuses it; `undefined` when the code does not call
\* it.
OpenResults(opens) ==
    IF ~opens THEN {"undefined"}
    ELSE IF PopupBlockable THEN {"window", "null"} ELSE {"window"}

AfterOpen(win) == IF win = "window" THEN "blank" ELSE popup

\* openOAuthAuthenticator opens the popup unless in a mobile browser with a
\* success redirect URL; openOAuthWindow unless in a mobile browser.
StoreOpensPopup == ~inMobile \/ ~hasSuccessRedirectUrl
UtilOpensPopup == ~inMobile

\* The catch of openOAuthAuthenticator, entered with the state `s` and the
\* popup `p` of the moment of the throw.  oauthWindow.close() on null
\* throws a TypeError out of the catch: the action rejects and
\* OPEN_OAUTH_AUTHENTICATOR_FAILED is never committed.
StoreCatchState(win, s) ==
    IF win = "null" THEN s ELSE OPEN_OAUTH_AUTHENTICATOR_FAILED(s)

StoreCatchPopup_NoClose(win, p) == p

StoreCatchPopup(win, p) == IF win = "window" THEN "none" ELSE p

\* Assigning a location to a window the user has closed changes nothing.
Navigate(url) == IF popup = "none" THEN "none" ELSE url

CallerMayInvoke == inflight = {} /\ calls < MaxCalls

InvokeOpenOAuthAuthenticator ==
    /\ CallerMayInvoke /\ ~state.loading
    /\ loginFormCleared' = TRUE
    /\ calls' = calls + 1
    /\ \E purpose \in Purposes, win \in OpenResults(StoreOpensPopup) :
         LET s == OPEN_OAUTH_AUTHENTICATOR_STARTED(state) IN
         \/ /\ purpose # "other"
            /\ state' = s
            /\ popup' = AfterOpen(win)
            /\ inflight' = {[id |-> calls + 1, caller |-> "store",
                             purpose |-> purpose, win |-> win]}
         \* throw new Error('undefined purpose'), before any await
         \/ /\ purpose = "other"
            /\ state' = StoreCatchState(win, s)
            /\ popup' = StoreCatchPopup(win, AfterOpen(win))
            /\ UNCHANGED inflight
    /\ UNCHANGED <<parentAt, storage, inMobile, hasSuccessRedirectUrl>>

\* After the await: sessionStorage.setItem, then navigate the parent
\* (redirectTo) or the popup, then COMPLETED.  With a null popup the
\* navigation throws after the state was stored.
CompleteOpenOAuthAuthenticator(r, o) ==
    \/ /\ o.kind = "ok"
       /\ storage' = o.state
       /\ \/ /\ r.win = "undefined"
             /\ parentAt' = o.state
             /\ state' = OPEN_OAUTH_AUTHENTICATOR_COMPLETED(state, o.state)
             /\ UNCHANGED popup
          \/ /\ r.win = "window"
             /\ popup' = Navigate(o.state)
             /\ state' = OPEN_OAUTH_AUTHENTICATOR_COMPLETED(state, o.state)
             /\ UNCHANGED parentAt
          \/ /\ r.win = "null"
             /\ state' = StoreCatchState(r.win, state)
             /\ popup' = StoreCatchPopup(r.win, popup)
             /\ UNCHANGED parentAt
    \/ /\ o = Failure
       /\ state' = StoreCatchState(r.win, state)
       /\ popup' = StoreCatchPopup(r.win, popup)
       /\ UNCHANGED <<parentAt, storage>>

InvokeOpenOAuthWindow ==
    /\ CallerMayInvoke
    /\ calls' = calls + 1
    /\ \E win \in OpenResults(UtilOpensPopup) :
         /\ popup' = AfterOpen(win)
         /\ inflight' = {[id |-> calls + 1, caller |-> "util", win |-> win]}
    /\ UNCHANGED <<state, loginFormCleared, parentAt, storage, inMobile,
                   hasSuccessRedirectUrl>>

\* After `await f()`: navigate `w` if it is truthy, else redirectTo; on an
\* error, closer(), which closes `w` only if it is truthy.
CompleteOpenOAuthWindow(r, o) ==
    /\ \/ /\ o.kind = "ok" /\ r.win = "window"
          /\ popup' = Navigate("url")
          /\ UNCHANGED parentAt
       \/ /\ o.kind = "ok" /\ r.win # "window"
          /\ parentAt' = "url"
          /\ UNCHANGED popup
       \/ /\ o = Failure
          /\ popup' = IF r.win = "window" THEN "none" ELSE popup
          /\ UNCHANGED parentAt
    /\ UNCHANGED <<state, storage>>

\* The identity API answers with a provider URL and its state, or fails;
\* openOAuthWindow's `f` likewise returns a URL or throws.
Complete ==
    /\ \E r \in inflight, o \in {Ok(st) : st \in OAuthStates} \cup {Failure} :
         /\ inflight' = inflight \ {r}
         /\ IF r.caller = "store" THEN CompleteOpenOAuthAuthenticator(r, o)
                                  ELSE CompleteOpenOAuthWindow(r, o)
    /\ UNCHANGED <<loginFormCleared, inMobile, hasSuccessRedirectUrl, calls>>

\* The user closes the popup, or the caller of openOAuthWindow calls the
\* closer it returned.
ClosePopup ==
    /\ popup # "none"
    /\ popup' = "none"
    /\ UNCHANGED <<state, loginFormCleared, parentAt, storage, inMobile,
                   hasSuccessRedirectUrl, inflight, calls>>

\* The view commits CLEAR_STATES when it leaves the screen.
CLEAR_STATES ==
    /\ state' = getDefaultState
    /\ UNCHANGED <<loginFormCleared, popup, parentAt, storage, inMobile,
                   hasSuccessRedirectUrl, inflight, calls>>

Next ==
    \/ InvokeOpenOAuthAuthenticator
    \/ InvokeOpenOAuthWindow
    \/ Complete
    \/ ClosePopup
    \/ CLEAR_STATES

Spec == Init /\ [][Next]_vars /\ WF_vars(Complete)

(***************************************************************************)
(* Properties                                                              *)
(***************************************************************************)

\* The popup is released on every failure path (spec 4.3, 5): once no call
\* is suspended, the named window never stays on about:blank, whether the
\* call was openOAuthAuthenticator or openOAuthWindow.
PopupReleasedOnFailure == inflight = {} => popup # "blank"

\* Every path of openOAuthAuthenticator ends in a mutation that clears
\* `loading`: the spinner, once on, eventually goes off.
OAuthSpinnerSettles == state.loading ~> ~state.loading

=============================================================================
