------------------------------ MODULE WidgetStore ------------------------------
(***************************************************************************)
(* The widgets' root Vuex store, src/web/widgets/src/store/index.js, with  *)
(* two of the modules it registers side by side: devices (Devices) and    *)
(* widgets/externalOauth (ExternalOAuth), the two a user of the account    *)
(* widget drives from the same screen.  Each keeps its own state and      *)
(* requests; one JavaScript thread interleaves their steps, and the       *)
(* user's calls to any of them share one bound.  A step of one module      *)
(* leaves the others' variables alone: no module commits another's         *)
(* mutations.                                                              *)
(***************************************************************************)
EXTENDS Naturals, FiniteSets

CONSTANTS
    Sessions, Current,          \* Devices
    OAuthStates, PopupBlockable, \* ExternalOAuth
    NoValue,
    MaxCalls    \* bound on the calls the UI makes, to all modules together

VARIABLES
    devState, devInflight, devUnsettled, devLive,
    oaState, oaLoginFormCleared, oaPopup, oaParentAt, oaStorage, oaInMobile,
    oaHasSuccessRedirectUrl, oaInflight,
    calls

devVars == <<devState, devInflight, devUnsettled, devLive>>
oaVars == <<oaState, oaLoginFormCleared, oaPopup, oaParentAt, oaStorage,
            oaInMobile, oaHasSuccessRedirectUrl, oaInflight>>
vars == <<devVars, oaVars, calls>>

D == INSTANCE Devices
       WITH state <- devState, inflight <- devInflight,
            unsettled <- devUnsettled, live <- devLive

O == INSTANCE ExternalOAuth
       WITH state <- oaState, loginFormCleared <- oaLoginFormCleared,
            popup <- oaPopup, parentAt <- oaParentAt, storage <- oaStorage,
            inMobile <- oaInMobile,
            hasSuccessRedirectUrl <- oaHasSuccessRedirectUrl,
            inflight <- oaInflight

TypeOK == D!TypeOK /\ O!TypeOK

\* new Vuex.Store({modules: ...}): every module starts from its own state.
Init == D!Init /\ O!Init

Next ==
    \/ D!Next /\ UNCHANGED oaVars
    \/ O!Next /\ UNCHANGED devVars

\* Each module's requests are answered, by the identity API or the
\* transport's timeout, whatever the other modules do.
Spec ==
    /\ Init /\ [][Next]_vars
    /\ WF_vars(D!Complete /\ UNCHANGED oaVars)
    /\ WF_vars(O!Complete /\ UNCHANGED devVars)

(***************************************************************************)
(* Properties: those of each module, checked in the shared store.          *)
(***************************************************************************)

\* Signing out the other devices never signs out this one (devices.js
\* deleteAll skips the current session), whatever the other modules do.
CurrentSessionNeverRevoked == D!CurrentSessionNeverRevoked

\* devices.js: every path of list, delete and deleteAll clears `loading`.
DevicesSpinnerSettles == D!DevicesSpinnerSettles

\* external_oauth.js and util.js openOAuthWindow release the popup on
\* every failure path once no call is suspended.
PopupReleasedOnFailure == O!PopupReleasedOnFailure

\* openOAuthAuthenticator's spinner, once on, eventually goes off.
OAuthSpinnerSettles == O!OAuthSpinnerSettles

=============================================================================
