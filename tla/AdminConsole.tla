----------------------------- MODULE AdminConsole -----------------------------
(***************************************************************************)
(* The administrative console, src/web/management/src: its sign-in         *)
(* (AdminOAuthState's createOAuthState / verifyOAuthState, then            *)
(* store/modules/authn.js createAccessToken), the router guard             *)
(* (router/index.js beforeEach and the SignIn route's beforeEnter), the    *)
(* alert pane (store/management/alert.js) and the stores the user list and *)
(* user details screens drive: current_user.js get, users_list.js         *)
(* fetchList, user_details.js get and modal_pane/delete_user.js delete.    *)
(* Each action is cut at its await.  The views that dispatch them are not  *)
(* in the repository: an action is offered on the route that shows it,     *)
(* while its own spinner is off (the UI contract of spec section 5).       *)
(***************************************************************************)
EXTENDS Naturals, FiniteSets

CONSTANTS
    Users,      \* user ids of the identity API
    Self,       \* the administrator's own id
    NoId,       \* current_user's default id, -1
    States, Forged, MaxReplays, \* AdminOAuthState
    NoValue,    \* JavaScript undefined
    MaxCalls    \* bound on the calls the UI makes

ASSUME Self \in Users /\ NoId \notin Users /\ MaxCalls \in Nat

VARIABLES
    stored, created, arrived, completed, rejected, \* AdminOAuthState
    token,        \* tokenManager holds an access token
    authn,        \* authn.js state
    alert,        \* alert.js state.alert
    route,        \* the route the router shows
    redirectPath, \* sessionStorage 'io.authcore.redirect_path'
    currentUser, usersList, userDetails, deleteUser, \* Vuex states
    live,         \* identity API: the users that exist
    lockUser, changePassword, role, admins, updateUserForm, metadata, \* AdminUserDetails
    secondFactorsList, oauthFactorsList, unlinkSecondFactor,
    unlinkOauthFactor, mfaLinked, idpLinked,                          \* AdminFactors
    inflight,     \* calls suspended at their await
    calls

oauthVars == <<stored, created, arrived, completed, rejected>>
vuexVars == <<authn, alert, currentUser, usersList, userDetails, deleteUser>>
udVars == <<lockUser, changePassword, role, admins, updateUserForm, metadata>>
factorVars == <<secondFactorsList, oauthFactorsList, unlinkSecondFactor,
                unlinkOauthFactor, mfaLinked, idpLinked>>
detailVars == <<udVars, factorVars>>
vars == <<oauthVars, token, vuexVars, detailVars, route, redirectPath, live,
          inflight, calls>>

S == INSTANCE AdminOAuthState
U == INSTANCE AdminUserDetails
F == INSTANCE AdminFactors

Routes == {"home", "signIn", "settings", "users", "details"}
NoAuthRoutes == {"home", "signIn"}
Messages == {"unknown", "no_permission", "same_account", "user_deleted"}
            \cup U!DetailMessages
Ops == {"exchange", "me", "listUsers", "getUser", "deleteUser"}
       \cup U!DetailOps \cup F!FactorOps
Request == [id : 1..MaxCalls, op : Ops, user : Users \cup {NoValue}]
Err == {NoValue, "raw"}

TypeOK ==
    /\ S!TypeOK /\ U!TypeOK /\ F!FactorsTypeOK /\ token \in BOOLEAN
    /\ authn \in [loading : BOOLEAN, error : Err]
    /\ alert \in [message : Messages \cup {""}, pending : BOOLEAN]
    /\ route \in Routes /\ redirectPath \in Routes \cup {NoValue}
    /\ currentUser \in [id : Users \cup {NoId}, loading : BOOLEAN, error : Err]
    /\ usersList \in [users : SUBSET Users, loading : BOOLEAN, error : Err]
    /\ userDetails \in [user : Users \cup {NoValue}, loading : BOOLEAN, error : Err]
    /\ deleteUser \in [loading : BOOLEAN, done : BOOLEAN, error : Err]
    /\ live \subseteq Users /\ inflight \subseteq Request /\ calls \in 0..MaxCalls

\* The stores' states on a page load.
DefaultAuthn == [loading |-> FALSE, error |-> NoValue]
NoAlert == [message |-> "", pending |-> FALSE]
DefaultCurrentUser == [id |-> NoId, loading |-> FALSE, error |-> NoValue]
DefaultUsersList == [users |-> {}, loading |-> FALSE, error |-> NoValue]
DefaultUserDetails == [user |-> NoValue, loading |-> FALSE, error |-> NoValue]
DefaultDeleteUser == [loading |-> FALSE, done |-> FALSE, error |-> NoValue]

Init ==
    /\ S!Init /\ U!Init /\ F!FactorsInit /\ token = FALSE
    /\ authn = DefaultAuthn /\ alert = NoAlert
    /\ currentUser = DefaultCurrentUser /\ usersList = DefaultUsersList
    /\ userDetails = DefaultUserDetails /\ deleteUser = DefaultDeleteUser
    /\ route = "home" /\ redirectPath = NoValue
    /\ live = Users /\ inflight = {} /\ calls = 0

(***************************************************************************)
(* Mutations                                                               *)
(***************************************************************************)
SET_LOADING(f) == [f EXCEPT !.loading = TRUE]
\* Mutants: the catch keeps the spinner on; the catch stores the status.
SET_ERROR_KeepsLoading(f) == [f EXCEPT !.error = "raw"]
SET_ERROR_Status(f) == [f EXCEPT !.loading = FALSE, !.error = "403"]

SET_ERROR(f) == [f EXCEPT !.loading = FALSE, !.error = "raw"]
SET_MESSAGE(m, p) == [message |-> m, pending |-> p]

\* POP_MESSAGE: a pending message is shown; a shown one is removed.
POP_MESSAGE(a) ==
    IF a.message = "" THEN a
    ELSE IF a.pending THEN [a EXCEPT !.pending = FALSE] ELSE NoAlert

(***************************************************************************)
(* Navigation: router.beforeEach, then the SignIn route's beforeEnter,     *)
(* whose next({name: 'Settings'}) starts a new navigation through          *)
(* beforeEach (the next() after it belongs to the superseded one).         *)
(***************************************************************************)
Navigate ==
    /\ \E to \in Routes \ {route} :
         CASE to \in NoAuthRoutes /\ ~(to = "signIn" /\ token) ->
                /\ route' = to /\ UNCHANGED <<alert, redirectPath>>
           [] token ->
                /\ route' = IF to = "signIn" THEN "settings" ELSE to
                /\ alert' = POP_MESSAGE(alert)
                /\ UNCHANGED redirectPath
           [] OTHER ->
                /\ redirectPath' = to /\ route' = "signIn"
                /\ UNCHANGED alert
    /\ UNCHANGED <<oauthVars, token, authn, currentUser, usersList,
                   userDetails, deleteUser, live, inflight, calls>>

(***************************************************************************)
(* Sign-in.  The SignIn view's button: createOAuthState, then the browser  *)
(* leaves for the provider.  The provider's redirect back is a page load:  *)
(* every Vuex store starts over and the old page's calls are lost; the     *)
(* view verifies the echoed state and, when it matches, dispatches         *)
(* createAccessToken, which commits SET_LOADING and awaits the exchange.   *)
(***************************************************************************)
MayInvoke == calls < MaxCalls

Send(op, u) ==
    /\ inflight' = inflight \cup {[id |-> calls + 1, op |-> op, user |-> u]}
    /\ calls' = calls + 1

StartSignIn ==
    /\ route = "signIn" /\ ~token
    /\ S!createOAuthState
    /\ UNCHANGED <<token, vuexVars, route, redirectPath, live, inflight, calls>>

OAuthCallback ==
    /\ ~token /\ MayInvoke
    /\ S!Callback
    /\ route' = "signIn"
    /\ alert' = NoAlert /\ currentUser' = DefaultCurrentUser
    /\ usersList' = DefaultUsersList /\ userDetails' = DefaultUserDetails
    /\ deleteUser' = DefaultDeleteUser /\ U!PageLoad /\ F!FactorsPageLoad
    /\ IF completed' # completed
         THEN /\ authn' = SET_LOADING(DefaultAuthn)
              /\ inflight' = {[id |-> calls + 1, op |-> "exchange", user |-> NoValue]}
              /\ calls' = calls + 1
         ELSE /\ authn' = DefaultAuthn /\ inflight' = {}
              /\ UNCHANGED calls
    /\ UNCHANGED <<token, redirectPath, live>>

(***************************************************************************)
(* The other actions, each on the screen that dispatches it.               *)
(***************************************************************************)
Protected == Routes \ NoAuthRoutes

\* current_user.get: SET_LOADING, await getCurrentUser.
InvokeGetCurrentUser ==
    /\ MayInvoke /\ route \in Protected /\ ~currentUser.loading
    /\ currentUser' = SET_LOADING(currentUser)
    /\ Send("me", NoValue)
    /\ UNCHANGED <<oauthVars, token, authn, alert, usersList, userDetails,
                   deleteUser, route, redirectPath, live>>

\* users_list.fetchList: SET_QUERY_OBJECT, SET_LOADING, await listUsers.
InvokeFetchList ==
    /\ MayInvoke /\ route = "users" /\ ~usersList.loading
    /\ usersList' = SET_LOADING(usersList)
    /\ Send("listUsers", NoValue)
    /\ UNCHANGED <<oauthVars, token, authn, alert, currentUser, userDetails,
                   deleteUser, route, redirectPath, live>>

\* user_details.get(id): SET_LOADING, await getUser(id).
InvokeGetUser ==
    /\ MayInvoke /\ route = "details" /\ ~userDetails.loading
    /\ userDetails' = SET_LOADING(userDetails)
    /\ \E u \in Users : Send("getUser", u)
    /\ UNCHANGED <<oauthVars, token, authn, alert, currentUser, usersList,
                   deleteUser, route, redirectPath, live>>

\* delete_user.delete(userId): SET_LOADING; the same-account check against
\* currentUser.user.id, which throws into the catch (SET_ERROR) after a
\* pending danger alert; otherwise await deleteUser(userId).
InvokeDeleteUser ==
    /\ MayInvoke /\ route = "details" /\ ~deleteUser.loading
    /\ \E u \in Users :
         IF currentUser.id = u
           THEN /\ alert' = SET_MESSAGE("same_account", TRUE)
                /\ deleteUser' = SET_ERROR(SET_LOADING(deleteUser))
                /\ UNCHANGED <<inflight, calls>>
           ELSE /\ deleteUser' = SET_LOADING(deleteUser)
                /\ Send("deleteUser", u)
                /\ UNCHANGED alert
    /\ UNCHANGED <<oauthVars, token, authn, currentUser, usersList,
                   userDetails, route, redirectPath, live>>

\* The delete modal commits RESET_STATES when it opens.
RESET_STATES ==
    /\ route = "details" /\ ~deleteUser.loading
    /\ deleteUser' = DefaultDeleteUser
    /\ UNCHANGED <<oauthVars, token, authn, alert, currentUser, usersList,
                   userDetails, route, redirectPath, live, inflight, calls>>

\* The user dismisses the alert the pane shows (the shownAlert getter).
UNSET_MESSAGE ==
    /\ alert.message # "" /\ ~alert.pending
    /\ alert' = NoAlert
    /\ UNCHANGED <<oauthVars, token, authn, currentUser, usersList,
                   userDetails, deleteUser, route, redirectPath, live,
                   inflight, calls>>

(***************************************************************************)
(* The identity API.  Without an access token every call but the exchange  *)
(* is refused.  "403" is a refusal for want of permission, "fail" any     *)
(* other HTTP error, and "net" a transport error, which has no             *)
(* err.response.                                                           *)
(***************************************************************************)
Outcomes(r) ==
    CASE r.op = "exchange" -> {"ok", "fail", "net"}
      [] ~token -> {"fail", "net"}
      [] r.op \in {"getUser", "deleteUser"} /\ r.user \notin live -> {"fail", "net"}
      [] OTHER -> {"ok", "403", "fail", "net"}

\* createAccessToken: tokenManager.add on success (loading is never
\* cleared); SET_ERROR and a danger alert on any failure.
CompleteExchange(r, o) ==
    /\ r.op = "exchange"
    /\ IF o = "ok"
         THEN /\ token' = TRUE /\ UNCHANGED <<authn, alert>>
         ELSE /\ authn' = [authn EXCEPT !.error = "raw"]
              /\ alert' = SET_MESSAGE("unknown", FALSE)
              /\ UNCHANGED token
    /\ UNCHANGED <<currentUser, usersList, userDetails, deleteUser, live>>

\* current_user.get: SET_USER (marshalUser gives the id) or SET_ERROR.
CompleteGetCurrentUser(r, o) ==
    /\ r.op = "me"
    /\ currentUser' = IF o = "ok"
                       THEN [id |-> Self, loading |-> FALSE, error |-> NoValue]
                       ELSE SET_ERROR(currentUser)
    /\ UNCHANGED <<token, authn, alert, usersList, userDetails, deleteUser, live>>

\* The catch of fetchList and of user_details.get: err.response.status is
\* read first, so a transport error throws out of the catch and nothing is
\* committed; a 403 adds a danger alert before SET_ERROR.
CatchReadingStatus(f, o) ==
    CASE o = "net" -> <<f, alert>>
      [] o = "403" -> <<SET_ERROR(f), SET_MESSAGE("no_permission", FALSE)>>
      [] OTHER -> <<SET_ERROR(f), alert>>

\* fetchList: SET_USER_LIST, or its catch.
CompleteFetchList(r, o) ==
    /\ r.op = "listUsers"
    /\ IF o = "ok"
         THEN /\ usersList' = [users |-> live, loading |-> FALSE, error |-> NoValue]
              /\ UNCHANGED alert
         ELSE /\ usersList' = CatchReadingStatus(usersList, o)[1]
              /\ alert' = CatchReadingStatus(usersList, o)[2]
    /\ UNCHANGED <<token, authn, currentUser, userDetails, deleteUser, live>>

\* user_details.get: SET_USER (error is left as it was), or its catch.
CompleteGetUser(r, o) ==
    /\ r.op = "getUser"
    /\ IF o = "ok"
         THEN /\ userDetails' = [userDetails EXCEPT !.user = r.user, !.loading = FALSE]
              /\ UNCHANGED alert
         ELSE /\ userDetails' = CatchReadingStatus(userDetails, o)[1]
              /\ alert' = CatchReadingStatus(userDetails, o)[2]
    /\ UNCHANGED <<token, authn, currentUser, usersList, deleteUser, live>>

\* delete: a pending success alert and SET_DONE, or SET_ERROR.
CompleteDeleteUser(r, o) ==
    /\ r.op = "deleteUser"
    /\ IF o = "ok"
         THEN /\ live' = live \ {r.user}
              /\ alert' = SET_MESSAGE("user_deleted", TRUE)
              /\ deleteUser' = [deleteUser EXCEPT !.loading = FALSE, !.done = TRUE]
         ELSE /\ deleteUser' = SET_ERROR(deleteUser)
              /\ UNCHANGED <<live, alert>>
    /\ UNCHANGED <<token, authn, currentUser, usersList, userDetails>>

ConsoleComplete ==
    /\ \E r \in inflight : \E o \in Outcomes(r) :
         /\ inflight' = inflight \ {r}
         /\ \/ CompleteExchange(r, o)
            \/ CompleteGetCurrentUser(r, o)
            \/ CompleteFetchList(r, o)
            \/ CompleteGetUser(r, o)
            \/ CompleteDeleteUser(r, o)
    /\ UNCHANGED <<oauthVars, route, redirectPath, calls, detailVars>>

\* The console's variables AdminUserDetails does not declare, and those
\* AdminFactors leaves alone.
consoleOnly == <<oauthVars, authn, usersList, deleteUser, redirectPath>>
notFactors == <<consoleOnly, udVars, currentUser, alert, live, token, route>>

Complete ==
    \/ ConsoleComplete
    \/ U!Complete /\ UNCHANGED <<consoleOnly, factorVars>>
    \/ F!CompleteFactors /\ UNCHANGED notFactors

Next ==
    \/ /\ \/ Navigate \/ StartSignIn
          \/ InvokeGetCurrentUser \/ InvokeFetchList \/ InvokeGetUser
          \/ InvokeDeleteUser \/ RESET_STATES \/ UNSET_MESSAGE
       /\ UNCHANGED detailVars
    \/ OAuthCallback
    \/ U!Next /\ UNCHANGED <<consoleOnly, factorVars>>
    \/ F!FactorsNext /\ UNCHANGED notFactors
    \/ Complete

\* The identity API, or the transport's timeout, answers every call.
Spec == Init /\ [][Next]_vars /\ WF_vars(Complete)

(***************************************************************************)
(* Properties                                                              *)
(***************************************************************************)

\* completeOAuth runs at most once per state value, only for a value this
\* tab created, though each redirect reloads the page and empties the store.
StateAcceptedOnce == S!StateAcceptedOnce

\* current_user.get, delete_user.delete, lock_user's lock / unlock and
\* change_password's changePassword always end their spinners: every catch
\* commits a SET_ERROR that clears loading, and changePassword's checks
\* throw into it.  fetchList and user_details.get do not (their catches
\* throw on a transport error), nor does role.js (its SET_ERROR keeps
\* loading), and createAccessToken never clears its loading.
AdminSpinnersSettle ==
    /\ currentUser.loading ~> ~currentUser.loading
    /\ deleteUser.loading ~> ~deleteUser.loading
    /\ lockUser.loading ~> ~lockUser.loading
    /\ changePassword.loading ~> ~changePassword.loading

\* delete_user.delete and role.js unassignRole refuse to act on the
\* administrator's own account (the alerts
\* 'alert.error.delete_user_for_same_account' and
\* 'error.role_unassignment_for_same_account'): whatever order the screens'
\* calls take, the identity API never deletes Self nor takes its role away.
OwnAdminAccessKept == Self \in live /\ Self \in admins

====
