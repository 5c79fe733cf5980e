# TLA+ models of the Authcore web front end

This directory holds TLA+ models of the client-side logic of the Authcore web
front end (`src/web/widgets` and `src/web/management`). It also holds the TLC
configurations that check them. `PROJECT.json` lists the components, the runs,
the mutants that show each property can fail, the source lines each
definition models, the findings and the hazards.

## 1. The system

The front end is two Vue/Vuex single-page applications that talk to a remote
identity API through the `authcore-js` SDK. The SDK is not part of this
repository.

* **widgets** (`src/web/widgets/src`): embeddable sign-in, registration,
  password-reset, MFA and account-settings screens.
* **management** (`src/web/management/src`): the administrative console.

All state lives in Vuex store modules. An *action* is an `async` function. It
commits synchronous *mutations*, `await`s one or more SDK calls, and then
commits more mutations. JavaScript runs on one thread. Actions interleave only
at their `await`s: a UI event (a click or a route change) or a network
completion runs to its next `await` without interruption. This is the
concurrency the models explore. Each action is split at its `await`s into
atomic steps. The responses come back in any order, and the UI may act
between the steps.

### Components, their state and operations

| Component | Source | State | Operations | Interacts with |
|---|---|---|---|---|
| Authentication transaction orchestrator | `widgets/src/store/modules/authn.js` | `authnState` (the server's transaction: continuation token and status), `loading`, `error`, `handle`, `password`, `passwordConfirmation`, `selectedMFA`, `passwordScore`, `signUpErrors`, `resetToken` | `start`, `verifyPassword`, `requestMFA`, `verifyMFA`, `signUp`, `startIDP`, `verifyIDP`, `startIDPBinding`, `verifyIDPBinding`, `verifyPasswordStepUp`, `startPasswordReset`, `verifyPasswordReset`, `getState`, `signOut`; mutations `SET_*`, `RESET` | identity API (SDK `client.authn`, `client.client`); the views read its state; the token manager |
| Password-reset sub-orchestrator | `widgets/src/store/widgets/account/reset_password_form.js` | `challenges`, `selectedChallengeMethod`, `authorizationToken`, three `…Done` flags, `loading`, `error` | `authenticateHandle`, `_authenticateInit`, `authenticateWithContact`, `resetPassword`, `CLEAR_STATES` | identity API; the SMS dispatch |
| OAuth linking orchestrator | `widgets/src/store/widgets/external_oauth.js`, `widgets/src/utils/util.js` (`openOAuthWindow`, `redirectTo`), `management/src/utils/util.js` (`createOAuthState`, `verifyOAuthState`) | popup window handle, `loading`, `error`, `done`, `oauthState`; session storage key holding the anti-forgery state | `openOAuthAuthenticator`, `openOAuthWindow`, `createOAuthState`, `verifyOAuthState` | browser popup, session storage, identity API, parent frame (postMessage) |
| Session/token store (`AdminConsole`) | `management/src/store/modules/authn.js`, `widgets` `authn.isAuthenticated`/`signOut` | access token in the SDK token manager | `createAccessToken`, `signOut`, `isAuthenticated` | router guard (`management/src/router/index.js`) |
| Password change (`WidgetPassword`, `AdminUserDetails`) | `widgets/src/store/modules/password.js`, `management/.../modal_pane/change_password.js` | `password`, `passwordConfirmation`, `passwordScore`, `loading`, `error`, `done` | `changePassword` | verifier builder, identity API, alert store |
| MFA settings | `widgets/src/store/modules/mfa.js` | `secondFactors`, `totpSecret`, `totpCode`, `loading`, `error` | `list`, `delete`, `generateTOTPSecret`, `createTOTP` | identity API, alert store |
| Contacts and verification (`Contacts`) | `widgets/src/store/widgets/contacts_list*.js`, `verify_account_form.js` | contacts, per-form `loading`/`done`/`error` | `list`, `create`, `delete`, `updatePrimaryContact`, `primaryContactVerification`, … | identity API |
| Sessions (devices) | `widgets/src/store/modules/devices.js`, `management/.../devices_list.js` | `sessions`, `currentSession`, `loading`, `error` | `list`, `delete`, `deleteAll` | identity API |
| Profile, social logins, users | `widgets/.../account.js`, `update_profile_form.js`, `social_login.js`, `users.js` | the current user, its IdP links | `get`, `set`, `list`, `delete` | identity API |
| Alert queue (`AdminConsole`) | `management/src/store/management/alert.js` | one alert `{type, message, pending}` | `SET_MESSAGE`, `UNSET_MESSAGE`, `POP_MESSAGE` | router guards pop it on navigation |
| Widget container configuration | `widgets/src/store/client.js`, `preferences.js`, `main.js` | container parameters, callbacks, settings | `GET_CLIENT_COMPLETED`, `SET_*`, postMessage listener | parent page (postMessage) |
| Administrative console CRUD (users: `AdminConsole`; details screen: `AdminUserDetails`, `AdminFactors`) | `management/src/store/management/**` | users, roles, templates, logs, modal panes | list/create/update/delete | identity API |
| Routing, i18n, formatting, marshalling | routers, `lang/*.js`, `utils/format.js`, `utils/marshal.js` | none of interest | pure functions and tables | all views |

### What is hard here

* **Late answers.** An `await` can resolve after the user has cancelled
  (`RESET`) or started over. No action checks that the answer belongs to the
  current attempt.
* **State read after an await.** Some handlers read the store after the call
  returns: `SET_MFA_CODE_ERROR` reads `selectedMFA`, `signUp` reads `handle`,
  `verifyPasswordReset` reads `resetToken`. The value may have changed while
  the call was in flight.
* **Error classification.** Every caught error must become exactly one
  message kind (spec section 7). A 429 must never read as a wrong code. An
  error path that forgets `loading = false` leaves the spinner on forever.
* **Multi-step partial failure.** `_authenticateInit` after
  `AUTHENTICATE_HANDLE_COMPLETED`, contact creation followed by the
  verification dispatch, and `deleteAll` over many sessions each have several
  steps. One step can fail after the others are done.
* **The OAuth popup.** The popup must be opened before the first `await`. It
  must be closed on every failure path. The anti-forgery state must round-trip
  through session storage.

### What makes each component correct

* Orchestrator: the transaction the client holds belongs to the current attempt
  and to the handle on screen. A late answer is never applied after `RESET`.
  The spinner is off whenever nothing is in flight. Each error kind has its own
  message, and a rate limit is never a wrong credential. Selecting SMS sends a
  code. Terminal states are sinks.
* Reset: no reset request without matching passwords. The authorization token
  comes only from a successful factor. A 404 at the handle step and a 404 at
  the factor step are told apart.
* OAuth: the popup is closed on every failure. The spinner always stops. A
  mismatching `state` never reaches the server. Spec section 8 also says the
  stored value is cleared, but the code keeps it: see `AdminOAuthState`.
* Admin console: only a verified callback yields a token, and the
  administrator can never delete their own account.
* Stores with a spinner: every call eventually leaves `loading` false, and every
  error is shown, not swallowed.

## 2. Modules and how they map to the code

### `Authn` (with `MCAuthn`): the sign-in path of `authn.js`

* State: `authnState`, `loading`, `error`, `handle`, `password`, `selectedMFA`
  are the store's fields. Strings are abstracted to model values. `error` holds
  the message key it would display, and an `Error` object becomes `"unknown"`,
  which is what `SET_ERROR` shows.
* Each action with one `await` is an `Invoke…` step plus a disjunct of
  `Complete`. The `Invoke…` step runs the commits before the call and records
  the request with the arguments the code read (`inflight`). The `Complete`
  disjunct is the code after the `await`, run on one identity-API answer.
* The identity API is an external collaborator (spec section 6). It is modelled
  by its response contract (`StartOutcomes`, `VerifyOutcomes`, `Outcomes`,
  marked spec-modelled in the map). A transaction goes PRIMARY → MFA_REQUIRED
  → SUCCESS. A request for a transaction in another status gets 400. Any
  request may end in 429, 500 or a transport error.
* `SelectMFA` is the view committing `SET_SELECTED_MFA` and dispatching
  `requestMFA`. In the code, `requestMFA` never reaches the SDK (see the
  findings).
* `RESET` is the user abandoning the flow. The UI invokes an action only while
  `loading` is false, at most `MaxCalls` times. `CancelInFlight` says whether
  `RESET` may come while a call is in flight.
* `lastResp` records the answer the last step handled, so that action
  properties can talk about it. `smsSent` records the transactions the
  identity API sent an SMS code for.

### `AuthnTransaction`: the promise of spec section 4.1, and its refinement

* `AuthnTransaction` is the abstract transaction machine. It has the client's
  `phase` (IDLE, AWAITING_PRIMARY, AWAITING_SECOND_FACTOR, SUCCESS, FAILED),
  the token `tx` it holds, and the server's status `srv` of every
  transaction. In `Start` and `Advance` the server and the client move
  together, so a server transition that the client does not adopt is not a
  step of the machine. `Cancel` goes back to IDLE. `Fail` is allowed but
  never needed: the code leaves a failed `start` at IDLE (spec 4.1,
  tie-break rule).
* `Authn` instantiates it as `Transaction`, with a refinement mapping.
  `phase` comes from `authnState` (`null` is IDLE, and PRIMARY and
  MFA_REQUIRED are renamed by `Phase`), `tx` is `authnState.tx`, and `srv`
  is `srvStatus` renamed. `ImplementsTransaction == Transaction!Spec` is
  checked in `authn_contract`. With `CancelInFlight = TRUE` the mapping
  breaks: the late answer of an abandoned `start` replaces the held
  transaction with no cancel in between. This is the same divergence that
  `authn_stale_response` shows.

### `ResetPasswordForm` (with `MCResetPasswordForm`): `reset_password_form.js`

* State: `state` is the module's Vuex state, one record with the fields of
  `getDefaultState()`. Each mutation is a function from state to state with
  the mutation's name. A completion that commits several mutations composes
  them in code order, e.g. `AUTHENTICATE_FACTOR_INIT(AUTHENTICATE_HANDLE_COMPLETED(state), …)`.
* Requests carry the number of the UI call they belong to. `_authenticateInit`
  has no `await` before its commit, so it is part of the completion that
  dispatches it. Its `await startAuthenticateSMS()` is a second request,
  tagged with the stage (`handle` or `factor`) whose `catch` handles its
  failure. The spinner is already off while that request is in flight, so
  the UI may call again meanwhile.
* `resetPassword` with unequal passwords is its own action
  (`ResetPasswordMismatch`). It throws after `RESET_PASSWORD_STARTED`, and
  nothing is sent.
* The identity API (spec-modelled) answers a handle lookup with a challenge
  list (the empty list included) or 404. It answers a reset link with a fresh
  single-use token or further challenges, or 404. It accepts a reset once per
  issued token and answers 403 otherwise. Every call may also get 429 (with
  or without "many" in the body), 500 or a transport error.
* `errStage` is a history variable: the stage whose FAILED mutation set the
  error on screen. It goes back to "none" whenever the store clears `error`
  (each `*_STARTED` mutation and `CLEAR_STATES`), so a failed lookup
  followed by a successful retry does not count against the handle step.
* The UI contract: calls only while `loading` is false, at most `MaxCalls`.
  The handle and link forms are offered until a factor is satisfied, the
  new-password form after that. `ClearInFlight` says whether `CLEAR_STATES`
  may come while a call is in flight.

### `ExternalOAuth`: `external_oauth.js` and `openOAuthWindow`

* `state` is the store's Vuex state, and the mutations are functions on it.
  `popup` is what the browser window named `'window'` shows: nothing, `about:blank`,
  or a provider URL. Both openers open and reuse that window. `parentAt` is
  the URL `redirectTo` sends the parent frame to. Whether it goes by direct
  navigation or by `postMessage` is abstracted away. `storage` is the
  session-storage key. `inMobile` and `hasSuccessRedirectUrl` are fixed for
  the session, and together they decide who opens a popup.
* `window.open` returns the window, or `null` when `PopupBlockable` lets a
  popup blocker refuse it. `oauthWindow.close()` on `null` throws out of the
  catch (`StoreCatchState`). The action then rejects without committing
  `FAILED`.
* `loginFormCleared` records the `loginAccountForm/CLEAR_STATES` commit the
  action makes. The fields of that other store are not modelled.
* `ClosePopup` is the user closing the popup, or the caller calling the
  closer that `openOAuthWindow` returns. Navigating a closed window changes
  nothing.

### `AdminOAuthState`: `createOAuthState` / `verifyOAuthState`

* `stored` is the session-storage value. `created`, `arrived` and `completed`
  count handshakes, redirects and `completeOAuth` calls per state value.
  `rejected` records whether the last redirect failed verification.
* Their callers, the sign-in and callback views, are not in the repository.
  `Callback` follows spec section 4.3: verify the echoed state, and call
  `completeOAuth` only if it matches. Redirects carry a value the tab
  created (possibly replayed) or a forged one. `Idle` lets the model stop
  when nothing more arrives.
* `verifyOAuthState` keeps the stored value when the echo does not match
  (`StoredAfterVerify`), where spec section 8 says to clear it.
  `StateAcceptedOnce` still holds: the kept value is consumed by the first
  matching callback, so the divergence admits no second sign-in.
* The module is checked inside `AdminConsole`, which instances it.

### `AdminConsole` (with `MCAdminConsole`): the management console

* The state is the `AdminOAuthState` handshake plus these parts:
  * `token`: the token manager holds an access token, which is the
    `authn/isAuthenticated` getter;
  * `authn`: `authn.js`'s `loading` and `error`;
  * `alert`: `alert.js`'s single slot;
  * `route` and `redirectPath`: the router and its session-storage key;
  * the Vuex states of `current_user.js`, `users_list.js`, `user_details.js`
    and `modal_pane/delete_user.js`, reduced to ids, loading, done and error;
  * `live`: the users the identity API holds;
  * `inflight` and `calls`: suspended requests and the call bound.
* `Navigate` is `router.beforeEach` together with the SignIn route's
  `beforeEnter`:
  * a signed-in user is sent from SignIn to Settings;
  * a protected route pops the alert (`POP_MESSAGE`) when a token is held;
  * otherwise it stores the redirect path and goes to SignIn.
* `OAuthCallback` is a page load, so it resets every Vuex store and drops
  the requests in flight. It then verifies the echoed state and, only on a
  match, runs `createAccessToken`: `SET_LOADING`, then the exchange.
* The `Invoke*` actions are the store actions up to their await. Each is
  offered on the route whose view dispatches it. `InvokeDeleteUser` makes
  the same-account check against `currentUser.id` first.
* The `Complete*` actions are the code after the await, for every outcome:
  success, `403`, another HTTP error, and a transport error that has no
  `err.response`. `CatchReadingStatus` is the shared catch of
  `users_list.fetchList` and `user_details.get`. A transport error throws
  inside it, so nothing is committed.
* One property covers the console itself:
  * `AdminSpinnersSettle`: the current-user and delete spinners always stop.
    The list, details and `authn` spinners are left out, because they do not
    always stop: the transport-error catch, and `createAccessToken`, which
    never clears `loading`.
* `OwnAdminAccessKept` states the intent of the two same-account alerts,
  `delete`'s `delete_user_for_same_account` and `unassignRole`'s: the
  administrator keeps both the account and the role. It is violated, see
  `admin_self_delete`.
* `AdminConsole` declares the variables of `AdminUserDetails` too and takes
  it as `U == INSTANCE AdminUserDetails` with the same names. `Next` is the
  console's own steps, `U!Next`, and `Complete`, the answer to any call in
  flight of either.

### `AdminUserDetails`: the stores of the user-details screen

* The stores that act on the user the details screen shows, whose id they
  read from `userDetails.user`:
  * `modal_pane/lock_user.js`: `lock`/`unlock` (`InvokeLock`,
    `CompleteLock`), which also commit `userDetails`' `SET_USER`;
  * `modal_pane/change_password.js`: `changePassword`, whose empty and
    mismatched inputs fail before any call;
  * `user_details/role.js`: `fetchRoleAssignmentsList`, `assignRole`
    (a 409 is `role_exists`), and `unassignRole`, which repeats the
    same-account check against `currentUser.user.id`. On success both
    assignment actions send the follow-up `getUserRoles` at once.
    `role.js`'s `SET_ERROR` keeps `loading` on (`RoleSET_ERROR`);
  * `user_details/update_user_form.js`: `update`. Its catch is
    `UpdateCatchError`, the error object it builds, and `CommitsError`,
    the test of line 118, which reads fields (`email`, `phone`) the object
    never has: a contact violation, a 500 or a transport error commits
    nothing and the spinner stays on;
  * `user_details/metadata.js`: `list` (synchronous, one step),
    `updateUserMetadata`/`updateAppMetadata` (one action; they differ in
    the field sent and the wording). Invalid JSON and any failure of the
    call only raise the "invalid syntax" alert and leave `loading` on.
* `admins` is the identity API's assignment of one role. The outcomes are
  `ok` and `fail` for every call, `409` for assigning a held role, and
  `contact`/`username` for the field violations `update` classifies.
* `AdminSpinnersSettle` covers the lock and change-password panes; the
  role, profile-form and metadata spinners are left out because they do
  not always stop.

### `AdminFactors`: the factor lists and unlink panes of the details screen

* `second_factors_list.js` and `oauth_factors_list.js` (`fetchList`), and
  `modal_pane/unlink_second_factor.js` and `unlink_oauth_factor.js`
  (`unlink`, offered from a row the list shows).
* `mfaLinked` and `idpLinked` are the users the identity API holds a second
  factor or an IdP link for; a list's rows are reduced to `shown`.
* Neither list clears `loading` after `fetchList`, even on success, and
  every `SET_ERROR` of the four stores keeps it on (`ListAnswer`,
  `PaneAnswer`). Under the UI contract the IdP list's own `delete(id)` is
  therefore never offered; it also omits `deleteUserIDP`'s service
  argument. It is left out.
* `AdminConsole` takes it as `F == INSTANCE AdminFactors`; its steps leave
  every other store alone (`notFactors`).

### `Devices`: `widgets/src/store/modules/devices.js`

* `state` is the module's Vuex state. `sessions` is held as a set, because
  the order that `SET_DEVICES_LIST` sorts in is left out. `live` is the
  identity API's set of the user's sessions. `unsettled` holds the
  `deleteAll` calls whose `Promise.all` has not settled yet.
* `list` is split at its two `await`s: `CompleteListSessions` chains a
  `current` request that carries the sessions just received, and
  `CompleteGetCurrentSession` commits `SET_DEVICES_LIST`.
* `deleteAll` has three cases:
  * A `TypeError` when no current session is loaded but sessions are
    listed.
  * An immediate resolve when there is nothing to delete.
  * Otherwise, one delete per other session, all sent at once.
    `CompleteDeleteOfAll` follows `Promise.all`: it rejects at the first
    failure, resolves after the last success, and ignores any answer after
    it has settled.
* `SessionEndsElsewhere`: another device signs out on its own.
* Not model-checked: the `pageLoaded` getter (lines 19-21) tests
  `error !== undefined`, but the default state and `SET_LOADING` store
  `null`, so the getter is true from the start. This is a getter, not a
  state change, and a unit test reaches it.

### `WidgetStore` (with `MCWidgetStore`): `store/index.js` and `store/widgets.js`

* The root store registers `devices` and `widgets/externalOauth` side by
  side. `WidgetStore` takes `Devices` and `ExternalOAuth` as `INSTANCE`s,
  with their variables renamed (`dev…`, `oa…`). Each step of the composite
  is one step of one module, with the other module's variables unchanged.
  No module commits the other's mutations.
* Both modules share `calls` and `MaxCalls`. This bounds what the user does
  on the account screen as a whole, and it keeps the product of the two
  state spaces small.
* Fairness is weak fairness on each module's `Complete`, taken separately.
  Each module's requests are answered whatever the other module does.
* `MCExternalOAuth` still instantiates `ExternalOAuth` alone, for the
  blocked-popup run.

### `Contacts` (with `MCContacts`): the contact stores and the verification form

* `state` holds the five Vuex states: `list` (`contacts_list.js`), and
  `create`, `delete`, `updatePrimary` (the three forms under
  `contacts_list/`), and `verify` (`account/verify_account_form.js`). A
  store's mutations are functions of its own state (`STARTED`,
  `COMPLETED`, `FAILED`, `LIST_CONTACTS_COMPLETED`, …).
* `owned`, `primary`, `verified` and `codeSent` are the identity API's
  contacts of the user. `Outcomes` states the API's rules; they are
  assumed, not code of this repository:
  * a value is created once (409 after);
  * a code goes to the primary contact of a type (400 without one);
  * only the right code for an outstanding one verifies it (401
    otherwise);
  * any call may be rate limited (429) or fail.
* `create` awaits `updateCurrentUser` and then
  `startVerifyPrimaryContact`. `CompleteUpdate` adopts the new primary on
  the server and chains a `startVerify` request under the same id.
  `CompleteStartVerify` commits `CREATE_CONTACT_COMPLETED` or
  `CREATE_CONTACT_FAILED`.
* `MarshalContact` is what `marshalContact` makes of the user object that
  `create` passes it: the type becomes `'email'` and the value stays
  undefined.
* The verification form's `resendPrimaryContactVerification` and
  `contactVerificationInit` set no spinner. Their failures commit
  `VERIFY_ACCOUNT_CONTACT_FAILED`, which clears `loading`.
  `createAuthorizationToken`'s failure sets only `error`.
* `ClearStates` is a view's `CLEAR_STATES` of one store, taken only while
  none of that store's calls is in flight. This is the UI contract of spec
  section 5.
* Left out: the two actions the code marks deprecated and unused, and the
  `*_SPINNER_STATE` mutations of the list forms, which no action commits.

### `AuthnAccount` (with `MCAuthnAccount`): the rest of `authn.js`

* `state` is one record holding the fields these operations read or write:
  `authnState`, `loading`, `error`, `handle`, `handleType`, `password`,
  `passwordConfirmation`, `passwordScore`, `privacyChecked`, `signUpErrors`
  and `resetToken`. Each mutation (`SET_HANDLE`, `SET_LOADING`,
  `SET_ERROR`, `SET_AUTHN_STATE`, `SET_SIGN_UP_ERRORS`, `SET_RESET_TOKEN`,
  `RESET`) is a function on it, so a handler's commits compose in order.
* `signUp` and `verifyPasswordReset` await twice:
  * `InvokeSignUp` runs the local checks (`SignUpChecks`) and either commits
    `SET_SIGN_UP_ERRORS` or awaits the verifier of `state.password`.
  * `CompleteVerifier` reads `state.handle` (or `state.resetToken`) after
    that await, as the code does, and sends the second call.
  * `CompleteSignUp` classifies 409 and a 400's rejected fields
    (`FieldErrors`).
  * `CompleteVerifyPasswordReset` commits `SET_RESET_TOKEN('')` after any
    error.
* `InvokeSingle` and `CompleteSingle` are the five actions with one await
  and no classification: `startIDP`, `verifyIDP`, `startIDPBinding`,
  `verifyIDPBinding` and `getState`.
* `verifyPasswordStepUp` and `startPasswordReset` classify 403 and 404 as
  `verifyPassword` and `start` do.
* The view actions (`TypeHandle`, `TypePassword`, `TypeConfirmation`,
  `CheckPrivacy`, `ResetFlow`) are from the spec, because the views are not
  in the repository:
  * typing a password commits `SET_PASSWORD` and then `SET_PASSWORD_SCORE`
    with the meter's score (`Score`: 3 for a strong password, 1 for a weak
    one, 0 for the empty one);
  * inputs are disabled while `loading` is on.
* `signOut` only clears the SDK's token manager, so it changes nothing
  modelled here.

### `SocialLogin`, `Mfa`, `UpdateProfileForm`, `WidgetPassword`, composed in `WidgetSettings`

* The account-settings stores of the widgets are one module each:
  `social_login.js`, `mfa.js` and `update_profile_form.js`. Their variables
  carry prefixes (`sl`, `mfa`, `up`). `WidgetSettings` takes each as an
  `INSTANCE` and interleaves their steps, since they live side by side in
  one Vuex store.
* The run checks one property, `TotpSpinnerSettles`: the second-factor
  store's `loading` eventually goes off, whatever the other stores do. It
  is stated for that store alone so that a counterexample names the store
  that fails.
* `SocialLogin`: `delete` awaits the deletion and then `dispatch('list')`.
  Its catch reports a 400 and a transport error, and commits nothing for
  any other HTTP status.
* `Mfa`: `list`, `delete` (which also sets the root alert message),
  `generateTOTPSecret`, `SET_TOTP_CODE`, `createTOTP` and `RESET`.
  * The identity API creates a TOTP factor only for a secret and the right
    code.
  * `createTOTP` commits nothing on success. For an HTTP status other than
    400 it commits `SET_ERROR(undefined)`.
* `WidgetPassword` (`store/modules/password.js`, prefix `pw`): the three
  field mutations (`SetField`, at any time, the wait included, since the
  view's source is not in the repository), and `changePassword`: the three
  checks in order (`CheckError`), `SET_LOADING` and the password read
  before the verifier's await; then `RESET` and a pending success alert, or
  `SET_ERROR`. No run checks the password store's own properties.
* `UpdateProfileForm`: `set` commits `UPDATE_PROFILE_COMPLETED`, which sets
  `loading` to true (update_profile_form.spec.js asserts this, so no
  property claims the form's spinner goes off), and the account store's `SET_PROFILE_COMPLETED`
  (`profile`).
  * An empty display name fails in the client without `err.response`.
    `UPDATE_PROFILE_FAILED` then sets `usernameError`.

## 3. Runs

| Run | Config | Expect | What it shows |
|---|---|---|---|
| `authn_contract` | `MCAuthn.cfg` | pass | Under the UI contract (one call in flight, cancel between calls), the transaction always belongs to the handle on screen. The spinner never stays on with nothing in flight. Wrong-code messages name the method the code was sent for. A 429 is never shown as a wrong credential. The store, together with the identity API, implements `AuthnTransaction` (refinement). |
| `authn_stale_response` | `MCAuthnCancel.cfg` | violation | `RESET` during `start`, then the late answer is adopted: the store holds a transaction for `h1` while the handle is empty. |
| `authn_sms_dispatch` | `MCAuthnSms.cfg` | violation | Selecting `sms_otp` never requests a code. |
| `reset_contract` | `MCResetPasswordForm.cfg` | pass | Every reset request carries a token the identity API issued for a satisfied factor. The "no such contact" and "link invalid" messages come only from their own steps. The spinner always goes off (liveness). |
| `widget_store` | `MCWidgetStore.cfg` | pass | The devices store and the OAuth popup handshake run interleaved in the root store, with failures, early rejections of `deleteAll`, retries, and every browser kind. `deleteAll` never revokes the current session. Once no call is suspended, no popup is left blank. Both spinners always stop (liveness). |
| `oauth_popup_blocked` | `MCExternalOAuthBlocked.cfg` | violation | With a popup blocker, `oauthWindow.location =` throws on `null`, the catch throws again on `close()`, and `loading` stays true forever. |
| `admin_console` | `MCAdminConsole.cfg` | pass | Sign-in across page loads, the router guard, the alert and the user screens, under every API answer. Each state value completes at most one sign-in, and only one this tab created, whatever replayed or forged redirects arrive. The current-user, delete, lock and change-password spinners always stop (liveness), with the details screen's role, profile-form and metadata stores running beside them. |
| `admin_self_delete` | `MCAdminConsoleSelf.cfg` | violation | `delete` compares the target with `currentUser.user.id`, which is -1 until `current_user.get` succeeds. Sign in, open the administrator's own details and delete: the account is deleted (8 steps). `unassignRole` takes the administrator's role the same way (10 steps). |
| `authn_signup_stale_score` | `MCAuthnAccountScore.cfg` | violation | A strong password is typed and scored, `RESET` empties the password but keeps the score, a handle is typed, and `signUp`'s strength check passes. The verifier of the empty password is derived (4 steps). |
| `settings_spinners` | `MCWidgetSettings.cfg` | violation | A TOTP secret is generated, the right code typed, and `createTOTP` succeeds: nothing clears the second-factor store's `loading`, so its spinner stays on. |
| `contacts_contract` | `MCContacts.cfg` | pass | The five contact stores run against the identity API with every answer. Each single-action form's spinner is on exactly while its call is pending, across both of `create`'s awaits. Every spinner of the five stores always stops (liveness). |
| `reset_sms_partial_failure` | `MCResetPasswordFormSms.cfg` | violation | A failed SMS dispatch after a successful handle lookup commits `AUTHENTICATE_HANDLE_FAILED` on top of `AUTHENTICATE_HANDLE_COMPLETED`. The store then reports the handle step as both done and failed (3 steps: the lookup, its answer with an SMS challenge, the failed dispatch). |

Bounds: two handles, one password, two continuation tokens, `MaxCalls = 5`.
Five calls are enough for start, password, method selection and a code, or
for a failed attempt, a `RESET` and a second start. Two tokens let a second
transaction exist beside a stale one. Every response kind is offered at every
call.

Reset bounds: one handle, one link token, two authorization tokens (a second
factor success after a first), two passwords (so that a mismatch can happen),
`MaxCalls = 4` (handle, link, a mismatched and a matching reset), 11,100
states.

OAuth bounds: two state values and three calls, in all four combinations of
`inMobile` and `hasSuccessRedirectUrl`. That is enough for a success
followed by a failure that reuses the open popup, and for store and util
calls on the same window.

Admin bounds (`MCAdminConsole`):
* two users: the administrator and one other;
* one state value, echoed up to twice (`MaxReplays = 2`, so that a
  replay happens), and a forged one;
* `MaxCalls = 2`, giving 29,948 states in about 8 seconds.

Two calls are enough for an exchange followed by a delete or a role change
(a role change's follow-up fetch reuses its call), or for a `me` racing a
delete. Page loads in between drop the calls in flight. The details
screen's eleven stores multiply the state space: a third call gives close to
a million states.

Root-store bounds (`MCWidgetStore`): the current session and two others,
two OAuth state values, and `MaxCalls = 4` shared by both modules (159,016
states, about 20 seconds). Four calls to `devices` alone are enough for a
list followed by a `deleteAll` over two targets, where one fails and one
succeeds. They also allow a retry while a delete of the first call is still
in flight, a `RESET` between calls, and a session that ends elsewhere before
its delete arrives. Three to `externalOauth` are enough for a success
followed by a failure that reuses the open popup. Splits of the four calls
interleave the two modules.

Contacts bounds (`MCContacts`): two e-mail addresses and one phone, the user
registered with the first (verified or not), `MaxCalls = 3` (106,803
states). Three calls are enough for `create` (two awaits) beside a resend, a
delete or a verification. They also reach a create of an owned value, a
verification after the primary changed, and a resend with no primary of its
type.

Account bounds (`MCAuthnAccount`): an e-mail and a phone handle, a strong and
a weak password, one authentication state, one reset token, `MaxCalls = 3`.
The violation is reached at depth 5. Settings bounds (`MCWidgetSettings`):
one IdP link, one factor id, one secret, one display name, two passwords,
the scores -1, 1 and 3, and three calls per store. That is enough for every answer to every action of
each store, interleaved with the other stores' steps.

Fairness: `WF_vars(Complete)` in `Authn`, `ResetPasswordForm`,
`ExternalOAuth`, `Devices`, `Contacts`, `AuthnAccount` and `AdminConsole`, and the completion
step of each module in `WidgetStore` and `WidgetSettings`. The identity API, or the transport's timeout,
eventually answers every request. No UI step is fair, because the user may
stop at any screen.

## 4. Plan

Most important first:

1. **Done:** `Authn`, the sign-in path, with the stale-answer and SMS-dispatch
   findings.
2. **Done:** `AuthnAccount`, the rest of `authn.js`, with the stale-score
   finding. Left: lost responses (an answer the server applied but the
   client never received), and a property on `resetToken` retries.
3. **Done:** `ResetPasswordForm`, with the SMS partial-failure finding. Left:
   a reply the server applied but the client lost, which makes a retry send a
   consumed token.
4. **Done:** `ExternalOAuth` and `AdminOAuthState`, with the blocked-popup
   finding. `AdminOAuthState` is composed into `AdminConsole`.
5. **Done:** `AuthnTransaction`, refined by `Authn` under the UI contract.
6. **Done:** `WidgetSettings` (`SocialLogin`, `Mfa`, `UpdateProfileForm`),
   with the `createTOTP` spinner finding. The stuck spinner of
   `social_login.delete` (an HTTP error other than 400) is modelled too,
   but no run checks it, since a violation run checks one property.
7. **Done:** `WidgetStore` (devices and OAuth in the root store) and
   `Contacts`.
8. **Done:** `AdminConsole`: sign-in, the router guard, the alert queue,
   the user list, details and delete, with the self-delete finding. Left:
   `CLEAR_STATES` and `RESET_STATES` of the other console stores, and
   the role screens. `unassignRole` repeats the same-account check.
9. **Done:** `AdminUserDetails` (lock, change password, roles, the
   profile form and metadata) and `AdminFactors` (the factor lists and
   unlink panes) composed into `AdminConsole`, and `WidgetPassword`
   composed into `WidgetSettings`. Left: a run slot for the profile form's
   and the password store's own properties.

All twelve run slots are now used. Further components go into the
modules of existing runs, with properties added to their cfgs.

Not modelled, and why: the SDK (`authcore-js`, including the password
verifier builder, outside the repository); views and routing tables; i18n
tables; marshalling and formatting (pure data reshaping with no state);  the
administrative CRUD screens other than users and the details screen, such as
the role and template lists, logs and the create-user form (each is one call
and one result, with no interaction); the
end-to-end Cypress scripts (tests, not code).
