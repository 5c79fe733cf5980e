-------------------------------- MODULE Authn --------------------------------
(***************************************************************************)
(* The authentication-transaction store of the widgets                    *)
(* (web/widgets/src/store/modules/authn.js) and the identity API it calls. *)
(*                                                                         *)
(* Every async action is split at its single `await`: an Invoke step runs  *)
(* the commits before the call and captures the arguments the call was     *)
(* made with (a request in `inflight`), a Complete step runs the code      *)
(* after the call with one of the responses the identity API may give.     *)
(* JavaScript runs one step at a time, so each step is atomic; responses   *)
(* may come back in any order and after a RESET.                          *)
(***************************************************************************)
EXTENDS Naturals, FiniteSets

CONSTANTS
    Handles,        \* handles a user may type (already trimmed)
    Blank,          \* a handle input made of white space only
    Passwords,      \* passwords a user may type
    TxIds,          \* continuation tokens the identity API may mint
    NoValue,        \* '', null: the empty value of a string or object field
    MaxCalls,       \* bound on the number of actions the UI invokes
    CancelInFlight  \* may the UI RESET while a call is still in flight?

ASSUME Blank \notin Handles /\ NoValue \notin Handles \cup Passwords \cup TxIds
ASSUME MaxCalls \in Nat /\ CancelInFlight \in BOOLEAN

VARIABLES
    authnState,   \* state.authnState: NoValue or [tx, status]
    loading,      \* state.loading
    error,        \* state.error, as the message key it holds
    handle,       \* state.handle
    password,     \* state.password
    selectedMFA,  \* state.selectedMFA
    inflight,     \* requests sent and not yet answered
    srvStatus,    \* identity API: status of each transaction it minted
    txHandle,     \* identity API: the handle each transaction was started for
    smsSent,      \* identity API: transactions an SMS code was requested for
    lastResp,     \* observation: the response the last Complete step handled
    calls         \* number of invocations so far (bounded by MaxCalls)

client == <<authnState, loading, error, handle, password, selectedMFA>>
server == <<srvStatus, txHandle, smsSent>>
vars   == <<client, inflight, server, lastResp, calls>>

MFAMethods == {"sms_otp", "totp", "backup_code"}
Statuses   == {"PRIMARY", "MFA_REQUIRED", "SUCCESS"}

\* The message keys state.error can hold (NoValue is `error = null`).
CodeError == [m \in MFAMethods |->
                CASE m = "sms_otp"     -> "invalid_sms_code"
                  [] m = "totp"        -> "invalid_totp_pin"
                  [] m = "backup_code" -> "invalid_backup_code"]
Errors == {NoValue, "user_is_locked", "handle_not_found",
           "incorrect_password", "unknown"} \cup {CodeError[m] : m \in MFAMethods}

\* What the identity API answers: a transaction state, an HTTP error with
\* err.response (its status), or a transport error without err.response.
Ok(st)   == [kind |-> "ok", st |-> st]
Http(c)  == [kind |-> "http", code |-> c]
NetError == [kind |-> "net"]
HttpCodes == {400, 403, 404, 429, 500}

Request == [op: {"start"}, handle: Handles \cup {NoValue}]
      \cup [op: {"verifyPassword"}, tx: TxIds, pw: Passwords \cup {NoValue}]
      \cup [op: {"verifyMFA"}, tx: TxIds, method: MFAMethods]

TypeOK ==
    /\ authnState \in {NoValue} \cup [tx: TxIds, status: Statuses]
    /\ loading \in BOOLEAN
    /\ error \in Errors
    /\ handle \in Handles \cup {NoValue}
    /\ password \in Passwords \cup {NoValue}
    /\ selectedMFA \in MFAMethods \cup {NoValue}
    /\ inflight \subseteq Request
    /\ srvStatus \in [TxIds -> {"NONE"} \cup Statuses]
    /\ txHandle \in [TxIds -> Handles \cup {NoValue}]
    /\ smsSent \subseteq TxIds
    /\ lastResp \in {NoValue, NetError} \cup [kind: {"http"}, code: HttpCodes]
                    \cup [kind: {"ok"}, st: [tx: TxIds, status: Statuses]]
    /\ calls \in 0..MaxCalls

Init ==
    /\ authnState = NoValue
    /\ loading = FALSE
    /\ error = NoValue
    /\ handle = NoValue
    /\ password = NoValue
    /\ selectedMFA = NoValue
    /\ inflight = {}
    /\ srvStatus = [t \in TxIds |-> "NONE"]
    /\ txHandle = [t \in TxIds |-> NoValue]
    /\ smsSent = {}
    /\ lastResp = NoValue
    /\ calls = 0

-----------------------------------------------------------------------------
(* Mutations.                                                              *)

\* Mutant: SET_HANDLE storing the value untrimmed.
Trim_Untrimmed(v) == v

\* SET_HANDLE: `state.handle = value.trim()`; white space trims to ''.
Trim(v) == IF v = Blank THEN NoValue ELSE v

\* SET_ERROR with an Error object (anything not a message key) shows
\* 'error.unknown'; SET_ERROR always clears loading.
SET_ERROR(key) == /\ error' = key
                  /\ loading' = FALSE

\* Mutant: SET_MFA_CODE_ERROR without `state.loading = false`.
SET_MFA_CODE_ERROR_KeepsLoading ==
    /\ UNCHANGED loading
    /\ error' = IF selectedMFA \in MFAMethods THEN CodeError[selectedMFA]
                                              ELSE "unknown"

\* Mutant: the 'sms_otp' case of the switch without its `break`.
SET_MFA_CODE_ERROR_FallThrough ==
    /\ loading' = FALSE
    /\ error' = CASE selectedMFA = "sms_otp"      -> CodeError["totp"]
                 [] selectedMFA \in MFAMethods    -> CodeError[selectedMFA]
                 [] OTHER                         -> "unknown"

\* SET_MFA_CODE_ERROR reads state.selectedMFA when it runs, not when the
\* code was sent.
SET_MFA_CODE_ERROR ==
    /\ loading' = FALSE
    /\ error' = IF selectedMFA \in MFAMethods THEN CodeError[selectedMFA]
                                              ELSE "unknown"

SET_AUTHN_STATE(st) == /\ loading' = FALSE
                       /\ authnState' = st

\* Classification of a caught error in start (and startPasswordReset).
StartErrorKey(resp) ==
    IF resp.kind = "http" /\ resp.code = 403 THEN "user_is_locked"
    ELSE IF resp.kind = "http" /\ resp.code = 404 THEN "handle_not_found"
    ELSE "unknown"

-----------------------------------------------------------------------------
(* The UI. It invokes an action only while the spinner is off (its        *)
(* buttons are disabled while `loading`), on the screen the current        *)
(* authnState selects, and a bounded number of times.                      *)

CallerMayInvoke == ~loading /\ calls < MaxCalls

\* start: SET_HANDLE (if a handle is given), SET_LOADING, then the call
\* with state.handle.  The sign-in screen starts only a fresh transaction.
InvokeStart ==
    /\ CallerMayInvoke
    /\ authnState = NoValue
    /\ \E in \in Handles \cup {Blank, NoValue}:
         LET h == IF in = NoValue THEN handle ELSE Trim(in)
         IN  /\ handle' = h
             /\ inflight' = inflight \cup {[op |-> "start", handle |-> h]}
    /\ loading' = TRUE
    /\ error' = NoValue
    /\ calls' = calls + 1
    /\ UNCHANGED <<authnState, password, selectedMFA, server, lastResp>>

\* verifyPassword: SET_PASSWORD (if given), SET_LOADING, then the call with
\* state.authnState and state.password.
InvokeVerifyPassword ==
    /\ CallerMayInvoke
    /\ authnState # NoValue /\ authnState.status = "PRIMARY"
    /\ \E in \in Passwords \cup {NoValue}:
         LET pw == IF in = NoValue THEN password ELSE in
         IN  /\ password' = pw
             /\ inflight' = inflight \cup
                  {[op |-> "verifyPassword", tx |-> authnState.tx, pw |-> pw]}
    /\ loading' = TRUE
    /\ error' = NoValue
    /\ calls' = calls + 1
    /\ UNCHANGED <<authnState, handle, selectedMFA, server, lastResp>>

\* The MFA screen commits SET_SELECTED_MFA and dispatches requestMFA.
\* requestMFA tests `this.selectedMFA`; `this` is the Vuex store, which has
\* no such field, so the test is false and no SMS code is ever requested.
SelectMFA ==
    /\ CallerMayInvoke
    /\ authnState # NoValue /\ authnState.status = "MFA_REQUIRED"
    /\ \E m \in MFAMethods: selectedMFA' = m
    /\ calls' = calls + 1
    /\ UNCHANGED <<authnState, loading, error, handle, password,
                   inflight, server, lastResp>>

\* verifyMFA: SET_LOADING, then the endpoint of state.selectedMFA; with no
\* method selected it throws before any call and SET_ERROR shows unknown.
InvokeVerifyMFA ==
    /\ CallerMayInvoke
    /\ authnState # NoValue /\ authnState.status = "MFA_REQUIRED"
    /\ IF selectedMFA \in MFAMethods
         THEN /\ inflight' = inflight \cup {[op |-> "verifyMFA",
                    tx |-> authnState.tx, method |-> selectedMFA]}
              /\ loading' = TRUE
              /\ error' = NoValue
         ELSE /\ SET_ERROR("unknown")
              /\ UNCHANGED inflight
    /\ calls' = calls + 1
    /\ UNCHANGED <<authnState, handle, password, selectedMFA, server, lastResp>>

\* Mutant: RESET that forgets `state.authnState = null`.
RESET_KeepsAuthnState ==
    /\ CancelInFlight \/ inflight = {}
    /\ loading' = FALSE
    /\ error' = NoValue
    /\ handle' = NoValue
    /\ password' = NoValue
    /\ selectedMFA' = NoValue
    /\ UNCHANGED <<authnState, inflight, server, lastResp, calls>>

\* RESET: the UI abandons the transaction.  It cannot abort a call in
\* flight; whether it may happen while one is depends on CancelInFlight.
RESET ==
    /\ CancelInFlight \/ inflight = {}
    /\ authnState' = NoValue
    /\ loading' = FALSE
    /\ error' = NoValue
    /\ handle' = NoValue
    /\ password' = NoValue
    /\ selectedMFA' = NoValue
    /\ UNCHANGED <<inflight, server, lastResp, calls>>

-----------------------------------------------------------------------------
(* The identity API: an external collaborator, modelled by its response   *)
(* contract. A transaction advances PRIMARY -> MFA_REQUIRED -> SUCCESS;    *)
(* a request for a transaction in another status is refused (400). Any    *)
(* request may fail with 429, 500 or a transport error.                    *)

Fresh == {t \in TxIds : srvStatus[t] = "NONE"}

\* The responses to r, each with the identity API's new state.
StartOutcomes(r) ==
    IF r.handle = NoValue THEN {<<Http(400), srvStatus, txHandle>>}
    ELSE {<<Ok([tx |-> t, status |-> s]),
            [srvStatus EXCEPT ![t] = s], [txHandle EXCEPT ![t] = r.handle]>> :
              t \in Fresh, s \in {"PRIMARY", "MFA_REQUIRED"}}
         \cup {<<Http(c), srvStatus, txHandle>> : c \in {403, 404}}

VerifyOutcomes(r) ==
    LET from == IF r.op = "verifyPassword" THEN "PRIMARY" ELSE "MFA_REQUIRED"
        next == IF r.op = "verifyPassword" THEN {"MFA_REQUIRED", "SUCCESS"}
                                           ELSE {"SUCCESS"}
        Adv(s) == [srvStatus EXCEPT ![r.tx] = s]
    IN IF srvStatus[r.tx] # from THEN {<<Http(400), srvStatus, txHandle>>}
       ELSE {<<Ok([tx |-> r.tx, status |-> s]), Adv(s), txHandle>> : s \in next}
            \cup {<<Ok([tx |-> r.tx, status |-> from]), srvStatus, txHandle>>,
                  <<Http(403), srvStatus, txHandle>>}

Outcomes(r) ==
    (IF r.op = "start" THEN StartOutcomes(r) ELSE VerifyOutcomes(r))
    \cup {<<resp, srvStatus, txHandle>> : resp \in {Http(429), Http(500), NetError}}

-----------------------------------------------------------------------------
(* The code after each `await`.                                           *)

\* start: SET_AUTHN_STATE, or SET_ERROR with the 403/404 classification.
CompleteStart(r, resp) ==
    /\ r.op = "start"
    /\ IF resp.kind = "ok"
         THEN SET_AUTHN_STATE(resp.st) /\ UNCHANGED error
         ELSE SET_ERROR(StartErrorKey(resp)) /\ UNCHANGED authnState
    /\ UNCHANGED selectedMFA

\* Mutant: the switch of verifyPassword without its `case 'MFA_REQUIRED':`
\* label, so that status falls to the default (an unexpected status).
CompleteVerifyPassword_NoMFACase(r, resp) ==
    /\ r.op = "verifyPassword"
    /\ \/ /\ resp.kind = "ok" /\ resp.st.status = "PRIMARY"
          /\ SET_ERROR("incorrect_password") /\ UNCHANGED authnState
       \/ /\ resp.kind = "ok" /\ resp.st.status = "SUCCESS"
          /\ SET_AUTHN_STATE(resp.st) /\ UNCHANGED error
       \/ /\ resp.kind = "ok" /\ resp.st.status = "MFA_REQUIRED"
          /\ SET_ERROR("unknown") /\ UNCHANGED authnState
       \/ /\ resp.kind # "ok"
          /\ SET_ERROR(IF resp = Http(403) THEN "incorrect_password" ELSE "unknown")
          /\ UNCHANGED authnState
    /\ UNCHANGED selectedMFA

\* verifyPassword: status PRIMARY or HTTP 403 is a wrong password; SUCCESS
\* and MFA_REQUIRED are adopted; anything else is unknown.
CompleteVerifyPassword(r, resp) ==
    /\ r.op = "verifyPassword"
    /\ \/ /\ resp.kind = "ok" /\ resp.st.status = "PRIMARY"
          /\ SET_ERROR("incorrect_password") /\ UNCHANGED authnState
       \/ /\ resp.kind = "ok" /\ resp.st.status \in {"SUCCESS", "MFA_REQUIRED"}
          /\ SET_AUTHN_STATE(resp.st) /\ UNCHANGED error
       \/ /\ resp.kind # "ok"
          /\ SET_ERROR(IF resp = Http(403) THEN "incorrect_password" ELSE "unknown")
          /\ UNCHANGED authnState
    /\ UNCHANGED selectedMFA

\* Mutant: the catch of verifyMFA treating 429 like 403.
CompleteVerifyMFA_429AsWrongCode(r, resp) ==
    /\ r.op = "verifyMFA"
    /\ \/ /\ resp.kind = "ok" /\ resp.st.status = "MFA_REQUIRED"
          /\ SET_MFA_CODE_ERROR /\ UNCHANGED authnState
       \/ /\ resp.kind = "ok" /\ resp.st.status = "SUCCESS"
          /\ SET_AUTHN_STATE(resp.st) /\ UNCHANGED error
       \/ /\ resp \in {Http(403), Http(429)}
          /\ SET_MFA_CODE_ERROR /\ UNCHANGED authnState
       \/ /\ resp.kind # "ok" /\ resp \notin {Http(403), Http(429)}
          /\ SET_ERROR("unknown") /\ UNCHANGED authnState
    /\ UNCHANGED selectedMFA

\* verifyMFA: status MFA_REQUIRED or HTTP 403 is a wrong code, reported by
\* SET_MFA_CODE_ERROR; SUCCESS is adopted; anything else is unknown.
CompleteVerifyMFA(r, resp) ==
    /\ r.op = "verifyMFA"
    /\ \/ /\ resp.kind = "ok" /\ resp.st.status = "MFA_REQUIRED"
          /\ SET_MFA_CODE_ERROR /\ UNCHANGED authnState
       \/ /\ resp.kind = "ok" /\ resp.st.status = "SUCCESS"
          /\ SET_AUTHN_STATE(resp.st) /\ UNCHANGED error
       \/ /\ resp = Http(403)
          /\ SET_MFA_CODE_ERROR /\ UNCHANGED authnState
       \/ /\ resp.kind # "ok" /\ resp # Http(403)
          /\ SET_ERROR("unknown") /\ UNCHANGED authnState
    /\ UNCHANGED selectedMFA

\* The identity API answers r and the client runs the rest of its action.
Complete ==
    \E r \in inflight:
      \E o \in Outcomes(r):
        /\ inflight' = inflight \ {r}
        /\ srvStatus' = o[2]
        /\ txHandle' = o[3]
        /\ lastResp' = o[1]
        /\ \/ CompleteStart(r, o[1])
           \/ CompleteVerifyPassword(r, o[1])
           \/ CompleteVerifyMFA(r, o[1])
        /\ UNCHANGED <<handle, password, smsSent, calls>>

Next ==
    \/ InvokeStart
    \/ InvokeVerifyPassword
    \/ SelectMFA
    \/ InvokeVerifyMFA
    \/ RESET
    \/ Complete

\* The identity API eventually answers every request; the user is free to
\* do nothing, so no UI step is fair.
Spec == Init /\ [][Next]_vars /\ WF_vars(Complete)

-----------------------------------------------------------------------------
(* Properties.                                                             *)

\* The transaction the client holds is the one the identity API started for
\* the handle the client shows: a password typed on this screen goes to this
\* user's transaction.  It can break when a response to a call made before a
\* RESET arrives after it (start/verifyPassword/verifyMFA adopt any answer).
HandleMatchesTransaction ==
    authnState # NoValue => txHandle[authnState.tx] = handle

\* The spinner is never left on with nothing in flight: every path after an
\* `await` (SET_AUTHN_STATE, SET_ERROR, SET_MFA_CODE_ERROR) clears loading.
NoSpinnerWithoutCall ==
    inflight = {} => ~loading

\* A wrong-code message names the method the rejected code was sent for:
\* SET_MFA_CODE_ERROR reads state.selectedMFA after the await, so the method
\* must not have changed while verifyMFA was in flight.
MFAErrorNamesVerifiedMethod ==
    [][\A m \in MFAMethods:
         error' = CodeError[m] /\ error # CodeError[m] =>
           \E r \in inflight \ inflight': r.op = "verifyMFA" /\ r.method = m]_vars

\* A rate-limited answer (429) is never shown as a wrong password or a wrong
\* code (spec section 7: RateLimited is not merged with AuthFailure).
RateLimitNotWrongCredential ==
    [][lastResp' = Http(429) /\ inflight' # inflight =>
         error' \notin {"incorrect_password"} \cup {CodeError[m] : m \in MFAMethods}]_vars

\* Selecting the SMS method makes the identity API send a code (spec 4.1
\* selectChallenge; requestMFA exists for it), so a user on the SMS screen
\* of a transaction has had a code requested for it.
SmsCodeRequested ==
    (authnState # NoValue /\ authnState.status = "MFA_REQUIRED"
       /\ selectedMFA = "sms_otp") => authnState.tx \in smsSent

-----------------------------------------------------------------------------
(* Refinement: Authn implements the transaction machine of spec 4.1.      *)
\* The machine's name for a status of the identity API.
Phase(status) ==
    CASE status = "PRIMARY" -> "AWAITING_PRIMARY"
      [] status = "MFA_REQUIRED" -> "AWAITING_SECOND_FACTOR"
      [] OTHER -> status

Transaction == INSTANCE AuthnTransaction
    WITH NoTx <- NoValue,
         phase <- IF authnState = NoValue THEN "IDLE"
                                          ELSE Phase(authnState.status),
         tx <- IF authnState = NoValue THEN NoValue ELSE authnState.tx,
         srv <- [t \in TxIds |-> Phase(srvStatus[t])]

\* The continuation token is the only authority for progress (spec 4.1):
\* every step of start, verifyPassword, verifyMFA and RESET, with every
\* answer of the identity API, is a step of the transaction machine, so the
\* server never moves a transaction on without the client adopting exactly
\* the status it reports, and SUCCESS is left only by a cancel.
ImplementsTransaction == Transaction!Spec

=============================================================================
