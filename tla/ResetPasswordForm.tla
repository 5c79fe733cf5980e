--------------------------- MODULE ResetPasswordForm ---------------------------
(***************************************************************************)
(* The password-reset sub-orchestrator, the Vuex module                    *)
(* src/web/widgets/src/store/widgets/account/reset_password_form.js.       *)
(*                                                                         *)
(* Each action is cut at its awaits.  An Invoke step runs the commits      *)
(* before the first await and records the request it sends in `inflight`;  *)
(* a disjunct of Complete runs the code after the await on one answer of   *)
(* the identity API.  _authenticateInit is dispatched without a break (it  *)
(* has no await before its commit), so it is part of the completion that   *)
(* dispatches it; its own await on startAuthenticateSMS becomes a second   *)
(* request, tagged with the action whose catch handles its failure.        *)
(***************************************************************************)
EXTENDS Naturals, Sequences, FiniteSets

CONSTANTS
    Handles,         \* handles the user may type
    ContactTokens,   \* tokens carried by reset links
    AuthTokens,      \* reset-password tokens the identity API may issue
    Passwords,       \* new passwords the user may type
    OtherChallenge,  \* a challenge method other than SMS_CODE
    NoValue,         \* JavaScript undefined
    MaxCalls,        \* bound on the actions the UI invokes
    ClearInFlight    \* may CLEAR_STATES run while a call is in flight?

ASSUME MaxCalls \in Nat /\ ClearInFlight \in BOOLEAN

VARIABLES
    state,       \* the module's Vuex state, a record of its fields
    inflight,    \* requests sent and not yet answered
    tokenState,  \* identity API: AuthTokens -> "free" | "issued" | "used"
    smsSent,     \* identity API: an SMS code was sent
    errStage,    \* history: the stage whose FAILED mutation set the error
                 \* on screen; "none" once a STARTED mutation or
                 \* CLEAR_STATES clears `error`
    calls        \* actions invoked by the UI so far

vars == <<state, inflight, tokenState, smsSent, errStage, calls>>

SMS_CODE == "SMS_CODE"
Methods == {SMS_CODE, OtherChallenge}
\* Challenge lists the identity API returns, the empty one included.
ChallengeLists == {<<>>, <<SMS_CODE>>, <<OtherChallenge>>,
                   <<OtherChallenge, SMS_CODE>>}
\* Message keys; "raw" is an Error object the mutation stores as it is.
Errors == {"no_contact", "reach_limit", "invalid_reset_password", "raw"}

\* Answers.  `many` is the /many/ test on a 429 body.
Http(c) == [kind |-> "http", code |-> c, many |-> FALSE]
TooMany == [kind |-> "http", code |-> 429, many |-> TRUE]
NetError == [kind |-> "net"]
Failures == {Http(429), TooMany, Http(500), NetError}
Challenged(c) == [kind |-> "ok", authenticated |-> FALSE, challenges |-> c]
Authorized(t) == [kind |-> "ok", authenticated |-> TRUE, token |-> t]
Done == [kind |-> "ok"]

\* A request carries the number of the UI call it belongs to, so that two
\* requests alike in every argument stay apart.
Request ==
    [id : 1..MaxCalls, op : {"startReset"}, handle : Handles]
    \cup [id : 1..MaxCalls, op : {"sms"}, stage : {"handle", "factor"}]
    \cup [id : 1..MaxCalls, op : {"withContact"}, token : ContactTokens]
    \cup [id : 1..MaxCalls, op : {"reset"},
           token : AuthTokens \cup {NoValue}, pw : Passwords]

State ==
    [challenges : ChallengeLists,
     selectedChallengeMethod : Methods \cup {NoValue},
     authorizationToken : AuthTokens \cup {NoValue},
     authenticateHandleDone : BOOLEAN,
     authenticateFactorDone : BOOLEAN,
     resetPasswordDone : BOOLEAN,
     loading : BOOLEAN,
     error : Errors \cup {NoValue}]

TypeOK ==
    /\ state \in State
    /\ inflight \subseteq Request
    /\ tokenState \in [AuthTokens -> {"free", "issued", "used"}]
    /\ smsSent \in BOOLEAN
    /\ errStage \in {"none", "handle", "factor", "reset"}
    /\ calls \in 0..MaxCalls

getDefaultState_NoChallenges ==
    [selectedChallengeMethod |-> NoValue,
     authorizationToken |-> NoValue,
     authenticateHandleDone |-> FALSE,
     authenticateFactorDone |-> FALSE,
     resetPasswordDone |-> FALSE,
     loading |-> FALSE,
     error |-> NoValue]

\* getDefaultState()
getDefaultState ==
    [challenges |-> <<>>,
     selectedChallengeMethod |-> NoValue,
     authorizationToken |-> NoValue,
     authenticateHandleDone |-> FALSE,
     authenticateFactorDone |-> FALSE,
     resetPasswordDone |-> FALSE,
     loading |-> FALSE,
     error |-> NoValue]

Init ==
    /\ state = getDefaultState
    /\ inflight = {}
    /\ tokenState = [t \in AuthTokens |-> "free"]
    /\ smsSent = FALSE
    /\ errStage = "none"
    /\ calls = 0


(***************************************************************************)
(* Mutations, as functions from the state to the state.                   *)
(***************************************************************************)
AUTHENTICATE_HANDLE_STARTED(s) ==
    [s EXCEPT !.loading = TRUE, !.authenticateHandleDone = FALSE,
              !.error = NoValue]

AUTHENTICATE_HANDLE_COMPLETED(s) ==
    [s EXCEPT !.loading = FALSE, !.authenticateHandleDone = TRUE]

\* The message key AUTHENTICATE_HANDLE_FAILED stores for an error: only an
\* HTTP answer has a `response`; a 429 without "many" keeps the Error object.
HandleFailedError(err) ==
    CASE err.kind = "http" /\ err.code = 404 -> "no_contact"
      [] err.kind = "http" /\ err.code = 429 /\ err.many -> "reach_limit"
      [] OTHER -> "raw"

AUTHENTICATE_HANDLE_FAILED(s, err) ==
    [s EXCEPT !.loading = FALSE, !.error = HandleFailedError(err)]

\* challenges[0] of an empty list is undefined.
AUTHENTICATE_FACTOR_INIT_KeepsLoading(s, c) ==
    [s EXCEPT !.challenges = c,
              !.selectedChallengeMethod = IF c = <<>> THEN NoValue ELSE Head(c)]

AUTHENTICATE_FACTOR_INIT(s, c) ==
    [s EXCEPT !.loading = FALSE, !.challenges = c,
              !.selectedChallengeMethod = IF c = <<>> THEN NoValue ELSE Head(c)]

AUTHENTICATE_FACTOR_STARTED(s) ==
    [s EXCEPT !.loading = TRUE, !.authenticateFactorDone = FALSE,
              !.error = NoValue]

AUTHENTICATE_FACTOR_COMPLETED_WrongField(s, t) ==
    [s EXCEPT !.loading = FALSE, !.authorizationToken = NoValue,
              !.authenticateFactorDone = TRUE]

AUTHENTICATE_FACTOR_COMPLETED(s, t) ==
    [s EXCEPT !.loading = FALSE, !.authorizationToken = t,
              !.authenticateFactorDone = TRUE]

FactorFailedError(err) ==
    IF err.kind = "http" /\ err.code = 404 THEN "invalid_reset_password"
                                           ELSE "raw"

AUTHENTICATE_FACTOR_FAILED_AsHandle(s, err) ==
    AUTHENTICATE_HANDLE_FAILED(s, err)

AUTHENTICATE_FACTOR_FAILED(s, err) ==
    [s EXCEPT !.loading = FALSE, !.error = FactorFailedError(err)]

RESET_PASSWORD_STARTED(s) ==
    [s EXCEPT !.loading = TRUE, !.resetPasswordDone = FALSE, !.error = NoValue]

RESET_PASSWORD_COMPLETED(s) ==
    [s EXCEPT !.loading = FALSE, !.resetPasswordDone = TRUE]

RESET_PASSWORD_FAILED(s) ==
    [s EXCEPT !.loading = FALSE, !.error = "raw"]

\* The SMS request _authenticateInit sends after committing
\* AUTHENTICATE_FACTOR_INIT, when the first challenge is SMS_CODE.
SmsRequest(s, stage, id) ==
    IF s.selectedChallengeMethod = SMS_CODE
    THEN {[id |-> id, op |-> "sms", stage |-> stage]}
    ELSE {}

(***************************************************************************)
(* Actions the UI invokes.  It invokes one only while the spinner is off,  *)
(* and at most MaxCalls of them; the handle and link forms are shown until *)
(* a factor is satisfied, the new-password form after that.                *)
(***************************************************************************)
CallerMayInvoke == ~state.loading /\ calls < MaxCalls

Send(r) ==
    /\ inflight' = inflight \cup {r}
    /\ calls' = calls + 1

InvokeAuthenticateHandle ==
    /\ CallerMayInvoke
    /\ ~state.authenticateFactorDone
    /\ \E h \in Handles :
         /\ state' = AUTHENTICATE_HANDLE_STARTED(state)
         /\ Send([id |-> calls + 1, op |-> "startReset", handle |-> h])
    /\ errStage' = "none"
    /\ UNCHANGED <<tokenState, smsSent>>

InvokeAuthenticateWithContact ==
    /\ CallerMayInvoke
    /\ ~state.authenticateFactorDone
    /\ \E ct \in ContactTokens :
         /\ state' = AUTHENTICATE_FACTOR_STARTED(state)
         /\ Send([id |-> calls + 1, op |-> "withContact", token |-> ct])
    /\ errStage' = "none"
    /\ UNCHANGED <<tokenState, smsSent>>

\* resetPassword with passwords that differ: the Error thrown after
\* RESET_PASSWORD_STARTED is caught at once, and nothing is sent.
ResetPasswordMismatch ==
    /\ CallerMayInvoke
    /\ state.authenticateFactorDone /\ ~state.resetPasswordDone
    /\ \E p, q \in Passwords : p # q
    /\ state' = RESET_PASSWORD_FAILED(RESET_PASSWORD_STARTED(state))
    /\ errStage' = "reset"
    /\ calls' = calls + 1
    /\ UNCHANGED <<inflight, tokenState, smsSent>>

\* resetPassword with equal passwords sends the stored authorizationToken.
InvokeResetPassword ==
    /\ CallerMayInvoke
    /\ state.authenticateFactorDone /\ ~state.resetPasswordDone
    /\ \E p \in Passwords :
         /\ state' = RESET_PASSWORD_STARTED(state)
         /\ Send([id |-> calls + 1, op |-> "reset",
                  token |-> state.authorizationToken, pw |-> p])
    /\ errStage' = "none"
    /\ UNCHANGED <<tokenState, smsSent>>

CLEAR_STATES ==
    /\ ClearInFlight \/ inflight = {}
    /\ state' = getDefaultState
    /\ errStage' = "none"
    /\ UNCHANGED <<inflight, tokenState, smsSent, calls>>

(***************************************************************************)
(* The identity API, modelled by its response contract (spec section 4.2). *)
(* A link is answered with a fresh single-use authorization token or with  *)
(* further challenges; a reset is accepted once per issued token.  Any     *)
(* call may be rate-limited, fail or lose its connection.                  *)
(***************************************************************************)
FreeTokens == {t \in AuthTokens : tokenState[t] = "free"}

Outcomes(r) ==
    CASE r.op = "startReset" ->
           {Challenged(c) : c \in ChallengeLists} \cup {Http(404)} \cup Failures
      [] r.op = "sms" -> {Done} \cup Failures
      [] r.op = "withContact" ->
           {Authorized(t) : t \in FreeTokens}
           \cup {Challenged(c) : c \in ChallengeLists} \cup {Http(404)}
           \cup Failures
      [] r.op = "reset" ->
           IF r.token \in AuthTokens /\ tokenState[r.token] = "issued"
           THEN {Done} \cup Failures
           ELSE {Http(403)} \cup Failures

ServerEffect(r, o) ==
    /\ tokenState' =
         CASE r.op = "withContact" /\ o.kind = "ok" /\ o.authenticated ->
                [tokenState EXCEPT ![o.token] = "issued"]
           [] r.op = "reset" /\ o = Done ->
                [tokenState EXCEPT ![r.token] = "used"]
           [] OTHER -> tokenState
    /\ smsSent' = (smsSent \/ (r.op = "sms" /\ o = Done))

(***************************************************************************)
(* The code after each await, run on the answer `o` to request `r`.        *)
(***************************************************************************)
Answered(r, s, more) ==
    /\ state' = s
    /\ inflight' = (inflight \ {r}) \cup more

\* authenticateHandle after startResetPasswordAuthentication: COMPLETED,
\* then _authenticateInit up to its own await.
CompleteAuthenticateHandle(r, o) ==
    \/ /\ o.kind = "ok"
       /\ LET s == AUTHENTICATE_FACTOR_INIT(
                     AUTHENTICATE_HANDLE_COMPLETED(state), o.challenges)
          IN Answered(r, s, SmsRequest(s, "handle", r.id))
       /\ UNCHANGED errStage
    \/ /\ o.kind # "ok"
       /\ Answered(r, AUTHENTICATE_HANDLE_FAILED(state, o), {})
       /\ errStage' = "handle"

\* The end of _authenticateInit; a failure reaches the catch of the action
\* that dispatched it.
CompleteSms(r, o) ==
    \/ /\ o = Done
       /\ Answered(r, state, {})
       /\ UNCHANGED errStage
    \/ /\ o # Done /\ r.stage = "handle"
       /\ Answered(r, AUTHENTICATE_HANDLE_FAILED(state, o), {})
       /\ errStage' = "handle"
    \/ /\ o # Done /\ r.stage = "factor"
       /\ Answered(r, AUTHENTICATE_FACTOR_FAILED(state, o), {})
       /\ errStage' = "factor"

CompleteAuthenticateWithContact(r, o) ==
    \/ /\ o.kind = "ok" /\ o.authenticated
       /\ Answered(r, AUTHENTICATE_FACTOR_COMPLETED(state, o.token), {})
       /\ UNCHANGED errStage
    \/ /\ o.kind = "ok" /\ ~o.authenticated
       /\ LET s == AUTHENTICATE_FACTOR_INIT(state, o.challenges)
          IN Answered(r, s, SmsRequest(s, "factor", r.id))
       /\ UNCHANGED errStage
    \/ /\ o.kind # "ok"
       /\ Answered(r, AUTHENTICATE_FACTOR_FAILED(state, o), {})
       /\ errStage' = "factor"

CompleteResetPassword(r, o) ==
    \/ /\ o = Done
       /\ Answered(r, RESET_PASSWORD_COMPLETED(state), {})
       /\ UNCHANGED errStage
    \/ /\ o # Done
       /\ Answered(r, RESET_PASSWORD_FAILED(state), {})
       /\ errStage' = "reset"

Complete ==
    /\ \E r \in inflight : \E o \in Outcomes(r) :
         /\ ServerEffect(r, o)
         /\ CASE r.op = "startReset" -> CompleteAuthenticateHandle(r, o)
              [] r.op = "sms" -> CompleteSms(r, o)
              [] r.op = "withContact" -> CompleteAuthenticateWithContact(r, o)
              [] r.op = "reset" -> CompleteResetPassword(r, o)
    /\ UNCHANGED calls

Next ==
    \/ InvokeAuthenticateHandle
    \/ InvokeAuthenticateWithContact
    \/ ResetPasswordMismatch
    \/ InvokeResetPassword
    \/ CLEAR_STATES
    \/ Complete

\* The identity API, or the transport's timeout, answers every request.
Spec == Init /\ [][Next]_vars /\ WF_vars(Complete)

(***************************************************************************)
(* Properties                                                              *)
(***************************************************************************)

\* resetPassword sends the authorizationToken AUTHENTICATE_FACTOR_COMPLETED
\* stored: every reset request in flight carries a token the identity API
\* issued for a satisfied factor, never undefined or a made-up one.
ResetRequestAuthorized ==
    \A r \in inflight :
       r.op = "reset" => r.token \in AuthTokens /\ tokenState[r.token] # "free"

\* The two 404 messages of spec section 4.2 are told apart: a step of the
\* catch blocks that newly shows "no such contact" answers a handle lookup
\* (or its SMS dispatch), and one that newly shows "link invalid or
\* expired" answers a reset link (or its SMS dispatch).
ErrorNamesFailedStep ==
    [][\A r \in inflight \ inflight' :
         /\ state'.error = "no_contact" /\ state.error # "no_contact" =>
              r.op = "startReset" \/ (r.op = "sms" /\ r.stage = "handle")
         /\ state'.error = "invalid_reset_password"
            /\ state.error # "invalid_reset_password" =>
              r.op = "withContact" \/ (r.op = "sms" /\ r.stage = "factor")
      ]_vars

\* Every path of every action ends with a mutation that clears `loading`:
\* the spinner, once on, eventually goes off.
SpinnerSettles == state.loading ~> ~state.loading

\* authenticateHandle reports the handle step either completed or failed:
\* AUTHENTICATE_HANDLE_FAILED never leaves authenticateHandleDone set.
HandleStepExclusive ==
    errStage = "handle" => ~state.authenticateHandleDone

=============================================================================
