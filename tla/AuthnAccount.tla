----------------------------- MODULE AuthnAccount -----------------------------
(***************************************************************************)
(* The rest of the widgets' authentication store,                          *)
(* web/widgets/src/store/modules/authn.js: registration (signUp), the     *)
(* password reset of the sign-in widget (startPasswordReset,               *)
(* verifyPasswordReset), the IdP and binding steps, getState and the       *)
(* step-up password check, with the form inputs the views commit.          *)
(*                                                                         *)
(* As in Authn, an async action is split at each `await`.  signUp and      *)
(* verifyPasswordReset await twice: first the password verifier, derived   *)
(* locally (spec 4.4), then the identity API.  The fields no operation     *)
(* here reads (onetimeCode, selectedMFA, recoveryEmail) are left out.      *)
(***************************************************************************)
EXTENDS Integers, FiniteSets

CONSTANTS
    Emails,          \* handles isPossibleNumber rejects
    Phones,          \* handles isPossibleNumber accepts
    Blank,           \* a handle input made of white space only
    StrongPasswords, \* passwords the strength meter scores 2 or more
    WeakPasswords,   \* passwords it scores below 2
    TxIds,           \* authentication states the identity API may return
    ResetTokens,     \* reset tokens of password-reset links
    NoValue,         \* '', null, undefined: an empty field
    MaxCalls         \* bound on the actions the UI invokes

Handles   == Emails \cup Phones
Passwords == StrongPasswords \cup WeakPasswords

ASSUME NoValue \notin Handles \cup Passwords \cup TxIds \cup ResetTokens
ASSUME MaxCalls \in Nat

VARIABLES
    state,     \* the module's Vuex state, a record of the fields modelled
    inflight,  \* calls suspended at an await
    calls

vars == <<state, inflight, calls>>

\* The strength meter of the views (zxcvbn): 0 for the empty password.
Score(pw) == CASE pw \in StrongPasswords -> 3
               [] pw \in WeakPasswords   -> 1
               [] OTHER                  -> 0

\* The message keys of state.error; every Error object shows "unknown".
Errors == {NoValue, "unknown", "user_is_locked", "handle_not_found",
           "incorrect_password", "requires_better_password_strength",
           "invalid_confirm_password", "reset_link_expired"}
\* signUpErrors is an object from field to message key.
SignUpError == [field : {"privacy", "handle", "password"},
                key : {"accept_privacy_policy", "invalid_contact",
                       "requires_better_password_strength",
                       "handle_already_exists", "invalid_email",
                       "invalid_phone"}]
SingleOps == {"startIDP", "verifyIDP", "startIDPBinding", "verifyIDPBinding",
              "getState"}

Request ==
    [id : 1..MaxCalls, op : {"verifier"}, for : {"signUp", "reset"},
     pw : Passwords \cup {NoValue}]
    \cup [id : 1..MaxCalls, op : {"signUp"}, handle : Handles \cup {NoValue},
          pw : Passwords \cup {NoValue}]
    \cup [id : 1..MaxCalls, op : {"startPasswordReset"},
          handle : Handles \cup {NoValue}]
    \cup [id : 1..MaxCalls, op : {"verifyPasswordReset"},
          token : ResetTokens \cup {NoValue}, pw : Passwords \cup {NoValue}]
    \cup [id : 1..MaxCalls, op : SingleOps]
    \cup [id : 1..MaxCalls, op : {"verifyPasswordStepUp"},
          pw : Passwords \cup {NoValue}]

State ==
    [authnState : TxIds \cup {NoValue}, loading : BOOLEAN, error : Errors,
     handle : Handles \cup {NoValue}, handleType : {"phone", "email", NoValue},
     password : Passwords \cup {NoValue},
     passwordConfirmation : Passwords \cup {NoValue},
     passwordScore : {-1, 0, 1, 3}, privacyChecked : BOOLEAN,
     signUpErrors : {NoValue} \cup SUBSET SignUpError,
     resetToken : ResetTokens \cup {NoValue}]

TypeOK ==
    /\ state \in State
    /\ inflight \subseteq Request
    /\ calls \in 0..MaxCalls

Init ==
    /\ state = [authnState |-> NoValue, loading |-> FALSE, error |-> NoValue,
                handle |-> NoValue, handleType |-> NoValue, password |-> NoValue,
                passwordConfirmation |-> NoValue, passwordScore |-> -1,
                privacyChecked |-> FALSE, signUpErrors |-> NoValue,
                resetToken |-> NoValue]
    /\ inflight = {}
    /\ calls = 0

(***************************************************************************)
(* Mutations, as functions from the state to the state.                    *)
(***************************************************************************)
\* SET_HANDLE: `state.handle = value.trim()`; white space trims to ''.
SET_HANDLE(s, v) == [s EXCEPT !.handle = IF v = Blank THEN NoValue ELSE v]

SET_LOADING(s) == [s EXCEPT !.loading = TRUE, !.error = NoValue]

SET_ERROR(s, key) == [s EXCEPT !.loading = FALSE, !.error = key]

SET_AUTHN_STATE(s, st) == [s EXCEPT !.loading = FALSE, !.authnState = st]

SET_SIGN_UP_ERRORS(s, errs) ==
    [s EXCEPT !.loading = FALSE, !.signUpErrors = errs]

SET_RESET_TOKEN(s, t) == [s EXCEPT !.resetToken = t]

\* RESET clears the transaction and the sign-in inputs, but leaves
\* passwordConfirmation, passwordScore, privacyChecked and resetToken.
RESET(s) ==
    [s EXCEPT !.loading = FALSE, !.error = NoValue, !.authnState = NoValue,
              !.handle = NoValue, !.handleType = NoValue, !.password = NoValue,
              !.signUpErrors = NoValue]

\* Classification of a caught error in startPasswordReset (as in start).
StartErrorKey(resp) ==
    CASE resp = [kind |-> "http", code |-> 403] -> "user_is_locked"
      [] resp = [kind |-> "http", code |-> 404] -> "handle_not_found"
      [] OTHER -> "unknown"

(***************************************************************************)
(* The views.  They dispatch an action only while the spinner is off, and  *)
(* their inputs are disabled while it is on.  Typing a password commits    *)
(* SET_PASSWORD and then SET_PASSWORD_SCORE with the meter's score.        *)
(***************************************************************************)
CallerMayInvoke == ~state.loading /\ calls < MaxCalls

Send(r) == inflight' = inflight \cup {r}

TypeHandle ==
    /\ ~state.loading
    /\ \E v \in Handles \cup {Blank} : state' = SET_HANDLE(state, v)
    /\ UNCHANGED <<inflight, calls>>

TypePassword ==
    /\ ~state.loading
    /\ \E pw \in Passwords :
         state' = [state EXCEPT !.password = pw, !.passwordScore = Score(pw)]
    /\ UNCHANGED <<inflight, calls>>

TypeConfirmation ==
    /\ ~state.loading
    /\ \E pw \in Passwords : state' = [state EXCEPT !.passwordConfirmation = pw]
    /\ UNCHANGED <<inflight, calls>>

CheckPrivacy ==
    /\ ~state.loading
    /\ \E b \in BOOLEAN : state' = [state EXCEPT !.privacyChecked = b]
    /\ UNCHANGED <<inflight, calls>>

\* The local checks of signUp, on the state after UNSET_SIGN_UP_ERRORS.
SignUpChecks(s, privacyCheckbox) ==
    {e \in SignUpError :
       \/ e = [field |-> "privacy", key |-> "accept_privacy_policy"]
            /\ privacyCheckbox /\ ~s.privacyChecked
       \/ e = [field |-> "handle", key |-> "invalid_contact"] /\ s.handle = NoValue
       \/ e = [field |-> "password", key |-> "requires_better_password_strength"]
            /\ s.passwordScore < 2}

\* signUp: SET_LOADING, UNSET_SIGN_UP_ERRORS, the local checks, then the
\* verifier of state.password is awaited.
InvokeSignUp ==
    /\ CallerMayInvoke
    /\ calls' = calls + 1
    /\ \E privacyCheckbox \in BOOLEAN :
         LET s    == [SET_LOADING(state) EXCEPT !.signUpErrors = NoValue]
             errs == SignUpChecks(s, privacyCheckbox)
         IN \/ /\ errs # {}
               /\ state' = SET_SIGN_UP_ERRORS(s, errs)
               /\ UNCHANGED inflight
            \/ /\ errs = {}
               /\ state' = s
               /\ Send([id |-> calls + 1, op |-> "verifier", for |-> "signUp",
                        pw |-> s.password])

\* startPasswordReset: SET_HANDLE if a handle is given, SET_LOADING, then
\* the call with state.handle.
InvokeStartPasswordReset ==
    /\ CallerMayInvoke
    /\ calls' = calls + 1
    /\ \E in \in Handles \cup {NoValue} :
         LET s == SET_LOADING(IF in = NoValue THEN state ELSE SET_HANDLE(state, in))
         IN /\ state' = s
            /\ Send([id |-> calls + 1, op |-> "startPasswordReset",
                     handle |-> s.handle])

\* verifyPasswordReset: SET_LOADING, SET_RESET_TOKEN if the link gave one.
\* With a password typed, the strength and confirmation checks return
\* early; otherwise the verifier is awaited.  With no password, the call
\* goes out at once without a verifier.
InvokeVerifyPasswordReset ==
    /\ CallerMayInvoke
    /\ calls' = calls + 1
    /\ \E in \in ResetTokens \cup {NoValue} :
         LET s == IF in = NoValue THEN SET_LOADING(state)
                                  ELSE SET_RESET_TOKEN(SET_LOADING(state), in)
         IN CASE s.password # NoValue /\ s.passwordScore < 2 ->
                   state' = SET_ERROR(s, "requires_better_password_strength")
                   /\ UNCHANGED inflight
              [] s.password # NoValue /\ s.password # s.passwordConfirmation ->
                   state' = SET_ERROR(s, "invalid_confirm_password")
                   /\ UNCHANGED inflight
              [] s.password # NoValue ->
                   state' = s
                   /\ Send([id |-> calls + 1, op |-> "verifier", for |-> "reset",
                            pw |-> s.password])
              [] OTHER ->
                   state' = s
                   /\ Send([id |-> calls + 1, op |-> "verifyPasswordReset",
                            token |-> s.resetToken, pw |-> NoValue])

\* startIDP, verifyIDP, startIDPBinding, verifyIDPBinding, getState:
\* SET_LOADING and one call.
InvokeSingle ==
    /\ CallerMayInvoke
    /\ calls' = calls + 1
    /\ state' = SET_LOADING(state)
    /\ \E op \in SingleOps : Send([id |-> calls + 1, op |-> op])

\* verifyPasswordStepUp: SET_PASSWORD if given, SET_LOADING, the call with
\* state.password.
InvokeVerifyPasswordStepUp ==
    /\ CallerMayInvoke
    /\ calls' = calls + 1
    /\ \E in \in Passwords \cup {NoValue} :
         LET s == SET_LOADING(IF in = NoValue THEN state
                              ELSE [state EXCEPT !.password = in])
         IN /\ state' = s
            /\ Send([id |-> calls + 1, op |-> "verifyPasswordStepUp",
                     pw |-> s.password])

\* RESET, committed by the views when they leave a flow.
ResetFlow ==
    /\ inflight = {}
    /\ state' = RESET(state)
    /\ UNCHANGED <<inflight, calls>>

(***************************************************************************)
(* The identity API's answers (and the verifier builder's, which succeeds  *)
(* or throws).  An HTTP error carries err.response; a transport error does *)
(* not.  A 400 to signUp lists the fields it rejected.                     *)
(***************************************************************************)
Ok(t)       == [kind |-> "ok", st |-> t]
Http(c)     == [kind |-> "http", code |-> c]
Http400(fs) == [kind |-> "http", code |-> 400, fields |-> fs]
NetError    == [kind |-> "net"]

Outcomes(r) ==
    LET common == {Ok(t) : t \in TxIds} \cup {Http(500), NetError} IN
    CASE r.op = "verifier" -> {[kind |-> "ok"], NetError}
      [] r.op = "signUp" ->
           common \cup {Http(409)}
                  \cup {Http400(fs) : fs \in SUBSET {"email", "phone", "password_verifier"}
                                            \ {{}}}
      [] r.op = "startPasswordReset" -> common \cup {Http(403), Http(404)}
      [] r.op \in {"verifyPasswordReset", "verifyPasswordStepUp"} ->
           common \cup {Http(403)}
      [] OTHER -> common

\* After the verifier of signUp: SET_HANDLE_TYPE by isPossibleNumber of
\* state.handle, read now, then the call with it.  After the verifier of
\* verifyPasswordReset: the call with state.resetToken, read now.  A
\* builder error goes to the catch of the action.
CompleteVerifier(r, o) ==
    CASE o = NetError /\ r.for = "signUp" ->
           state' = SET_ERROR(state, "unknown") /\ inflight' = inflight \ {r}
      [] o = NetError ->
           state' = SET_RESET_TOKEN(SET_ERROR(state, "unknown"), NoValue)
           /\ inflight' = inflight \ {r}
      [] r.for = "signUp" ->
           state' = [state EXCEPT !.handleType = IF state.handle \in Phones
                                                  THEN "phone" ELSE "email"]
           /\ inflight' = (inflight \ {r}) \cup
                {[id |-> r.id, op |-> "signUp", handle |-> state.handle, pw |-> r.pw]}
      [] OTHER ->
           UNCHANGED state
           /\ inflight' = (inflight \ {r}) \cup
                {[id |-> r.id, op |-> "verifyPasswordReset",
                  token |-> state.resetToken, pw |-> r.pw]}

\* The signUp errors of a 400: handle is invalid_email if email was
\* rejected, invalid_phone if phone was (the later assignment wins).
FieldErrors(fs) ==
    IF "phone" \in fs THEN {[field |-> "handle", key |-> "invalid_phone"]}
    ELSE IF "email" \in fs THEN {[field |-> "handle", key |-> "invalid_email"]}
    ELSE {}

CompleteSignUp(r, o) ==
    state' = CASE o.kind = "ok" -> SET_AUTHN_STATE(state, o.st)
               [] o = Http(409) ->
                    SET_SIGN_UP_ERRORS(state,
                      {[field |-> "handle", key |-> "handle_already_exists"]})
               [] o.kind = "http" /\ o.code = 400 ->
                    SET_SIGN_UP_ERRORS(state, FieldErrors(o.fields))
               [] OTHER -> SET_ERROR(state, "unknown")

CompleteStartPasswordReset(r, o) ==
    state' = IF o.kind = "ok" THEN SET_AUTHN_STATE(state, o.st)
                              ELSE SET_ERROR(state, StartErrorKey(o))

\* verifyPasswordReset: on any error, SET_ERROR and then SET_RESET_TOKEN('').
CompleteVerifyPasswordReset(r, o) ==
    state' = IF o.kind = "ok" THEN SET_AUTHN_STATE(state, o.st)
             ELSE SET_RESET_TOKEN(SET_ERROR(state, IF o = Http(403)
                                                   THEN "reset_link_expired"
                                                   ELSE "unknown"), NoValue)

CompleteSingle(r, o) ==
    state' = IF o.kind = "ok" THEN SET_AUTHN_STATE(state, o.st)
                              ELSE SET_ERROR(state, "unknown")

CompleteVerifyPasswordStepUp(r, o) ==
    state' = IF o.kind = "ok" THEN SET_AUTHN_STATE(state, o.st)
             ELSE SET_ERROR(state, IF o = Http(403) THEN "incorrect_password"
                                                    ELSE "unknown")

Complete ==
    /\ \E r \in inflight : \E o \in Outcomes(r) :
         \/ r.op = "verifier" /\ CompleteVerifier(r, o)
         \/ /\ r.op # "verifier"
            /\ inflight' = inflight \ {r}
            /\ CASE r.op = "signUp" -> CompleteSignUp(r, o)
                 [] r.op = "startPasswordReset" -> CompleteStartPasswordReset(r, o)
                 [] r.op = "verifyPasswordReset" -> CompleteVerifyPasswordReset(r, o)
                 [] r.op = "verifyPasswordStepUp" -> CompleteVerifyPasswordStepUp(r, o)
                 [] OTHER -> CompleteSingle(r, o)
    /\ UNCHANGED calls

Next ==
    \/ TypeHandle \/ TypePassword \/ TypeConfirmation \/ CheckPrivacy
    \/ InvokeSignUp
    \/ InvokeStartPasswordReset
    \/ InvokeVerifyPasswordReset
    \/ InvokeSingle
    \/ InvokeVerifyPasswordStepUp
    \/ ResetFlow
    \/ Complete

\* The identity API, or the transport's timeout, answers every call.
Spec == Init /\ [][Next]_vars /\ WF_vars(Complete)

(***************************************************************************)
(* Properties                                                              *)
(***************************************************************************)

\* signUp sends the verifier of a password that passed its strength check
\* (`state.passwordScore < 2` rejects the rest): the password it derives
\* the verifier from is one the meter scores 2 or more.  It is about RESET,
\* which empties `password` and keeps `passwordScore`, and about signUp,
\* which, unlike changePassword in password.js, does not reject an empty
\* password.
SignUpPasswordPassedCheck ==
    \A r \in inflight : r.op = "verifier" /\ r.for = "signUp" =>
        Score(r.pw) >= 2

=============================================================================
