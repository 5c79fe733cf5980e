---------------------------------- MODULE Mfa ----------------------------------
(***************************************************************************)
(* The second-factor settings store of the widgets,                        *)
(* web/widgets/src/store/modules/mfa.js, the root alert message that its   *)
(* delete commits, and the identity API's second factors of the user.      *)
(* createTOTP sends the secret and code held in the state; the view       *)
(* generates the secret (generateTOTPSecret) and commits the typed code.   *)
(***************************************************************************)
EXTENDS Naturals

CONSTANTS
    Factors,      \* second-factor ids the identity API may hold
    Secrets,      \* TOTP secrets generateTOTPSecret may return
    NoValue,      \* undefined and ''
    MaxCalls      \* bound on the actions the UI invokes

VARIABLES
    mfaState,     \* the module's Vuex state, a record of its fields
    alert,        \* the root alert store's message: NoValue or its key
    mfaInflight,  \* calls suspended at an await
    factors,      \* identity API: the user's second factors
    mfaCalls

mfaVars == <<mfaState, alert, mfaInflight, factors, mfaCalls>>

\* A typed TOTP code is the right one for the secret it is checked against
\* or not.
Codes == {"right", "wrong"}

MfaRequest ==
    [id : 1..MaxCalls, op : {"list", "generate"}]
    \cup [id : 1..MaxCalls, op : {"delete"}, factor : Factors]
    \cup [id : 1..MaxCalls, op : {"create"}, secret : Secrets \cup {NoValue},
          code : Codes \cup {NoValue}]

MfaState ==
    [secondFactors : SUBSET Factors, loading : BOOLEAN,
     error : {NoValue, "raw", "invalid_verification_code"},
     totpSecret : Secrets \cup {NoValue}, totpCode : Codes \cup {NoValue}]

MfaTypeOK ==
    /\ mfaState \in MfaState
    /\ alert \in {NoValue, "success_remove_authenticator_app"}
    /\ mfaInflight \subseteq MfaRequest
    /\ factors \subseteq Factors
    /\ mfaCalls \in 0..MaxCalls

MfaDefaultState ==
    [secondFactors |-> {}, loading |-> FALSE, error |-> NoValue,
     totpSecret |-> NoValue, totpCode |-> NoValue]

MfaInit ==
    /\ mfaState = MfaDefaultState
    /\ alert = NoValue
    /\ mfaInflight = {}
    /\ factors = {}
    /\ mfaCalls = 0

SET_LOADING(s) == [s EXCEPT !.loading = TRUE]
UNSET_LOADING(s) == [s EXCEPT !.loading = FALSE]
\* The order the list is sorted in (last used first) is left out.
SET_SECOND_FACTORS_LIST(s, fs) == [s EXCEPT !.loading = FALSE, !.secondFactors = fs]
SET_ERROR(s, e) == [s EXCEPT !.loading = FALSE, !.error = e]

MfaCallerMayInvoke == ~mfaState.loading /\ mfaCalls < MaxCalls

MfaSend(r) ==
    /\ mfaInflight' = mfaInflight \cup {r}
    /\ mfaCalls' = mfaCalls + 1

MfaInvokeList ==
    /\ MfaCallerMayInvoke
    /\ mfaState' = SET_LOADING(mfaState)
    /\ MfaSend([id |-> mfaCalls + 1, op |-> "list"])
    /\ UNCHANGED <<alert, factors>>

MfaInvokeDelete ==
    /\ MfaCallerMayInvoke
    /\ \E f \in mfaState.secondFactors :
         MfaSend([id |-> mfaCalls + 1, op |-> "delete", factor |-> f])
    /\ mfaState' = SET_LOADING(mfaState)
    /\ UNCHANGED <<alert, factors>>

\* generateTOTPSecret commits nothing before its await and has no catch.
InvokeGenerateTOTPSecret ==
    /\ MfaCallerMayInvoke
    /\ MfaSend([id |-> mfaCalls + 1, op |-> "generate"])
    /\ UNCHANGED <<mfaState, alert, factors>>

\* The TOTP form commits SET_TOTP_CODE.
TypeTotpCode ==
    /\ ~mfaState.loading
    /\ \E c \in Codes : mfaState' = [mfaState EXCEPT !.totpCode = c]
    /\ UNCHANGED <<alert, mfaInflight, factors, mfaCalls>>

InvokeCreateTOTP ==
    /\ MfaCallerMayInvoke
    /\ mfaState' = SET_LOADING(mfaState)
    /\ MfaSend([id |-> mfaCalls + 1, op |-> "create",
                secret |-> mfaState.totpSecret, code |-> mfaState.totpCode])
    /\ UNCHANGED <<alert, factors>>

\* RESET, committed by the views when they leave the screen.
MfaReset ==
    /\ mfaInflight = {}
    /\ mfaState' = MfaDefaultState
    /\ UNCHANGED <<alert, mfaInflight, factors, mfaCalls>>

\* The identity API: a TOTP factor is created only for a secret and the
\* right code for it (else 400); any call may fail with another HTTP status
\* or in transport.  The local secret generator succeeds or throws.
MfaOutcomes(r) ==
    CASE r.op = "generate" -> {"ok", "net"}
      [] r.op = "create" /\ (r.secret = NoValue \/ r.code # "right") ->
           {"400", "500", "net"}
      [] OTHER -> {"ok", "500", "net"}

\* The rest of each action after its await.  createTOTP commits nothing on
\* success; its catch commits SET_ERROR with the 400 message, with the
\* error object when there is no err.response, and with undefined for any
\* other HTTP status.  A rejected generateTOTPSecret escapes uncaught.
MfaComplete ==
    /\ \E r \in mfaInflight : \E o \in MfaOutcomes(r) :
         /\ mfaInflight' = mfaInflight \ {r}
         /\ CASE r.op = "list" ->
                   /\ mfaState' = IF o = "ok" THEN SET_SECOND_FACTORS_LIST(mfaState, factors)
                                              ELSE SET_ERROR(mfaState, "raw")
                   /\ UNCHANGED <<alert, factors>>
              [] r.op = "delete" ->
                   IF o = "ok"
                     THEN /\ mfaState' = UNSET_LOADING(mfaState)
                          /\ alert' = "success_remove_authenticator_app"
                          /\ factors' = factors \ {r.factor}
                     ELSE /\ mfaState' = SET_ERROR(mfaState, "raw")
                          /\ UNCHANGED <<alert, factors>>
              [] r.op = "generate" ->
                   /\ \E sec \in Secrets :
                        mfaState' = IF o = "ok" THEN [mfaState EXCEPT !.totpSecret = sec]
                                                ELSE mfaState
                   /\ UNCHANGED <<alert, factors>>
              [] r.op = "create" ->
                   /\ \/ o = "ok" /\ mfaState' = mfaState
                         /\ \E f \in Factors \ factors : factors' = factors \cup {f}
                      \/ o = "400" /\ mfaState' = SET_ERROR(mfaState, "invalid_verification_code")
                         /\ UNCHANGED factors
                      \/ o = "500" /\ mfaState' = SET_ERROR(mfaState, NoValue)
                         /\ UNCHANGED factors
                      \/ o = "net" /\ mfaState' = SET_ERROR(mfaState, "raw")
                         /\ UNCHANGED factors
                   /\ UNCHANGED alert
    /\ UNCHANGED mfaCalls

MfaNext ==
    \/ MfaInvokeList \/ MfaInvokeDelete \/ InvokeGenerateTOTPSecret
    \/ TypeTotpCode \/ InvokeCreateTOTP \/ MfaReset \/ MfaComplete

\* Every path of list, delete and createTOTP ends in a mutation that
\* clears `loading`.
MfaSpinnerSettles == mfaState.loading ~> ~mfaState.loading

=============================================================================
