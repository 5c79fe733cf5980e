---------------------------- MODULE WidgetPassword ----------------------------
(***************************************************************************)
(* The widgets' change-password store, src/web/widgets/src/store/modules/  *)
(* password.js, registered in the root store: the form's three fields, its *)
(* spinner and error, and changePassword, which checks the fields and then *)
(* awaits createPasswordVerifier and updateCurrentUserPassword.  The two   *)
(* awaits are one step here: nothing else runs between them that the       *)
(* store could see.  The password the identity API keeps is `pwAccount`.   *)
(***************************************************************************)
EXTENDS Integers

CONSTANTS
    Passwords,    \* non-empty passwords the user may type
    Scores,       \* strength scores the view may commit (-1 is "none")
    NoValue,      \* null, or the empty field ''
    MaxCalls

VARIABLES
    pwState,      \* the module's Vuex state
    pwAlert,      \* the root alert store's message, as its key
    pwAccount,    \* identity API: the user's password
    pwInflight,   \* calls suspended at their await
    pwCalls

pwVars == <<pwState, pwAlert, pwAccount, pwInflight, pwCalls>>

Field == Passwords \cup {NoValue}
PwErrors == {NoValue, "requires_better_password_strength",
             "invalid_confirm_password", "raw"}

PwTypeOK ==
    /\ pwState \in [loading : BOOLEAN, error : PwErrors, password : Field,
                    passwordConfirmation : Field, passwordScore : Scores]
    /\ pwAlert \in {NoValue, "success_change_password"}
    /\ pwAccount \in Passwords
    /\ pwInflight \subseteq [id : 1..MaxCalls, password : Passwords]
    /\ pwCalls \in 0..MaxCalls

\* state(): empty fields, no score.
PwDefaultState ==
    [loading |-> FALSE, error |-> NoValue, password |-> NoValue,
     passwordConfirmation |-> NoValue, passwordScore |-> -1]

PwInit ==
    /\ pwState = PwDefaultState /\ pwAlert = NoValue
    /\ pwAccount \in Passwords
    /\ pwInflight = {} /\ pwCalls = 0

SET_LOADING(s) == [s EXCEPT !.loading = TRUE, !.error = NoValue]
SET_ERROR(s, e) == [s EXCEPT !.loading = FALSE, !.error = e]
RESET(s) == [s EXCEPT !.loading = FALSE, !.error = NoValue, !.password = NoValue,
                      !.passwordConfirmation = NoValue, !.passwordScore = -1]

\* SET_PASSWORD, SET_PASSWORD_CONFIRMATION and SET_PASSWORD_SCORE, which the
\* ChangePassword view (routed at settings/password, its source not in the
\* repository) commits as the user types: at any time, the wait included.
SetField ==
    /\ \/ \E p \in Field : pwState' = [pwState EXCEPT !.password = p]
       \/ \E p \in Field : pwState' = [pwState EXCEPT !.passwordConfirmation = p]
       \/ \E v \in Scores : pwState' = [pwState EXCEPT !.passwordScore = v]
    /\ UNCHANGED <<pwAlert, pwAccount, pwInflight, pwCalls>>

\* The error changePassword's checks commit, in their order, or NoValue
\* when all three pass.
CheckError(s) ==
    CASE s.password = NoValue -> "requires_better_password_strength"
      [] s.passwordScore < 2 -> "requires_better_password_strength"
      [] s.password # s.passwordConfirmation -> "invalid_confirm_password"
      [] OTHER -> NoValue

\* changePassword: a failed check commits SET_ERROR and returns; otherwise
\* SET_LOADING, and state.password is read for createPasswordVerifier
\* before the await.
InvokeChangePassword ==
    /\ pwCalls < MaxCalls
    /\ IF CheckError(pwState) # NoValue
         THEN /\ pwState' = SET_ERROR(pwState, CheckError(pwState))
              /\ UNCHANGED <<pwInflight, pwCalls>>
         ELSE /\ pwState' = SET_LOADING(pwState)
              /\ pwInflight' = pwInflight \cup
                               {[id |-> pwCalls + 1, password |-> pwState.password]}
              /\ pwCalls' = pwCalls + 1
    /\ UNCHANGED <<pwAlert, pwAccount>>

\* updateCurrentUserPassword stores the verifier's password, then RESET
\* and a pending success alert; any error of the two awaits: SET_ERROR.
CompleteChangePassword ==
    /\ \E r \in pwInflight : \E ok \in BOOLEAN :
         /\ pwInflight' = pwInflight \ {r}
         /\ IF ok
              THEN /\ pwAccount' = r.password
                   /\ pwState' = RESET(pwState)
                   /\ pwAlert' = "success_change_password"
              ELSE /\ pwState' = SET_ERROR(pwState, "raw")
                   /\ UNCHANGED <<pwAccount, pwAlert>>
    /\ UNCHANGED pwCalls

PwNext == SetField \/ InvokeChangePassword \/ CompleteChangePassword

=============================================================================
