--------------------------- MODULE UpdateProfileForm ---------------------------
(***************************************************************************)
(* The profile-edit form store of the widgets,                             *)
(* web/widgets/src/store/widgets/account/update_profile_form.js, and the   *)
(* account store's user (widgets/account SET_PROFILE_COMPLETED), which its *)
(* set action updates after the identity API accepts the new profile.     *)
(***************************************************************************)
EXTENDS Naturals

CONSTANTS
    Names,        \* display names the user may type
    NoValue,      \* undefined, or an empty display name
    MaxCalls      \* bound on the actions the UI invokes

VARIABLES
    upState,      \* the module's Vuex state, a record of its fields
    profile,      \* widgets/account state.user, as its display name
    upInflight,   \* calls suspended at an await
    upCalls

upVars == <<upState, profile, upInflight, upCalls>>

UpRequest == [id : 1..MaxCalls, name : Names \cup {NoValue}]

\* usernameError is not in the default state: FAILED adds it.
UpState ==
    [loading : BOOLEAN, done : BOOLEAN,
     error : {NoValue, "raw", "not_updated_username", "unknown"},
     spinnerLoading : BOOLEAN, usernameError : {NoValue, "blank"}]

UpTypeOK ==
    /\ upState \in UpState
    /\ profile \in Names \cup {NoValue}
    /\ upInflight \subseteq UpRequest
    /\ upCalls \in 0..MaxCalls

UpDefaultState ==
    [loading |-> FALSE, done |-> FALSE, error |-> NoValue,
     spinnerLoading |-> FALSE, usernameError |-> NoValue]

UpInit ==
    /\ upState = UpDefaultState
    /\ profile \in Names
    /\ upInflight = {}
    /\ upCalls = 0

UPDATE_PROFILE_STARTED(s) ==
    [s EXCEPT !.loading = TRUE, !.done = FALSE, !.error = NoValue]

UPDATE_PROFILE_COMPLETED(s) == [s EXCEPT !.loading = TRUE, !.done = TRUE]

\* FAILED: the 400 and 500 messages, the error object for any other HTTP
\* status, and usernameError 'error.blank' when there is no err.response.
UPDATE_PROFILE_FAILED(s, o) ==
    [s EXCEPT !.loading = FALSE,
              !.error = CASE o = "400" -> "not_updated_username"
                          [] o = "500" -> "unknown"
                          [] OTHER     -> "raw",
              !.usernameError = IF o = "net" THEN "blank" ELSE @]

\* The view commits UPDATE_PROFILE_SPINNER_STATE around its own work.
SetSpinnerState ==
    /\ \E b \in BOOLEAN : upState' = [upState EXCEPT !.spinnerLoading = b]
    /\ UNCHANGED <<profile, upInflight, upCalls>>

\* set: UPDATE_PROFILE_STARTED, then updateCurrentUser, dispatched while
\* the form's spinner is off.
InvokeSet ==
    /\ ~upState.loading /\ upCalls < MaxCalls
    /\ upState' = UPDATE_PROFILE_STARTED(upState)
    /\ \E n \in Names \cup {NoValue} :
         upInflight' = upInflight \cup {[id |-> upCalls + 1, name |-> n]}
    /\ upCalls' = upCalls + 1
    /\ UNCHANGED profile

\* The client throws, without err.response, for an empty display name; the
\* identity API accepts a name or answers 400, 500 or another status, or
\* the transport fails.
UpOutcomes(r) ==
    IF r.name = NoValue THEN {"net"} ELSE {"ok", "400", "500", "403", "net"}

\* After the await: COMPLETED and the account's SET_PROFILE_COMPLETED, or
\* FAILED.
CompleteSet ==
    /\ \E r \in upInflight : \E o \in UpOutcomes(r) :
         /\ upInflight' = upInflight \ {r}
         /\ IF o = "ok"
              THEN /\ upState' = UPDATE_PROFILE_COMPLETED(upState)
                   /\ profile' = r.name
              ELSE /\ upState' = UPDATE_PROFILE_FAILED(upState, o)
                   /\ UNCHANGED profile
    /\ UNCHANGED upCalls

\* CLEAR_STATES, committed by the view when it leaves the screen.
CLEAR_STATES ==
    /\ upInflight = {}
    /\ upState' = UpDefaultState
    /\ UNCHANGED <<profile, upInflight, upCalls>>

UpNext == SetSpinnerState \/ InvokeSet \/ CompleteSet \/ CLEAR_STATES


=============================================================================
