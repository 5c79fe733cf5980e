----------------------------- MODULE AdminFactors -----------------------------
(***************************************************************************)
(* The second-factor and IdP panes of the management console's user        *)
(* details screen: user_details/second_factors_list.js and                 *)
(* user_details/oauth_factors_list.js (fetchList),                         *)
(* modal_pane/unlink_second_factor.js and                                  *)
(* modal_pane/unlink_oauth_factor.js (unlink).  Each user holds at most    *)
(* one second factor and one IdP link: `mfaLinked` and `idpLinked` are the *)
(* users the identity API holds them for, and a list's rows are reduced    *)
(* to whether it shows one.  The module shares the details store, the      *)
(* identity API's users and the calls in flight with AdminConsole, which   *)
(* instances it.  oauth_factors_list's own delete(id) is left out: it     *)
(* omits deleteUserIDP's service argument, and under the UI contract it is *)
(* never offered, for fetchList never clears the list's loading.          *)
(***************************************************************************)
EXTENDS Naturals

CONSTANTS Users, NoValue, MaxCalls

VARIABLES
    userDetails, live, token, route, inflight, calls,
    secondFactorsList,   \* user_details/second_factors_list.js state
    oauthFactorsList,    \* user_details/oauth_factors_list.js state
    unlinkSecondFactor,  \* modal_pane/unlink_second_factor.js state
    unlinkOauthFactor,   \* modal_pane/unlink_oauth_factor.js state
    mfaLinked, idpLinked \* identity API: the users holding a factor, a link

factorVars == <<secondFactorsList, oauthFactorsList, unlinkSecondFactor,
                unlinkOauthFactor, mfaLinked, idpLinked>>

FactorOps == {"listUserMFA", "listUserIDP", "deleteMFA", "deleteUserIDP"}

List == [loading : BOOLEAN, error : {NoValue, "raw"}, shown : BOOLEAN]
Pane == [loading : BOOLEAN, error : {NoValue, "raw"}]

FactorsTypeOK ==
    /\ secondFactorsList \in List /\ oauthFactorsList \in List
    /\ unlinkSecondFactor \in Pane /\ unlinkOauthFactor \in Pane
    /\ mfaLinked \subseteq Users /\ idpLinked \subseteq Users

\* getDefaultState of the lists and the panes (their `done` is never set).
DefaultList == [loading |-> FALSE, error |-> NoValue, shown |-> FALSE]
DefaultPane == [loading |-> FALSE, error |-> NoValue]

\* Every user starts with a second factor and an IdP link.
FactorsInit ==
    /\ secondFactorsList = DefaultList /\ oauthFactorsList = DefaultList
    /\ unlinkSecondFactor = DefaultPane /\ unlinkOauthFactor = DefaultPane
    /\ mfaLinked = Users /\ idpLinked = Users

FactorsPageLoad ==
    /\ secondFactorsList' = DefaultList /\ oauthFactorsList' = DefaultList
    /\ unlinkSecondFactor' = DefaultPane /\ unlinkOauthFactor' = DefaultPane
    /\ UNCHANGED <<mfaLinked, idpLinked>>

\* The four stores' SET_LOADING; their SET_ERROR leaves loading on.
SET_LOADING(f) == [f EXCEPT !.loading = TRUE]
SET_ERROR(f) == [f EXCEPT !.error = "raw"]

Send(op, u) ==
    /\ calls < MaxCalls
    /\ inflight' = inflight \cup {[id |-> calls + 1, op |-> op, user |-> u]}
    /\ calls' = calls + 1

\* An action of a store with state `f`, on the details screen while its
\* spinner is off: SET_LOADING, then the call for the user shown.
Start(f, op) ==
    /\ route = "details" /\ ~f.loading
    /\ Send(op, userDetails.user)
    /\ UNCHANGED userDetails

\* fetchList(id) of the two lists.
InvokeFetchSecondFactors ==
    /\ Start(secondFactorsList, "listUserMFA")
    /\ secondFactorsList' = SET_LOADING(secondFactorsList)
    /\ UNCHANGED <<oauthFactorsList, unlinkSecondFactor, unlinkOauthFactor, mfaLinked, idpLinked>>

InvokeFetchOAuthFactors ==
    /\ Start(oauthFactorsList, "listUserIDP")
    /\ oauthFactorsList' = SET_LOADING(oauthFactorsList)
    /\ UNCHANGED <<secondFactorsList, unlinkSecondFactor, unlinkOauthFactor, mfaLinked, idpLinked>>

\* The panes are opened from a row of a list.
\* unlink_second_factor.unlink(id) with the id of the factor the list
\* shows; unlink_oauth_factor.unlink(service) reads the user id from
\* management.userDetails.user after SET_LOADING.
InvokeUnlinkSecondFactor ==
    /\ secondFactorsList.shown
    /\ Start(unlinkSecondFactor, "deleteMFA")
    /\ unlinkSecondFactor' = SET_LOADING(unlinkSecondFactor)
    /\ UNCHANGED <<secondFactorsList, oauthFactorsList, unlinkOauthFactor, mfaLinked, idpLinked>>

InvokeUnlinkOAuthFactor ==
    /\ oauthFactorsList.shown
    /\ Start(unlinkOauthFactor, "deleteUserIDP")
    /\ unlinkOauthFactor' = SET_LOADING(unlinkOauthFactor)
    /\ UNCHANGED <<secondFactorsList, oauthFactorsList, unlinkSecondFactor, mfaLinked, idpLinked>>

\* The views commit RESET_STATES when they open.
ResetFactors ==
    /\ route = "details"
    /\ \/ secondFactorsList' = DefaultList /\ UNCHANGED <<oauthFactorsList, unlinkSecondFactor, unlinkOauthFactor>>
       \/ oauthFactorsList' = DefaultList /\ UNCHANGED <<secondFactorsList, unlinkSecondFactor, unlinkOauthFactor>>
       \/ unlinkSecondFactor' = DefaultPane /\ UNCHANGED <<secondFactorsList, oauthFactorsList, unlinkOauthFactor>>
       \/ unlinkOauthFactor' = DefaultPane /\ UNCHANGED <<secondFactorsList, oauthFactorsList, unlinkSecondFactor>>
    /\ UNCHANGED <<mfaLinked, idpLinked, userDetails, inflight, calls>>

(***************************************************************************)
(* The identity API.  Without a token, for no user or a deleted one, or    *)
(* for a factor or link the user no longer holds, a call fails.           *)
(***************************************************************************)
FactorOutcomes(r) ==
    CASE ~token \/ r.user \notin live -> {"fail"}
      [] r.op = "deleteMFA" /\ r.user \notin mfaLinked -> {"fail"}
      [] r.op = "deleteUserIDP" /\ r.user \notin idpLinked -> {"fail"}
      [] OTHER -> {"ok", "fail"}

\* fetchList: SET_USER_*_FACTORS, with no UNSET_LOADING, or SET_ERROR.
ListAnswer(f, r, o, linked) ==
    IF o = "ok" THEN [f EXCEPT !.shown = r.user \in linked] ELSE SET_ERROR(f)

\* unlink: UNSET_LOADING, or SET_ERROR.
PaneAnswer(f, o) == IF o = "ok" THEN [f EXCEPT !.loading = FALSE] ELSE SET_ERROR(f)

CompleteFactors ==
    \E r \in inflight : r.op \in FactorOps /\ \E o \in FactorOutcomes(r) :
      /\ inflight' = inflight \ {r}
      /\ secondFactorsList' = IF r.op = "listUserMFA"
                                THEN ListAnswer(secondFactorsList, r, o, mfaLinked)
                                ELSE secondFactorsList
      /\ oauthFactorsList' = IF r.op = "listUserIDP"
                               THEN ListAnswer(oauthFactorsList, r, o, idpLinked)
                               ELSE oauthFactorsList
      /\ unlinkSecondFactor' = IF r.op = "deleteMFA"
                                 THEN PaneAnswer(unlinkSecondFactor, o)
                                 ELSE unlinkSecondFactor
      /\ unlinkOauthFactor' = IF r.op = "deleteUserIDP"
                                THEN PaneAnswer(unlinkOauthFactor, o)
                                ELSE unlinkOauthFactor
      /\ mfaLinked' = IF r.op = "deleteMFA" /\ o = "ok" THEN mfaLinked \ {r.user}
                                                       ELSE mfaLinked
      /\ idpLinked' = IF r.op = "deleteUserIDP" /\ o = "ok" THEN idpLinked \ {r.user}
                                                           ELSE idpLinked
      /\ UNCHANGED <<userDetails, calls>>

FactorsNext ==
    \/ InvokeFetchSecondFactors \/ InvokeFetchOAuthFactors
    \/ InvokeUnlinkSecondFactor
    \/ InvokeUnlinkOAuthFactor \/ ResetFactors

=============================================================================
