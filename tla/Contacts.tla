------------------------------- MODULE Contacts -------------------------------
(***************************************************************************)
(* The contacts stores of the widgets and the identity API's contacts of   *)
(* the signed-in user:                                                     *)
(*   - contacts_list.js (list) and its three forms,                        *)
(*     contacts_list/create_contact_form.js (create),                      *)
(*     contacts_list/delete_contact_form.js (delete) and                   *)
(*     contacts_list/update_primary_contact_form.js (updatePrimaryContact); *)
(*   - account/verify_account_form.js: contactVerificationInit,            *)
(*     createAuthorizationToken, resendPrimaryContactVerification,         *)
(*     primaryContactVerification and completePrimaryContactVerification.  *)
(* The two actions its comments mark DEPRECATED and unused                 *)
(* (contactVerificationInitFromId, resendContactVerification) are left out.*)
(* Each action is split at its awaits; `state` holds the five stores.      *)
(***************************************************************************)
EXTENDS Naturals, FiniteSets

CONSTANTS
    Emails,     \* e-mail addresses the user may type
    Phones,     \* phone numbers the user may type
    NoValue,    \* JavaScript undefined
    MaxCalls    \* bound on the actions the UI invokes

ASSUME Emails \cap Phones = {} /\ MaxCalls \in Nat

VARIABLES
    state,      \* [list, create, delete, updatePrimary, verify]: Vuex states
    inflight,   \* calls suspended at an await
    owned,      \* identity API: the user's contacts
    primary,    \* identity API: the primary contact of each type
    verified,   \* identity API: the verified contacts
    codeSent,   \* identity API: types whose primary has a code outstanding
    sentTo,     \* history: contacts a verification code was ever sent to
    reported,   \* history: contacts the create form reported created
    calls

vars == <<state, inflight, owned, primary, verified, codeSent, sentTo,
          reported, calls>>

Values == Emails \cup Phones
Types == {"email", "phone"}
TypeOf(v) == IF v \in Emails THEN "email" ELSE "phone"
Codes == {"right", "wrong"}

Request ==
    [id : 1..MaxCalls, op : {"list", "verifyInit", "token"}]
    \cup [id : 1..MaxCalls, op : {"update", "startVerify"}, value : Values]
    \cup [id : 1..MaxCalls, op : {"delete", "updatePrimary"}, contact : Values]
    \cup [id : 1..MaxCalls, op : {"resend"}, type : Types]
    \cup [id : 1..MaxCalls, op : {"verify"}, type : Types, code : Codes]

FormState == [loading : BOOLEAN, done : BOOLEAN, error : {NoValue, "raw"}]
\* marshalContact of what CREATE_CONTACT_COMPLETED receives.
Marshalled == [type : Types, value : Values \cup {NoValue}]

TypeOK ==
    /\ state \in [list : [contacts : SUBSET Values, loading : BOOLEAN,
                          done : BOOLEAN, error : {NoValue, "raw"}],
                  create : [createdContact : Marshalled \cup {NoValue},
                            loading : BOOLEAN, done : BOOLEAN,
                            error : {NoValue, "raw", "invalid_contact",
                                     "duplicate_contact", "too_frequent"}],
                  delete : FormState, updatePrimary : FormState,
                  verify : [loading : BOOLEAN, done : BOOLEAN,
                            error : {NoValue, "raw", "invalid_verification_code",
                                     "too_frequent"},
                            contact : Values \cup {NoValue},
                            spinnerLoading : BOOLEAN,
                            authorizationToken : BOOLEAN, resendDone : BOOLEAN]]
    /\ inflight \subseteq Request
    /\ owned \subseteq Values
    /\ primary \in [Types -> Values \cup {NoValue}]
    /\ verified \subseteq Values /\ codeSent \subseteq Types
    /\ sentTo \subseteq Values /\ reported \subseteq Values
    /\ calls \in 0..MaxCalls

FormDefault == [loading |-> FALSE, done |-> FALSE, error |-> NoValue]

getDefaultState ==
    [list |-> [contacts |-> {}, loading |-> FALSE, done |-> FALSE, error |-> NoValue],
     create |-> [createdContact |-> NoValue, loading |-> FALSE, done |-> FALSE,
                 error |-> NoValue],
     delete |-> FormDefault, updatePrimary |-> FormDefault,
     verify |-> [loading |-> FALSE, done |-> FALSE, error |-> NoValue,
                 contact |-> NoValue, spinnerLoading |-> FALSE,
                 authorizationToken |-> FALSE, resendDone |-> FALSE]]

\* The user has just registered with one e-mail address, verified or not.
Init ==
    /\ state = getDefaultState
    /\ inflight = {}
    /\ \E e \in Emails :
         /\ owned = {e}
         /\ primary = [t \in Types |-> IF t = "email" THEN e ELSE NoValue]
         /\ verified \in {{}, {e}}
    /\ codeSent = {}
    /\ sentTo = {}
    /\ reported = {}
    /\ calls = 0

(***************************************************************************)
(* Mutations, as functions of the store they belong to.                    *)
(***************************************************************************)
STARTED(f) == [f EXCEPT !.loading = TRUE, !.done = FALSE]
COMPLETED(f) == [f EXCEPT !.loading = FALSE, !.done = TRUE, !.error = NoValue]
FAILED(f, e) == [f EXCEPT !.loading = FALSE, !.error = e]

\* Mutant: the completed list leaves the spinner on.
LIST_CONTACTS_COMPLETED_KeepsLoading(l, cs) ==
    [l EXCEPT !.contacts = cs, !.done = TRUE, !.error = NoValue]

LIST_CONTACTS_COMPLETED(l, cs) ==
    [l EXCEPT !.contacts = cs, !.loading = FALSE, !.done = TRUE, !.error = NoValue]

\* marshalContact reads type, value and id of what it is given; create
\* gives it the user updateCurrentUser returns, which has no type or
\* value: type undefined becomes 'email', and the value stays undefined.
\* Mutant: getType's normalisation is skipped and the API's type kept.
MarshalContact_RawType(user) == [type |-> "EMAIL", value |-> NoValue]

MarshalContact(user) == [type |-> "email", value |-> NoValue]

CREATE_CONTACT_COMPLETED(f, user) ==
    [COMPLETED(f) EXCEPT !.createdContact = MarshalContact(user)]

\* CREATE_CONTACT_FAILED and VERIFY_ACCOUNT_CONTACT_FAILED: the error
\* object, replaced by a message key for the statuses they know.
CreateErrorKey(x) ==
    CASE x = "400" -> "invalid_contact"
      [] x = "409" -> "duplicate_contact"
      [] x = "429" -> "too_frequent"
      [] OTHER   -> "raw"

VerifyErrorKey(x) ==
    CASE x = "401" -> "invalid_verification_code"
      [] x = "429" -> "too_frequent"
      [] OTHER   -> "raw"

\* VERIFY_ACCOUNT_CONTACT_INIT keeps the listed contact only when there is
\* exactly one.
VERIFY_ACCOUNT_CONTACT_INIT(f, cs) ==
    IF Cardinality(cs) = 1 THEN [f EXCEPT !.contact = CHOOSE c \in cs : TRUE] ELSE f

(***************************************************************************)
(* Actions the views invoke.  Each form's inputs are disabled while its    *)
(* own spinner is on; the verify form's resend, init and token actions set *)
(* no spinner.                                                             *)
(***************************************************************************)
MayInvoke == calls < MaxCalls

Send(r) ==
    /\ inflight' = inflight \cup {r}
    /\ calls' = calls + 1

ServerVars == <<owned, primary, verified, codeSent, sentTo, reported>>

\* contacts_list.list: LIST_CONTACTS_STARTED, await listContacts.
InvokeList ==
    /\ MayInvoke /\ ~state.list.loading
    /\ state' = [state EXCEPT !.list = STARTED(@)]
    /\ Send([id |-> calls + 1, op |-> "list"])
    /\ UNCHANGED ServerVars

\* create: CREATE_CONTACT_STARTED, await updateCurrentUser with the new
\* primary address or number.
InvokeCreate ==
    /\ MayInvoke /\ ~state.create.loading
    /\ \E v \in Values : Send([id |-> calls + 1, op |-> "update", value |-> v])
    /\ state' = [state EXCEPT !.create = STARTED(@)]
    /\ UNCHANGED ServerVars

\* delete and updatePrimaryContact, offered for each listed contact.
InvokeContactForm(op) ==
    /\ MayInvoke /\ ~state[op].loading
    /\ \E c \in state.list.contacts : Send([id |-> calls + 1, op |-> op, contact |-> c])
    /\ state' = [state EXCEPT ![op] = STARTED(@)]
    /\ UNCHANGED ServerVars

\* contactVerificationInit and createAuthorizationToken: one await each.
InvokeVerifyInit ==
    /\ MayInvoke
    /\ Send([id |-> calls + 1, op |-> "verifyInit"])
    /\ UNCHANGED <<state, ServerVars>>

InvokeCreateAuthorizationToken ==
    /\ MayInvoke
    /\ Send([id |-> calls + 1, op |-> "token"])
    /\ UNCHANGED <<state, ServerVars>>

\* resendPrimaryContactVerification(type): await startVerifyPrimaryContact.
InvokeResend ==
    /\ MayInvoke
    /\ \E t \in Types : Send([id |-> calls + 1, op |-> "resend", type |-> t])
    /\ UNCHANGED <<state, ServerVars>>

\* primaryContactVerification (register flow) and
\* completePrimaryContactVerification (profile flow) commit the same
\* mutations around their one await: SPINNER_STATE(true), STARTED.
InvokeVerify ==
    /\ MayInvoke /\ ~state.verify.loading
    /\ \E t \in Types, c \in Codes :
         Send([id |-> calls + 1, op |-> "verify", type |-> t, code |-> c])
    /\ state' = [state EXCEPT !.verify = [STARTED(@) EXCEPT !.spinnerLoading = TRUE,
                                                           !.error = NoValue]]
    /\ UNCHANGED ServerVars

\* The calls each store's actions make.
OpsOf == [list |-> {"list"}, create |-> {"update", "startVerify"},
          delete |-> {"delete"}, updatePrimary |-> {"updatePrimary"},
          verify |-> {"verifyInit", "token", "resend", "verify"}]

\* CLEAR_STATES of a store, committed by its view when it leaves.
ClearStates ==
    /\ \E s \in DOMAIN OpsOf :
         /\ \A r \in inflight : r.op \notin OpsOf[s]
         /\ state' = [state EXCEPT ![s] = getDefaultState[s]]
    /\ UNCHANGED <<inflight, ServerVars, calls>>

(***************************************************************************)
(* The identity API.  Its checks are assumed: a contact is created once    *)
(* (409 after), a code goes to the primary contact of a type, and only the *)
(* right code for an outstanding one verifies it (401 otherwise).  Any    *)
(* call may be rate limited (429) or fail otherwise; "fail" stands for the *)
(* failures a catch does not tell apart.                                   *)
(***************************************************************************)
Outcomes(r) ==
    CASE r.op = "update" ->
           IF r.value \in owned THEN {"409"} ELSE {"ok", "400", "429", "fail"}
      [] r.op \in {"startVerify", "resend"} ->
           LET t == IF r.op = "resend" THEN r.type ELSE TypeOf(r.value)
           IN IF primary[t] = NoValue THEN {"400"} ELSE {"ok", "429", "fail"}
      [] r.op = "verify" ->
           IF r.code = "right" /\ r.type \in codeSent
             THEN {"ok", "429", "fail"} ELSE {"401", "429", "fail"}
      [] r.op \in {"delete", "updatePrimary"} ->
           IF r.contact \in owned THEN {"ok", "fail"} ELSE {"fail"}
      [] OTHER -> {"ok", "401", "fail"}

\* startVerifyPrimaryContact(t) succeeded: a code goes to t's primary.
CodeSent(t) ==
    /\ codeSent' = codeSent \cup {t}
    /\ sentTo' = sentTo \cup {primary[t]}
    /\ UNCHANGED <<owned, primary, verified>>

\* list: CLEAR_ACTION_STATES, then LIST_CONTACTS_COMPLETED or _FAILED.
\* CLEAR_ACTION_STATES resets fields of contacts_list that no action sets.
CompleteList(r, o) ==
    /\ r.op = "list"
    /\ inflight' = inflight \ {r}
    /\ state' = [state EXCEPT !.list = IF o = "ok" THEN LIST_CONTACTS_COMPLETED(@, owned)
                                                  ELSE FAILED(@, "raw")]
    /\ UNCHANGED ServerVars

\* Mutant: create reports completion after updateCurrentUser, before the
\* code is requested.
CompleteUpdate_CompletesEarly(r, o) ==
    /\ r.op = "update"
    /\ IF o = "ok"
         THEN /\ owned' = owned \cup {r.value}
              /\ primary' = [primary EXCEPT ![TypeOf(r.value)] = r.value]
              /\ verified' = verified \ {r.value}
              /\ codeSent' = codeSent \ {TypeOf(r.value)}
              /\ inflight' = (inflight \ {r}) \cup
                               {[id |-> r.id, op |-> "startVerify", value |-> r.value]}
              /\ state' = [state EXCEPT !.create = COMPLETED(@)]
              /\ UNCHANGED sentTo
         ELSE /\ state' = [state EXCEPT !.create = FAILED(@, CreateErrorKey(o))]
              /\ inflight' = inflight \ {r}
              /\ UNCHANGED <<owned, primary, verified, codeSent, sentTo>>
    /\ UNCHANGED reported

\* create, after updateCurrentUser: the value is now the user's unverified
\* primary contact of its type; await startVerifyPrimaryContact(type).
CompleteUpdate(r, o) ==
    /\ r.op = "update"
    /\ IF o = "ok"
         THEN /\ owned' = owned \cup {r.value}
              /\ primary' = [primary EXCEPT ![TypeOf(r.value)] = r.value]
              /\ verified' = verified \ {r.value}
              /\ codeSent' = codeSent \ {TypeOf(r.value)}
              /\ inflight' = (inflight \ {r}) \cup
                               {[id |-> r.id, op |-> "startVerify", value |-> r.value]}
              /\ UNCHANGED <<state, sentTo>>
         ELSE /\ state' = [state EXCEPT !.create = FAILED(@, CreateErrorKey(o))]
              /\ inflight' = inflight \ {r}
              /\ UNCHANGED <<owned, primary, verified, codeSent, sentTo>>
    /\ UNCHANGED reported

\* create, after startVerifyPrimaryContact: CREATE_CONTACT_COMPLETED with
\* the user updateCurrentUser returned, or CREATE_CONTACT_FAILED.
CompleteStartVerify(r, o) ==
    /\ r.op = "startVerify"
    /\ inflight' = inflight \ {r}
    /\ IF o = "ok"
         THEN /\ CodeSent(TypeOf(r.value))
              /\ state' = [state EXCEPT !.create = CREATE_CONTACT_COMPLETED(@, "user")]
              /\ reported' = reported \cup {r.value}
         ELSE /\ state' = [state EXCEPT !.create = FAILED(@, CreateErrorKey(o))]
              /\ UNCHANGED ServerVars

\* delete and updatePrimaryContact: _COMPLETED or _FAILED.
CompleteContactForm(r, o) ==
    /\ r.op \in {"delete", "updatePrimary"}
    /\ inflight' = inflight \ {r}
    /\ state' = [state EXCEPT ![r.op] = IF o = "ok" THEN COMPLETED(@) ELSE FAILED(@, "raw")]
    /\ IF o = "ok" /\ r.op = "delete"
         THEN /\ owned' = owned \ {r.contact}
              /\ primary' = [t \in Types |-> IF primary[t] = r.contact THEN NoValue
                                                                    ELSE primary[t]]
              /\ UNCHANGED <<verified, codeSent>>
       ELSE IF o = "ok"
         THEN /\ primary' = [primary EXCEPT ![TypeOf(r.contact)] = r.contact]
              /\ codeSent' = codeSent \ {TypeOf(r.contact)}
              /\ UNCHANGED <<owned, verified>>
       ELSE UNCHANGED <<owned, primary, verified, codeSent>>
    /\ UNCHANGED <<sentTo, reported>>

\* The verify form's actions after their await.  A failure of any of them
\* but createAuthorizationToken commits VERIFY_ACCOUNT_CONTACT_FAILED,
\* which also clears `loading`.
CompleteVerifyForm(r, o) ==
    /\ r.op \in {"verifyInit", "token", "resend", "verify"}
    /\ inflight' = inflight \ {r}
    /\ LET f == state.verify
           failed == FAILED(f, VerifyErrorKey(o))
       IN CASE o # "ok" /\ r.op = "token" ->
                 /\ state' = [state EXCEPT !.verify.error = "raw"]
                 /\ UNCHANGED ServerVars
            [] o # "ok" ->
                 /\ state' = [state EXCEPT !.verify = failed]
                 /\ UNCHANGED ServerVars
            [] r.op = "verifyInit" ->
                 /\ state' = [state EXCEPT !.verify = VERIFY_ACCOUNT_CONTACT_INIT(f, owned)]
                 /\ UNCHANGED ServerVars
            [] r.op = "token" ->
                 /\ state' = [state EXCEPT !.verify.authorizationToken = TRUE]
                 /\ UNCHANGED ServerVars
            [] r.op = "resend" ->
                 /\ CodeSent(r.type)
                 /\ state' = [state EXCEPT !.verify = [f EXCEPT !.resendDone = TRUE,
                                                                !.error = NoValue]]
                 /\ UNCHANGED reported
            [] OTHER ->
                 /\ verified' = verified \cup {primary[r.type]}
                 /\ codeSent' = codeSent \ {r.type}
                 /\ state' = [state EXCEPT !.verify = [f EXCEPT !.loading = FALSE,
                                                                !.done = TRUE]]
                 /\ UNCHANGED <<owned, primary, sentTo, reported>>

Complete ==
    /\ \E r \in inflight : \E o \in Outcomes(r) :
         \/ CompleteList(r, o)
         \/ CompleteUpdate(r, o)
         \/ CompleteStartVerify(r, o)
         \/ CompleteContactForm(r, o)
         \/ CompleteVerifyForm(r, o)
    /\ UNCHANGED calls

Next ==
    \/ InvokeList \/ InvokeCreate
    \/ InvokeContactForm("delete") \/ InvokeContactForm("updatePrimary")
    \/ InvokeVerifyInit \/ InvokeCreateAuthorizationToken
    \/ InvokeResend \/ InvokeVerify
    \/ ClearStates
    \/ Complete

\* The identity API, or the transport's timeout, answers every call.
Spec == Init /\ [][Next]_vars /\ WF_vars(Complete)

(***************************************************************************)
(* Properties                                                              *)
(***************************************************************************)

\* Every path of every action of the five stores, each catch included,
\* ends in a mutation that clears that store's `loading`.
ContactsSpinnersSettle ==
    \A s \in DOMAIN OpsOf : state[s].loading ~> ~state[s].loading

\* The create form's spinner is on exactly while its call is pending, across
\* both awaits: updateCurrentUser, then startVerifyPrimaryContact, whose
\* failure after a successful update is reported by the same catch.  The
\* delete and primary-contact forms likewise, each with its one call.
FormSpinnerTracksCall ==
    \A s \in {"create", "delete", "updatePrimary"} :
        state[s].loading <=> \E r \in inflight : r.op \in OpsOf[s]

=============================================================================
