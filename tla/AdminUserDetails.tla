--------------------------- MODULE AdminUserDetails ---------------------------
(***************************************************************************)
(* The stores of the management console's user details screen that act on *)
(* the user it shows: modal_pane/lock_user.js (lock, unlock),             *)
(* modal_pane/change_password.js (changePassword) and user_details/role.js *)
(* (fetchRoleAssignmentsList, assignRole, unassignRole).  Every one of     *)
(* them takes its target from management.userDetails.user, which          *)
(* user_details.get (AdminConsole) loads, and unassignRole compares it     *)
(* with currentUser.user.id.  The module shares those stores, the alert,   *)
(* the identity API's users and the calls in flight with AdminConsole,     *)
(* which instances it; its actions are cut at their awaits like the        *)
(* console's.  One role id is modelled: `admins` holds the users it is     *)
(* assigned to.  lock and unlock differ only in the is_locked flag they    *)
(* send, which no property tells apart.                                    *)
(***************************************************************************)
EXTENDS Naturals

CONSTANTS Users, Self, NoId, NoValue, MaxCalls

VARIABLES
    userDetails, currentUser, alert, live, token, route, inflight, calls,
    lockUser,        \* modal_pane/lock_user.js state
    changePassword,  \* modal_pane/change_password.js state
    role,            \* user_details/role.js state; `assigned` is roleAssignments
    admins,          \* identity API: the users the role is assigned to
    updateUserForm,  \* user_details/update_user_form.js state
    metadata         \* user_details/metadata.js state

\* updateUser serves lock_user, update_user_form and metadata; each caller's
\* call is named after it so that its own continuation completes it.
DetailOps == {"updateUser", "updateUserPassword", "getUserRoles",
              "assignUserRole", "unassignUserRole",
              "updateUserProfile", "updateUserMetadata"}
DetailMessages == {"role_exists", "role_same_account", "password_changed",
                   "profile_updated", "metadata_updated", "invalid_metadata"}
Err == {NoValue, "raw", "exists"}
Modal == [loading : BOOLEAN, done : BOOLEAN, error : Err]

TypeOK ==
    /\ lockUser \in Modal /\ changePassword \in Modal
    /\ role \in [loading : BOOLEAN, error : Err, assigned : BOOLEAN]
    /\ admins \subseteq Users
    /\ updateUserForm \in [loading : BOOLEAN, done : BOOLEAN,
                           error : {NoValue, [contact |-> FALSE, username |-> TRUE]}]
    /\ metadata \in [loading : BOOLEAN, listDone : BOOLEAN, updateDone : BOOLEAN]

\* getDefaultState of the modal panes and of role.js.
DefaultModal == [loading |-> FALSE, done |-> FALSE, error |-> NoValue]
DefaultRole == [loading |-> FALSE, error |-> NoValue, assigned |-> FALSE]
DefaultForm == DefaultModal
DefaultMetadata == [loading |-> FALSE, listDone |-> FALSE, updateDone |-> FALSE]

\* The administrator holds the role; the other users do not.
Init ==
    /\ lockUser = DefaultModal /\ changePassword = DefaultModal
    /\ role = DefaultRole /\ admins = {Self}
    /\ updateUserForm = DefaultForm /\ metadata = DefaultMetadata

\* A page load starts every store over (the API keeps its assignments).
PageLoad ==
    /\ lockUser' = DefaultModal /\ changePassword' = DefaultModal
    /\ role' = DefaultRole /\ UNCHANGED admins
    /\ updateUserForm' = DefaultForm /\ metadata' = DefaultMetadata

(***************************************************************************)
(* Mutations.  The modal panes' SET_ERROR clears loading; role.js's does   *)
(* not, and nothing but SET_ROLE_ASSIGNMENTS and RESET_STATES does.        *)
(***************************************************************************)
SET_LOADING(f) == [f EXCEPT !.loading = TRUE]
SET_DONE(f) == [f EXCEPT !.loading = FALSE, !.done = TRUE]
SET_ERROR(f) == [f EXCEPT !.loading = FALSE, !.error = "raw"]
RoleSET_ERROR(f, e) == [f EXCEPT !.error = e]
SET_MESSAGE(m, p) == [message |-> m, pending |-> p]

formVars == <<updateUserForm, metadata>>

MayInvoke == calls < MaxCalls

Send(op, u) ==
    /\ inflight' = inflight \cup {[id |-> calls + 1, op |-> op, user |-> u]}
    /\ calls' = calls + 1

\* `userDetails.user` is {} until user_details.get succeeds: its id is
\* undefined, and the call goes out for no user.
Target == userDetails.user

(***************************************************************************)
(* The actions, offered on the details screen while their spinner is off  *)
(* (the UI contract of spec section 5).                                    *)
(***************************************************************************)

\* lock / unlock: SET_LOADING, read the id, await updateUser.
InvokeLock ==
    /\ MayInvoke /\ route = "details" /\ ~lockUser.loading
    /\ lockUser' = SET_LOADING(lockUser)
    /\ Send("updateUser", Target)
    /\ UNCHANGED <<changePassword, role, admins, userDetails, alert, formVars>>

\* changePassword(payload): read the id, SET_LOADING; an empty password or
\* one that differs from its confirmation throws into the catch;
\* otherwise await createPasswordVerifier and updateUserPassword.
InvokeChangePassword ==
    /\ MayInvoke /\ route = "details" /\ ~changePassword.loading
    /\ \E input \in {"empty", "mismatch", "valid"} :
         IF input = "valid"
           THEN /\ changePassword' = SET_LOADING(changePassword)
                /\ Send("updateUserPassword", Target)
           ELSE /\ changePassword' = SET_ERROR(SET_LOADING(changePassword))
                /\ UNCHANGED <<inflight, calls>>
    /\ UNCHANGED <<lockUser, role, admins, userDetails, alert, formVars>>

\* fetchRoleAssignmentsList(userId), dispatched by the view with the id of
\* the route: SET_LOADING, await getUserRoles.
InvokeFetchRoles ==
    /\ MayInvoke /\ route = "details" /\ ~role.loading
    /\ role' = SET_LOADING(role)
    /\ \E u \in Users : Send("getUserRoles", u)
    /\ UNCHANGED <<lockUser, changePassword, admins, userDetails, alert, formVars>>

\* assignRole: UNSET_ERROR, SET_LOADING, await assignUserRole.
InvokeAssignRole ==
    /\ MayInvoke /\ route = "details" /\ ~role.loading
    /\ role' = [role EXCEPT !.error = NoValue, !.loading = TRUE]
    /\ Send("assignUserRole", Target)
    /\ UNCHANGED <<lockUser, changePassword, admins, userDetails, alert, formVars>>

\* unassignRole: UNSET_ERROR, SET_LOADING, then the same-account check
\* against currentUser.user.id, which throws after a danger alert;
\* otherwise await unassignUserRole.
InvokeUnassignRole ==
    /\ MayInvoke /\ route = "details" /\ ~role.loading
    /\ LET started == [role EXCEPT !.error = NoValue, !.loading = TRUE] IN
         IF currentUser.id = Target
           THEN /\ alert' = SET_MESSAGE("role_same_account", FALSE)
                /\ role' = RoleSET_ERROR(started, "raw")
                /\ UNCHANGED <<inflight, calls>>
           ELSE /\ role' = started
                /\ Send("unassignUserRole", Target)
                /\ UNCHANGED alert
    /\ UNCHANGED <<lockUser, changePassword, admins, userDetails, formVars>>

\* The modal panes commit RESET_STATES when they open; the details view
\* resets role.js when it leaves.
ResetLockUser ==
    /\ route = "details" /\ ~lockUser.loading
    /\ lockUser' = DefaultModal
    /\ UNCHANGED <<changePassword, role, admins, userDetails, alert, inflight, calls, formVars>>

ResetChangePassword ==
    /\ route = "details" /\ ~changePassword.loading
    /\ changePassword' = DefaultModal
    /\ UNCHANGED <<lockUser, role, admins, userDetails, alert, inflight, calls, formVars>>

ResetRole ==
    /\ route = "details"
    /\ role' = DefaultRole
    /\ UNCHANGED <<lockUser, changePassword, admins, userDetails, alert, inflight, calls, formVars>>

\* update(user): SET_LOADING, await updateUser for the user the form was
\* filled from (the view copies userDetails.user into it).
InvokeUpdateProfile ==
    /\ MayInvoke /\ route = "details" /\ ~updateUserForm.loading
    /\ updateUserForm' = SET_LOADING(updateUserForm)
    /\ Send("updateUserProfile", Target)
    /\ UNCHANGED <<lockUser, changePassword, role, admins, userDetails, alert, metadata>>

\* list(user) awaits nothing: SET_LOADING, SET_METADATA, UNSET_LOADING and
\* SET_LIST_DONE happen in one step (the user's metadata is not modelled).
ListMetadata ==
    /\ route = "details"
    /\ metadata' = [metadata EXCEPT !.loading = FALSE, !.listDone = TRUE,
                                     !.updateDone = FALSE]
    /\ UNCHANGED <<lockUser, changePassword, role, admins, userDetails, alert,
                   inflight, calls, updateUserForm>>

\* updateUserMetadata / updateAppMetadata (alike but for the field sent and
\* the wording): SET_LOADING, then JSON.parse of the text typed; a syntax
\* error jumps to the catch, which only raises a danger alert, before
\* updateUser is awaited.
InvokeUpdateMetadata ==
    /\ MayInvoke /\ route = "details" /\ ~metadata.loading
    /\ \E validJson \in BOOLEAN :
         /\ metadata' = [metadata EXCEPT !.loading = TRUE, !.updateDone = FALSE]
         /\ IF validJson
              THEN Send("updateUserMetadata", Target) /\ UNCHANGED alert
              ELSE /\ alert' = SET_MESSAGE("invalid_metadata", FALSE)
                   /\ UNCHANGED <<inflight, calls>>
    /\ UNCHANGED <<lockUser, changePassword, role, admins, userDetails, updateUserForm>>

\* The profile form and the metadata tab commit RESET_STATES when they open.
ResetUpdateForm ==
    /\ route = "details"
    /\ updateUserForm' = DefaultForm
    /\ UNCHANGED <<lockUser, changePassword, role, admins, userDetails, alert,
                   inflight, calls, metadata>>

ResetMetadata ==
    /\ route = "details"
    /\ metadata' = DefaultMetadata
    /\ UNCHANGED <<lockUser, changePassword, role, admins, userDetails, alert,
                   inflight, calls, updateUserForm>>

(***************************************************************************)
(* The identity API.  Without a token, or for no user or a deleted one,    *)
(* a call fails; assigning a role the user holds answers 409.  "fail"     *)
(* stands for every other error, with or without a response: these        *)
(* catches treat them alike.                                               *)
(***************************************************************************)
Outcomes(r) ==
    CASE ~token \/ r.user \notin live -> {"fail"}
      [] r.op = "assignUserRole" /\ r.user \in admins -> {"409", "fail"}
      [] r.op = "updateUserProfile" -> {"ok", "contact", "username", "fail"}
      [] OTHER -> {"ok", "fail"}

\* lock / unlock: SET_DONE and userDetails' SET_USER(updatedUser), or
\* SET_ERROR.
CompleteLock(r, o) ==
    /\ r.op = "updateUser" /\ inflight' = inflight \ {r}
    /\ IF o = "ok"
         THEN /\ lockUser' = SET_DONE(lockUser)
              /\ userDetails' = [userDetails EXCEPT !.user = r.user, !.loading = FALSE]
         ELSE /\ lockUser' = SET_ERROR(lockUser) /\ UNCHANGED userDetails
    /\ UNCHANGED <<changePassword, role, admins, alert, formVars>>

\* changePassword: SET_DONE and a success alert, or SET_ERROR.
CompleteChangePassword(r, o) ==
    /\ r.op = "updateUserPassword" /\ inflight' = inflight \ {r}
    /\ IF o = "ok"
         THEN /\ changePassword' = SET_DONE(changePassword)
              /\ alert' = SET_MESSAGE("password_changed", FALSE)
         ELSE /\ changePassword' = SET_ERROR(changePassword) /\ UNCHANGED alert
    /\ UNCHANGED <<lockUser, role, admins, userDetails, formVars>>

\* fetchRoleAssignmentsList: SET_ROLE_ASSIGNMENTS, or SET_ERROR.
CompleteFetchRoles(r, o) ==
    /\ r.op = "getUserRoles" /\ inflight' = inflight \ {r}
    /\ role' = IF o = "ok"
                 THEN [role EXCEPT !.loading = FALSE, !.assigned = r.user \in admins]
                 ELSE RoleSET_ERROR(role, "raw")
    /\ UNCHANGED <<lockUser, changePassword, admins, userDetails, alert, formVars>>

\* assignRole / unassignRole: on success the API changes the assignment and
\* the action awaits fetchRoleAssignmentsList(userId), whose SET_LOADING
\* and getUserRoles go out at once.  assignRole's catch turns a 409 into
\* a danger alert and its own message.
CompleteAssignment(r, o) ==
    /\ r.op \in {"assignUserRole", "unassignUserRole"}
    /\ IF o = "ok"
         THEN /\ admins' = IF r.op = "assignUserRole" THEN admins \cup {r.user}
                                                     ELSE admins \ {r.user}
              /\ inflight' = (inflight \ {r}) \cup {[r EXCEPT !.op = "getUserRoles"]}
              /\ role' = SET_LOADING(role)
              /\ UNCHANGED alert
         ELSE /\ inflight' = inflight \ {r} /\ UNCHANGED admins
              /\ IF o = "409"
                   THEN /\ alert' = SET_MESSAGE("role_exists", FALSE)
                        /\ role' = RoleSET_ERROR(role, "exists")
                   ELSE /\ role' = RoleSET_ERROR(role, "raw")
                        /\ UNCHANGED alert
    /\ UNCHANGED <<lockUser, changePassword, userDetails, formVars>>

(***************************************************************************)
(* update's catch.  A 400 or 409 carries field_violations, from which it   *)
(* builds {contact, username}: `contact` for an email or phone violation,  *)
(* `username` for a username one ("contact" and "username" below stand for *)
(* a response with only the one or with the other).  Any other error keeps *)
(* the raw err.  It commits SET_ERROR only when error.email, error.phone   *)
(* or error.username is set: fields the object it built never has but     *)
(* the last, so a contact violation, like any other error, commits         *)
(* nothing and leaves loading on.                                          *)
(***************************************************************************)
UpdateCatchError(o) ==
    CASE o = "contact"  -> [contact |-> TRUE, username |-> FALSE]
      [] o = "username" -> [contact |-> FALSE, username |-> TRUE]
      [] OTHER          -> [response |-> o]

CommitsError(e) == \E f \in {"email", "phone", "username"} \cap DOMAIN e : e[f]

\* update: userDetails' SET_USER(updatedUser), SET_DONE and a success
\* alert, or the catch.
CompleteUpdateProfile(r, o) ==
    /\ r.op = "updateUserProfile" /\ inflight' = inflight \ {r}
    /\ IF o = "ok"
         THEN /\ userDetails' = [userDetails EXCEPT !.user = r.user, !.loading = FALSE]
              /\ updateUserForm' = [SET_DONE(updateUserForm) EXCEPT !.error = NoValue]
              /\ alert' = SET_MESSAGE("profile_updated", FALSE)
         ELSE /\ LET e == UpdateCatchError(o) IN
                   updateUserForm' = IF CommitsError(e)
                                       THEN [updateUserForm EXCEPT !.loading = FALSE,
                                                                   !.error = e]
                                       ELSE updateUserForm
              /\ UNCHANGED <<userDetails, alert>>
    /\ UNCHANGED <<lockUser, changePassword, role, admins, metadata>>

\* updateUserMetadata: SET_METADATA, UNSET_LOADING, SET_UPDATE_DONE and a
\* success alert; the catch reports any failure of updateUser as the
\* syntax error and leaves loading on.
CompleteUpdateMetadata(r, o) ==
    /\ r.op = "updateUserMetadata" /\ inflight' = inflight \ {r}
    /\ IF o = "ok"
         THEN /\ metadata' = [metadata EXCEPT !.loading = FALSE, !.updateDone = TRUE]
              /\ alert' = SET_MESSAGE("metadata_updated", FALSE)
         ELSE /\ alert' = SET_MESSAGE("invalid_metadata", FALSE)
              /\ UNCHANGED metadata
    /\ UNCHANGED <<lockUser, changePassword, role, admins, userDetails, updateUserForm>>

Complete ==
    /\ \E r \in inflight : r.op \in DetailOps /\ \E o \in Outcomes(r) :
         \/ CompleteLock(r, o)
         \/ CompleteChangePassword(r, o)
         \/ CompleteFetchRoles(r, o)
         \/ CompleteAssignment(r, o)
         \/ CompleteUpdateProfile(r, o)
         \/ CompleteUpdateMetadata(r, o)
    /\ UNCHANGED <<currentUser, live, token, route, calls>>

Next ==
    /\ \/ InvokeLock \/ InvokeChangePassword
       \/ InvokeFetchRoles \/ InvokeAssignRole \/ InvokeUnassignRole
       \/ ResetLockUser \/ ResetChangePassword \/ ResetRole
       \/ InvokeUpdateProfile \/ ListMetadata \/ InvokeUpdateMetadata
       \/ ResetUpdateForm \/ ResetMetadata
    /\ UNCHANGED <<currentUser, live, token, route>>

=============================================================================
