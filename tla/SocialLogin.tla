------------------------------ MODULE SocialLogin ------------------------------
(***************************************************************************)
(* The social-login (IdP link) settings store of the widgets,              *)
(* web/widgets/src/store/modules/social_login.js, and the identity API's   *)
(* IdP links of the signed-in user.  delete awaits the deletion and then   *)
(* dispatch('list'), whose own catch handles a failed listing.             *)
(***************************************************************************)
EXTENDS Naturals

CONSTANTS
    Links,        \* IdP links (oauth factors) of the user
    NoValue,      \* null
    MaxCalls      \* bound on the actions the UI invokes

VARIABLES
    slState,      \* the module's Vuex state, a record of its fields
    slInflight,   \* calls suspended at an await
    linked,       \* identity API: the user's IdP links
    slCalls

slVars == <<slState, slInflight, linked, slCalls>>

SLRequest == [id : 1..MaxCalls, op : {"list"}]
             \cup [id : 1..MaxCalls, op : {"delete"}, link : Links]

SLState == [loading : BOOLEAN, error : {NoValue, "raw", "only_way_to_login"},
            done : BOOLEAN, oauthFactors : SUBSET Links]

SLTypeOK ==
    /\ slState \in SLState
    /\ slInflight \subseteq SLRequest
    /\ linked \subseteq Links
    /\ slCalls \in 0..MaxCalls

SLInit ==
    /\ slState = [loading |-> FALSE, error |-> NoValue, done |-> FALSE,
                  oauthFactors |-> {}]
    /\ slInflight = {}
    /\ linked \in SUBSET Links
    /\ slCalls = 0

SET_LOADING(s) == [s EXCEPT !.loading = TRUE, !.error = NoValue]

SET_SOCIAL_LOGINS_LIST(s, fs) ==
    [s EXCEPT !.loading = FALSE, !.oauthFactors = fs, !.done = TRUE]

SET_ERROR(s, e) == [s EXCEPT !.loading = FALSE, !.error = e]

\* The views dispatch while the spinner is off; delete is offered for each
\* listed link.
SLCallerMayInvoke == ~slState.loading /\ slCalls < MaxCalls

InvokeList ==
    /\ SLCallerMayInvoke
    /\ slState' = SET_LOADING(slState)
    /\ slInflight' = slInflight \cup {[id |-> slCalls + 1, op |-> "list"]}
    /\ slCalls' = slCalls + 1
    /\ UNCHANGED linked

InvokeDelete ==
    /\ SLCallerMayInvoke
    /\ \E l \in slState.oauthFactors :
         slInflight' = slInflight \cup {[id |-> slCalls + 1, op |-> "delete", link |-> l]}
    /\ slState' = SET_LOADING(slState)
    /\ slCalls' = slCalls + 1
    /\ UNCHANGED linked

\* The identity API answers a listing with the links, or fails; a deletion
\* succeeds, is refused with 400 (the only way left to sign in), fails with
\* another HTTP status, or fails in transport (no err.response).
SLOutcomes(r) ==
    IF r.op = "list" THEN {"ok", "net"} ELSE {"ok", "400", "500", "net"}

\* list: SET_SOCIAL_LOGINS_LIST with the answer, or SET_ERROR.
CompleteList(r, o) ==
    /\ r.op = "list"
    /\ slInflight' = slInflight \ {r}
    /\ slState' = IF o = "ok" THEN SET_SOCIAL_LOGINS_LIST(slState, linked)
                              ELSE SET_ERROR(slState, "raw")
    /\ UNCHANGED linked

\* delete, after its first await: on success dispatch('list'), which
\* commits SET_LOADING and calls the API; in the catch, a 400 is reported,
\* a transport error is reported, and any other HTTP status commits nothing.
CompleteDelete(r, o) ==
    /\ r.op = "delete"
    /\ linked' = IF o = "ok" THEN linked \ {r.link} ELSE linked
    /\ slInflight' = IF o = "ok"
                       THEN (slInflight \ {r}) \cup {[id |-> r.id, op |-> "list"]}
                       ELSE slInflight \ {r}
    /\ slState' = CASE o = "ok"  -> SET_LOADING(slState)
                    [] o = "400" -> SET_ERROR(slState, "only_way_to_login")
                    [] o = "net" -> SET_ERROR(slState, "raw")
                    [] OTHER     -> slState

SLComplete ==
    /\ \E r \in slInflight : \E o \in SLOutcomes(r) :
         CompleteList(r, o) \/ CompleteDelete(r, o)
    /\ UNCHANGED slCalls

SLNext == InvokeList \/ InvokeDelete \/ SLComplete


=============================================================================
