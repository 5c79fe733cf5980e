-------------------------------- MODULE Devices --------------------------------
(***************************************************************************)
(* The sessions (devices) store of the widgets,                            *)
(* src/web/widgets/src/store/modules/devices.js, and the identity API's    *)
(* sessions of the signed-in user.                                         *)
(*                                                                         *)
(* list awaits twice (the sessions, then the current session).  deleteAll  *)
(* starts one delete per listed session other than the current one, all at *)
(* once, and awaits Promise.all of them: it settles at the first rejection *)
(* while the other deletes go on, or when every delete has succeeded.      *)
(***************************************************************************)
EXTENDS Naturals, FiniteSets

CONSTANTS
    Sessions,   \* session ids
    Current,    \* the session this widget runs in
    NoValue,    \* JavaScript undefined and null alike
    MaxCalls    \* bound on the actions the UI invokes

ASSUME Current \in Sessions /\ MaxCalls \in Nat

VARIABLES
    state,      \* the module's Vuex state, a record of its fields
    inflight,   \* requests sent and not yet answered
    unsettled,  \* deleteAll calls whose Promise.all has not settled
    live,       \* identity API: the user's sessions
    calls

vars == <<state, inflight, unsettled, live, calls>>

Request ==
    [id : 1..MaxCalls, op : {"list"}]
    \cup [id : 1..MaxCalls, op : {"current"}, sessions : SUBSET Sessions]
    \cup [id : 1..MaxCalls, op : {"delete"}, sid : Sessions, all : BOOLEAN]

State ==
    [sessions : SUBSET Sessions, currentSession : Sessions \cup {NoValue},
     loading : BOOLEAN, done : BOOLEAN, error : {"raw", NoValue}]

TypeOK ==
    /\ state \in State
    /\ inflight \subseteq Request
    /\ unsettled \subseteq 1..MaxCalls
    /\ live \subseteq Sessions
    /\ calls \in 0..MaxCalls

getDefaultState ==
    [sessions |-> {}, currentSession |-> NoValue,
     loading |-> FALSE, done |-> FALSE, error |-> NoValue]

Init ==
    /\ state = getDefaultState
    /\ inflight = {}
    /\ unsettled = {}
    /\ live = Sessions
    /\ calls = 0

(***************************************************************************)
(* Mutations.  The order SET_DEVICES_LIST sorts the list in is left out:   *)
(* `sessions` is the set it holds.                                         *)
(***************************************************************************)
SET_LOADING(s) == [s EXCEPT !.loading = TRUE, !.error = NoValue]

UNSET_LOADING_Kept(s) == s

UNSET_LOADING(s) == [s EXCEPT !.loading = FALSE]

SET_DEVICES_LIST_Swapped(s, sessions, currentSession) ==
    [s EXCEPT !.sessions = sessions, !.currentSession = sessions,
              !.loading = FALSE, !.done = TRUE]

SET_DEVICES_LIST(s, sessions, currentSession) ==
    [s EXCEPT !.sessions = sessions, !.currentSession = currentSession,
              !.loading = FALSE, !.done = TRUE]

SET_ERROR(s) == [s EXCEPT !.loading = FALSE, !.error = "raw"]

(***************************************************************************)
(* Actions the UI invokes, while the spinner is off.  A delete button is   *)
(* shown for each listed session other than the current one.               *)
(***************************************************************************)
CallerMayInvoke == ~state.loading /\ calls < MaxCalls

InvokeList ==
    /\ CallerMayInvoke
    /\ state' = SET_LOADING(state)
    /\ inflight' = inflight \cup {[id |-> calls + 1, op |-> "list"]}
    /\ calls' = calls + 1
    /\ UNCHANGED <<unsettled, live>>

InvokeDelete ==
    /\ CallerMayInvoke
    /\ \E d \in state.sessions \ {state.currentSession} :
         inflight' = inflight \cup
                       {[id |-> calls + 1, op |-> "delete", sid |-> d, all |-> FALSE]}
    /\ state' = SET_LOADING(state)
    /\ calls' = calls + 1
    /\ UNCHANGED <<unsettled, live>>

\* The sessions deleteAll sends a delete for: `device.id !==
\* state.currentSession.id`, read when the callbacks run, before any await.
OthersThan_Equal(sessions, current) == {d \in sessions : d = current}

OthersThan(sessions, current) == {d \in sessions : d # current}

\* deleteAll.  With no current session loaded, each callback throws on
\* `state.currentSession.id`; with no session listed Promise.all([]) resolves
\* at once.  Otherwise the deletes go out together.
InvokeDeleteAll ==
    /\ CallerMayInvoke
    /\ calls' = calls + 1
    /\ LET s == SET_LOADING(state)
           targets == OthersThan(state.sessions, state.currentSession)
       IN \/ /\ state.sessions # {} /\ state.currentSession = NoValue
             /\ state' = SET_ERROR(s)
             /\ UNCHANGED <<inflight, unsettled>>
          \/ /\ state.currentSession # NoValue \/ state.sessions = {}
             /\ targets = {}
             /\ state' = UNSET_LOADING(s)
             /\ UNCHANGED <<inflight, unsettled>>
          \/ /\ state.currentSession # NoValue
             /\ targets # {}
             /\ state' = s
             /\ inflight' = inflight \cup
                  {[id |-> calls + 1, op |-> "delete", sid |-> d, all |-> TRUE] :
                     d \in targets}
             /\ unsettled' = unsettled \cup {calls + 1}
    /\ UNCHANGED live

\* RESET, committed by the view when it leaves the screen.
RESET ==
    /\ inflight = {}
    /\ state' = getDefaultState
    /\ UNCHANGED <<inflight, unsettled, live, calls>>

(***************************************************************************)
(* The identity API answers a request with success or an error (an HTTP    *)
(* error or a transport failure; the catch blocks treat them alike).  A    *)
(* delete of a session that is gone is a 404.                              *)
(***************************************************************************)
Outcomes(r) ==
    IF r.op = "delete" /\ r.sid \notin live THEN {"fail"} ELSE {"ok", "fail"}

\* list, after listCurrentUserSessions: await getCurrentSession with the
\* sessions just received.
CompleteListSessions(r, o) ==
    /\ r.op = "list"
    /\ \/ /\ o = "ok"
          /\ inflight' = (inflight \ {r}) \cup
                           {[id |-> r.id, op |-> "current", sessions |-> live]}
          /\ UNCHANGED state
       \/ /\ o = "fail"
          /\ inflight' = inflight \ {r}
          /\ state' = SET_ERROR(state)
    /\ UNCHANGED <<unsettled, live>>

\* list, after getCurrentSession: SET_DEVICES_LIST.
CompleteGetCurrentSession(r, o) ==
    /\ r.op = "current"
    /\ inflight' = inflight \ {r}
    /\ state' = IF o = "ok" THEN SET_DEVICES_LIST(state, r.sessions, Current)
                            ELSE SET_ERROR(state)
    /\ UNCHANGED <<unsettled, live>>

\* delete: UNSET_LOADING or SET_ERROR.
CompleteDelete(r, o) ==
    /\ r.op = "delete" /\ ~r.all
    /\ inflight' = inflight \ {r}
    /\ state' = IF o = "ok" THEN UNSET_LOADING(state) ELSE SET_ERROR(state)
    /\ UNCHANGED unsettled

\* One delete of a deleteAll call answered.  Promise.all rejects at the
\* first failure (SET_ERROR) and resolves after the last success
\* (UNSET_LOADING); once it has settled, later answers change nothing.
CompleteDeleteOfAll(r, o) ==
    /\ r.op = "delete" /\ r.all
    /\ inflight' = inflight \ {r}
    /\ LET rest == {q \in inflight \ {r} : q.op = "delete" /\ q.all /\ q.id = r.id}
       IN CASE r.id \notin unsettled ->
                 UNCHANGED <<state, unsettled>>
            [] o = "fail" ->
                 /\ state' = SET_ERROR(state)
                 /\ unsettled' = unsettled \ {r.id}
            [] rest = {} ->
                 /\ state' = UNSET_LOADING(state)
                 /\ unsettled' = unsettled \ {r.id}
            [] OTHER ->
                 UNCHANGED <<state, unsettled>>

Complete ==
    /\ \E r \in inflight : \E o \in Outcomes(r) :
         \/ CompleteListSessions(r, o)
         \/ CompleteGetCurrentSession(r, o)
         \/ /\ r.op = "delete"
            /\ live' = IF o = "ok" THEN live \ {r.sid} ELSE live
            /\ \/ CompleteDelete(r, o)
               \/ CompleteDeleteOfAll(r, o)
    /\ UNCHANGED calls

\* A session elsewhere ends (signed out or expired) without this widget.
SessionEndsElsewhere ==
    /\ \E x \in live \ {Current} : live' = live \ {x}
    /\ UNCHANGED <<state, inflight, unsettled, calls>>

Next ==
    \/ InvokeList
    \/ InvokeDelete
    \/ InvokeDeleteAll
    \/ RESET
    \/ Complete
    \/ SessionEndsElsewhere

\* The identity API, or the transport's timeout, answers every request.
Spec == Init /\ [][Next]_vars /\ WF_vars(Complete)

(***************************************************************************)
(* Properties                                                              *)
(***************************************************************************)

\* Signing out the other devices never signs out this one: deleteAll skips
\* the current session, whatever was listed and whatever other deletes,
\* lists and retries run beside it.
CurrentSessionNeverRevoked == Current \in live

\* Every path of list, delete and deleteAll, Promise.all's early rejection
\* included, ends in a mutation that clears `loading`.
DevicesSpinnerSettles == state.loading ~> ~state.loading

=============================================================================
