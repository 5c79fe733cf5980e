---------------------------- MODULE AdminOAuthState ----------------------------
(***************************************************************************)
(* The anti-forgery state of the administrative console's OAuth sign-in:   *)
(* createOAuthState and verifyOAuthState of                                *)
(* src/web/management/src/utils/util.js, which keep the value in           *)
(* sessionStorage under 'io.authcore.admin_portal_oauth_state'.  Their     *)
(* callers (the sign-in view and the OAuth callback view) are not in the   *)
(* repository; the callback is modelled from spec section 4.3: verify the  *)
(* echoed state, and call completeOAuth only if it matches.                *)
(***************************************************************************)
EXTENDS Naturals

CONSTANTS
    States,     \* values randomTOTPSecret() may produce
    Forged,     \* a state value carried by a redirect this tab did not start
    NoValue,    \* sessionStorage.getItem's null
    MaxReplays  \* bound on the callbacks arriving with one state value

ASSUME Forged \notin States /\ MaxReplays \in Nat

VARIABLES
    stored,     \* sessionStorage 'io.authcore.admin_portal_oauth_state'
    created,    \* the values createOAuthState has returned
    arrived,    \* callbacks arrived per state value
    completed,  \* completeOAuth calls made per state value
    rejected    \* the last callback was rejected by verifyOAuthState

vars == <<stored, created, arrived, completed, rejected>>

Echoed == States \cup {Forged}

TypeOK ==
    /\ stored \in States \cup {NoValue}
    /\ created \subseteq States
    /\ arrived \in [Echoed -> 0..MaxReplays]
    /\ completed \in [Echoed -> 0..MaxReplays]
    /\ rejected \in BOOLEAN

Init ==
    /\ stored = NoValue
    /\ created = {}
    /\ arrived = [e \in Echoed |-> 0]
    /\ completed = [e \in Echoed |-> 0]
    /\ rejected = FALSE

\* createOAuthState: a fresh random value, stored and returned.
createOAuthState ==
    /\ \E s \in States \ created :
         /\ stored' = s
         /\ created' = created \cup {s}
    /\ rejected' = FALSE
    /\ UNCHANGED <<arrived, completed>>

\* verifyOAuthState(state): the answer, and the stored value after it.
verifyOAuthState(e) == e = stored

StoredAfterVerify_Kept(e) == stored

StoredAfterVerify(e) == IF e = stored THEN NoValue ELSE stored

\* A redirect arrives carrying state `e`: a value this tab created (the
\* provider echoing it, perhaps once more from the history) or a forged
\* one.  The callback completes the sign-in only when verification passes.
Callback ==
    \E e \in created \cup {Forged} :
       /\ arrived[e] < MaxReplays
       /\ arrived' = [arrived EXCEPT ![e] = @ + 1]
       /\ stored' = StoredAfterVerify(e)
       /\ completed' = IF verifyOAuthState(e)
                       THEN [completed EXCEPT ![e] = @ + 1] ELSE completed
       /\ rejected' = ~verifyOAuthState(e)
       /\ UNCHANGED created

\* Nothing more arrives; the model stops here.
Idle == UNCHANGED vars

Next == createOAuthState \/ Callback \/ Idle

Spec == Init /\ [][Next]_vars

(***************************************************************************)
(* Properties                                                              *)
(***************************************************************************)

\* completeOAuth is called only with a state this tab created, and at most
\* once per state, however often and in whatever order redirects carrying
\* old, current or forged values arrive (verifyOAuthState consumes it).
StateAcceptedOnce ==
    \A e \in Echoed : completed[e] <= 1 /\ (completed[e] = 1 => e \in created)

=============================================================================
