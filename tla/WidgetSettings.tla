---------------------------- MODULE WidgetSettings ----------------------------
(***************************************************************************)
(* The account-settings screens of the widgets, side by side in one Vuex   *)
(* store: the IdP links (SocialLogin), the second factors (Mfa), the      *)
(* profile form (UpdateProfileForm) and the change-password store          *)
(* (WidgetPassword).  Each store's steps interleave with the others';     *)
(* each answers its own calls.                                             *)
(***************************************************************************)
EXTENDS Naturals

CONSTANTS Links, Factors, Secrets, Names, Passwords, Scores, NoValue, MaxCalls

VARIABLES slState, slInflight, linked, slCalls,
          mfaState, alert, mfaInflight, factors, mfaCalls,
          upState, profile, upInflight, upCalls,
          pwState, pwAlert, pwAccount, pwInflight, pwCalls

SL == INSTANCE SocialLogin
M  == INSTANCE Mfa
U  == INSTANCE UpdateProfileForm
P  == INSTANCE WidgetPassword

slVars  == <<slState, slInflight, linked, slCalls>>
mfaVars == <<mfaState, alert, mfaInflight, factors, mfaCalls>>
upVars  == <<upState, profile, upInflight, upCalls>>
pwVars  == <<pwState, pwAlert, pwAccount, pwInflight, pwCalls>>
vars    == <<slVars, mfaVars, upVars, pwVars>>

TypeOK == SL!SLTypeOK /\ M!MfaTypeOK /\ U!UpTypeOK /\ P!PwTypeOK

Init == SL!SLInit /\ M!MfaInit /\ U!UpInit /\ P!PwInit

Next ==
    \/ SL!SLNext /\ UNCHANGED <<mfaVars, upVars, pwVars>>
    \/ M!MfaNext /\ UNCHANGED <<slVars, upVars, pwVars>>
    \/ U!UpNext  /\ UNCHANGED <<slVars, mfaVars, pwVars>>
    \/ P!PwNext  /\ UNCHANGED <<slVars, mfaVars, upVars>>

\* The identity API, or the transport's timeout, answers every call of
\* every store; the user is free to stop anywhere.
Spec == Init /\ [][Next]_vars
        /\ WF_vars(SL!SLComplete /\ UNCHANGED <<mfaVars, upVars, pwVars>>)
        /\ WF_vars(M!MfaComplete /\ UNCHANGED <<slVars, upVars, pwVars>>)
        /\ WF_vars(U!CompleteSet /\ UNCHANGED <<slVars, mfaVars, pwVars>>)
        /\ WF_vars(P!CompleteChangePassword /\ UNCHANGED <<slVars, mfaVars, upVars>>)

\* The second-factor settings screen is never left with its spinner on for
\* good: every path of mfa.js list, delete and createTOTP ends in a
\* mutation that clears `loading` (the view disables its buttons while it
\* is on), whatever the other settings stores do meanwhile.
TotpSpinnerSettles == M!MfaSpinnerSettles

=============================================================================
