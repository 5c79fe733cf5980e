\* The current session and two others, and two OAuth states with
\* window.open succeeding; four calls to the two modules in all.
CONSTANTS
    cur = cur  d1 = d1  d2 = d2  s1 = s1  s2 = s2  none = none
    Sessions <- MCSessions
    Current = cur
    OAuthStates <- MCOAuthStates
    PopupBlockable = FALSE
    NoValue <- none
    MaxCalls = 4
SPECIFICATION Spec
INVARIANT TypeOK CurrentSessionNeverRevoked PopupReleasedOnFailure
PROPERTY DevicesSpinnerSettles OAuthSpinnerSettles
