\* The popup handshake when a popup blocker makes window.open return null.
CONSTANTS
    s1 = s1  s2 = s2  none = none
    OAuthStates <- MCOAuthStates
    NoValue <- none
    MaxCalls = 3
    PopupBlockable = TRUE
SPECIFICATION Spec
PROPERTY OAuthSpinnerSettles
