\* The reset flow under the UI contract: calls only while the spinner is off,
\* CLEAR_STATES only between calls.
CONSTANTS
    h1 = h1  c1 = c1  a1 = a1  a2 = a2  pw1 = pw1  pw2 = pw2
    other = other  none = none
    Handles <- MCHandles
    ContactTokens <- MCContactTokens
    AuthTokens <- MCAuthTokens
    Passwords <- MCPasswords
    OtherChallenge <- other
    NoValue <- none
    MaxCalls = 4
    ClearInFlight = FALSE
SPECIFICATION Spec
INVARIANT TypeOK ResetRequestAuthorized
PROPERTY ErrorNamesFailedStep SpinnerSettles
