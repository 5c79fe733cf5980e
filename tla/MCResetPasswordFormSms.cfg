\* The SMS dispatch of _authenticateInit fails after the handle step completed.
CONSTANTS
    h1 = h1  c1 = c1  a1 = a1  a2 = a2  pw1 = pw1  pw2 = pw2
    other = other  none = none
    Handles <- MCHandles
    ContactTokens <- MCContactTokens
    AuthTokens <- MCAuthTokens
    Passwords <- MCPasswords
    OtherChallenge <- other
    NoValue <- none
    MaxCalls = 4
    ClearInFlight = FALSE
SPECIFICATION Spec
INVARIANT HandleStepExclusive
