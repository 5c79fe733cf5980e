\* Sign-in under the UI's contract: one call at a time, RESET only when no
\* call is in flight.
CONSTANTS
    h1 = h1
    h2 = h2
    blank = blank
    pw1 = pw1
    t1 = t1
    t2 = t2
    none = none
    Handles <- MCHandles
    Blank <- blank
    Passwords <- MCPasswords
    TxIds <- MCTxIds
    NoValue <- none
    MaxCalls = 5
    CancelInFlight = FALSE
SPECIFICATION Spec
INVARIANT TypeOK
INVARIANT HandleMatchesTransaction
INVARIANT NoSpinnerWithoutCall
PROPERTY MFAErrorNamesVerifiedMethod
PROPERTY RateLimitNotWrongCredential
PROPERTY ImplementsTransaction
