\* Sign-in with the SMS second factor: does selecting it request a code?
CONSTANTS
    h1 = h1
    h2 = h2
    blank = blank
    pw1 = pw1
    t1 = t1
    t2 = t2
    none = none
    Handles <- MCHandles
    Blank <- blank
    Passwords <- MCPasswords
    TxIds <- MCTxIds
    NoValue <- none
    MaxCalls = 5
    CancelInFlight = FALSE
SPECIFICATION Spec
INVARIANT SmsCodeRequested
