\* Registration and password reset: the strength check of signUp after a
\* RESET that empties the password and keeps its score.
CONSTANTS
    e1 = e1
    p1 = p1
    blank = blank
    strong = strong
    weak = weak
    t1 = t1
    k1 = k1
    none = none
    Emails <- MCEmails
    Phones <- MCPhones
    Blank <- blank
    StrongPasswords <- MCStrongPasswords
    WeakPasswords <- MCWeakPasswords
    TxIds <- MCTxIds
    ResetTokens <- MCResetTokens
    NoValue <- none
    MaxCalls = 3
SPECIFICATION Spec
INVARIANT SignUpPasswordPassedCheck
