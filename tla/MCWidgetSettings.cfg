\* The settings stores with every answer of the identity API: does each
\* spinner always stop?
CONSTANTS
    l1 = l1
    f1 = f1
    sec1 = sec1
    n1 = n1
    p1 = p1
    p2 = p2
    none = none
    Passwords <- MCPasswords
    Scores <- MCScores
    Links <- MCLinks
    Factors <- MCFactors
    Secrets <- MCSecrets
    Names <- MCNames
    NoValue <- none
    MaxCalls = 3
SPECIFICATION Spec
PROPERTY TotpSpinnerSettles
