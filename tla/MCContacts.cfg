\* The user registered with e1 (verified or not); the forms may add e2 or
\* the phone p1, delete, switch primaries and verify; three calls in all.
CONSTANTS
    e1 = e1  e2 = e2  p1 = p1  none = none
    Emails <- MCEmails
    Phones <- MCPhones
    NoValue <- none
    MaxCalls = 3
SPECIFICATION Spec
INVARIANT TypeOK FormSpinnerTracksCall
PROPERTY ContactsSpinnersSettle
