\* The administrator and one other user; one state value, each
\* echoed up to twice, forged redirects; two calls in all.
CONSTANTS
    me = me  u1 = u1  noid = noid a = a  forged = forged  none = none
    Users <- MCUsers
    Self = me
    NoId = noid
    States <- MCStates
    Forged <- forged
    MaxReplays = 2
    NoValue <- none
    MaxCalls = 2
SPECIFICATION Spec
INVARIANT TypeOK StateAcceptedOnce
PROPERTY AdminSpinnersSettle
