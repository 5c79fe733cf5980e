\* The administrator opens a user's details and deletes a user, with the
\* current user loaded, still loading, or failed to load, and may take a user's role away.
CONSTANTS
    me = me  u1 = u1  noid = noid a = a  forged = forged  none = none
    Users <- MCUsers
    Self = me
    NoId = noid
    States <- MCStates
    Forged <- forged
    MaxReplays = 2
    NoValue <- none
    MaxCalls = 2
SPECIFICATION Spec
INVARIANT OwnAdminAccessKept
