----------------------------- MODULE MCAdminConsole -----------------------------
EXTENDS AdminConsole

CONSTANTS me, u1, noid, a, forged, none

MCUsers == {me, u1}
MCStates == {a}
=============================================================================
