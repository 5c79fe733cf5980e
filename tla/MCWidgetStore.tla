----------------------------- MODULE MCWidgetStore -----------------------------
EXTENDS WidgetStore

CONSTANTS cur, d1, d2, s1, s2, none

MCSessions == {cur, d1, d2}
MCOAuthStates == {s1, s2}
=============================================================================
