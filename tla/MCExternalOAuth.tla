--------------------------- MODULE MCExternalOAuth ---------------------------
EXTENDS ExternalOAuth

CONSTANTS s1, s2, none

MCOAuthStates == {s1, s2}
=============================================================================
