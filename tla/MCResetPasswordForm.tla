------------------------- MODULE MCResetPasswordForm -------------------------
EXTENDS ResetPasswordForm

CONSTANTS h1, c1, a1, a2, pw1, pw2, other, none

MCHandles == {h1}
MCContactTokens == {c1}
MCAuthTokens == {a1, a2}
MCPasswords == {pw1, pw2}
=============================================================================
