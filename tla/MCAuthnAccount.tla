---------------------------- MODULE MCAuthnAccount ----------------------------
(* Instantiation of AuthnAccount for TLC: an e-mail and a phone handle, a  *)
(* strong and a weak password, one authentication state, one reset token.  *)
EXTENDS AuthnAccount

CONSTANTS e1, p1, blank, strong, weak, t1, k1, none

MCEmails          == {e1}
MCPhones          == {p1}
MCStrongPasswords == {strong}
MCWeakPasswords   == {weak}
MCTxIds           == {t1}
MCResetTokens     == {k1}
=============================================================================
