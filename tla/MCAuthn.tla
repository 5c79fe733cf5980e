------------------------------- MODULE MCAuthn -------------------------------
(* Instantiation of Authn for TLC: two users, one password, two           *)
(* transactions the identity API can mint.                                 *)
EXTENDS Authn

CONSTANTS h1, h2, blank, pw1, t1, t2, none

MCHandles   == {h1, h2}
MCPasswords == {pw1}
MCTxIds     == {t1, t2}
=============================================================================
