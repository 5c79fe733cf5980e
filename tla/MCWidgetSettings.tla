--------------------------- MODULE MCWidgetSettings ---------------------------
(* Instantiation of WidgetSettings for TLC: one IdP link, one factor id    *)
(* and one TOTP secret, one display name, two passwords and a weak and a  *)
(* strong score.                                                           *)
EXTENDS WidgetSettings, Integers

CONSTANTS l1, f1, sec1, n1, p1, p2, none

MCLinks   == {l1}
MCFactors == {f1}
MCSecrets == {sec1}
MCNames   == {n1}
MCPasswords == {p1, p2}
MCScores  == {-1, 1, 3}
=============================================================================
