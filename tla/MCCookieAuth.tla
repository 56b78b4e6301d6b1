---------------------------- MODULE MCCookieAuth ----------------------------
(* Values of the constants of CookieAuth for TLC.                          *)
EXTENDS CookieAuth, TLC

CONSTANTS t1, t2

TabSymmetry == Permutations(Tab)
=============================================================================
