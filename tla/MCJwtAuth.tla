---------------------------- MODULE MCJwtAuth ----------------------------
(* Values of the constants of JwtAuth for TLC.                             *)
EXTENDS JwtAuth, TLC

CONSTANTS r1, r2, ann, j1

(* A token of another issuer that shares the secret, one without jti that  *)
(* is issued in the future, one with an empty subject, a forged one.       *)
Minted == [sub |-> ann, exp |-> 0, iat |-> 0, jti |-> j1, type |-> "access",
           signed |-> TRUE]
MCForeign ==
  {Minted,
   [Minted EXCEPT !.exp = 2, !.iat = 1, !.jti = None, !.type = None],
   [Minted EXCEPT !.sub = Empty, !.jti = None],
   [Minted EXCEPT !.signed = FALSE]}

Lenient == [leeway |-> 1, exp |-> TRUE, iat |-> TRUE]
RequestSymmetry == Permutations(Request)
=============================================================================
