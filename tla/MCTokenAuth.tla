---------------------------- MODULE MCTokenAuth ----------------------------
(* Values of the constants of TokenAuth for TLC.                           *)
EXTENDS TokenAuth, TLC

CONSTANTS w1, w2, t1, t2, ann, staff

WorkerSymmetry == Permutations(Worker)
=============================================================================
