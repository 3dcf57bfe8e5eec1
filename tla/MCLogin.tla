------------------------------ MODULE MCLogin ------------------------------
(* Small instances of Login.                                               *)
EXTENDS Login, TLC

CONSTANTS u1, u2, t1, t2, t3, x, y

Symmetry == Permutations(Tokens) \cup Permutations(Users)
=============================================================================
