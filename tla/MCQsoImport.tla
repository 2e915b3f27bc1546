---------------------------- MODULE MCQsoImport -----------------------------
(* Instances of QsoImport for TLC.                                          *)
EXTENDS QsoImport, TLC

CONSTANTS p1, p2, s1, q1, q2

QsoSymmetry  == Permutations({q1, q2})
=============================================================================
