------------------------- MODULE MCDigestGeneration -------------------------
(* Instances of DigestGeneration for TLC.                                   *)
EXTENDS DigestGeneration, TLC

CONSTANTS u1, u2, q1, q2

MCOwnerOne == [q \in Qsls |-> u1]
QslSymmetry == Permutations({q1, q2})

West       == {-1}
EastWest   == {-1, 1}
MCDates    == -3..4
=============================================================================
