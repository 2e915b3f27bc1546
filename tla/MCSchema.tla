------------------------------ MODULE MCSchema ------------------------------
(* Schema on small instances: model values.                                  *)
EXTENDS Schema

CONSTANTS m1, m2, a1, a2
=============================================================================
