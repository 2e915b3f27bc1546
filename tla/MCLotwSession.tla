--------------------------- MODULE MCLotwSession ----------------------------
(* LotwSession on small instances: model values.                             *)
EXTENDS LotwSession

CONSTANTS w1, w2, b1, b2, job

(* Bound: requests overlap while only the first browser is in use, and LoTW  *)
(* gave it a cookie.                                                         *)
OverlapOfOne == Cardinality({w \in Workers : pc[w] # "idle"}) <= 1
                  \/ (logged \union barred \subseteq {b1} /\ empty = {})
=============================================================================
