-------------------------- MODULE MCStripeBilling ---------------------------
(* StripeBilling on small instances: model values.                           *)
EXTENDS StripeBilling

CONSTANTS c1, c2, h1, h2

(* Bound: two checkouts and the two events of a payment, or one checkout     *)
(* and three events.                                                         *)
Budget == clicks + Len(events) <= 4
=============================================================================
