-------------------------- MODULE MCDigestDelivery --------------------------
(* Instances of DigestDelivery for TLC.                                     *)
EXTENDS DigestDelivery, TLC

CONSTANTS c1, c2, j1, u1, u2, b1, b2, e1, e2

MCOwnerOne  == b1 :> u1
MCOwnerTwo  == b1 :> u1 @@ b2 :> u1
MCOwnerEach == b1 :> u1 @@ b2 :> u2

DefaultPref  == [fallback |-> TRUE, address |-> "account"]
OnlyDefault  == {DefaultPref}
FallbackPrefs == {DefaultPref, [fallback |-> FALSE, address |-> "account"]}
EveryPref    == Pref

CronSymmetry == Permutations({c1, c2})

(* Bound: a second batch, or a delivery job or fault beside cron; with both *)
(* of these, the browser does not unsubscribe.                              *)
OneMatter == /\ b2 \notin old
             /\ jobs + faults > 0 => batch[b2] = Absent
             /\ jobs + faults > 1 => sub[e1].status # "unsubscribed"

AllOn       == {DefaultConfig}
EveryConfig == Config
=============================================================================
