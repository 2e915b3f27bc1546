--------------------------- MODULE Announcements ----------------------------
(***************************************************************************)
(* What the daily QSL digest promises its users, without processes, locks, *)
(* queues or transactions: a batch of QSLs becomes due, is announced by    *)
(* one attempt at a time, is announced for good once an attempt that got   *)
(* a message out by a channel is recorded under that channel, and goes     *)
(* only by retention.  An attempt may fail, with or without messages out.  *)
(*                                                                         *)
(* DigestDelivery implements this as long as only cron dispatches.         *)
(***************************************************************************)
EXTENDS Naturals

CONSTANTS Batches, Channels

VARIABLES
    stage,   \* of each batch
    said,    \* channels by which a message of the attempt under way left
    told,    \* attempts that got a message out, by batch
    lost,    \* those of them that failed nevertheless
    aged     \* batches beyond the retention

vars == <<stage, said, told, lost, aged>>

Announced == Channels
Stages    == {"nothing", "due", "attempt", "gone"} \union Announced

Quiet == \A b \in Batches : stage[b] # "attempt"

Init ==
    /\ stage = [b \in Batches |-> "nothing"] /\ said = {}
    /\ told = [b \in Batches |-> 0] /\ lost = [b \in Batches |-> 0]
    /\ aged = {}

(* The batches of a day are written, or written again with another content: *)
(* never while one is being announced, and what is announced stays so.      *)
Generated(b) == stage[b] \in {"nothing", "due"} /\ stage'[b] \in {"nothing", "due"} /\ b \notin aged
Generate ==
    /\ Quiet
    /\ \A b \in Batches : stage'[b] = stage[b] \/ Generated(b)
    /\ UNCHANGED <<said, told, lost, aged>>

Age ==
    /\ aged \subseteq aged'
    /\ UNCHANGED <<stage, said, told, lost>>

Retire ==
    /\ Quiet
    /\ \A b \in Batches : stage'[b] = stage[b] \/ (stage'[b] = "gone" /\ b \in aged)
    /\ UNCHANGED <<said, told, lost, aged>>

Attempt(b) ==
    /\ Quiet /\ stage[b] = "due"
    /\ stage' = [stage EXCEPT ![b] = "attempt"]
    /\ UNCHANGED <<said, told, lost, aged>>

(* A message leaves.  However many leave, it is one telling.                *)
Say(b, c) ==
    /\ stage[b] = "attempt"
    /\ said' = said \union {c}
    /\ told' = IF said = {} THEN [told EXCEPT ![b] = @ + 1] ELSE told
    /\ UNCHANGED <<stage, lost, aged>>

Record(b, c) ==
    /\ stage[b] = "attempt" /\ c \in said
    /\ stage' = [stage EXCEPT ![b] = c] /\ said' = {}
    /\ UNCHANGED <<told, lost, aged>>

Fail(b) ==
    /\ stage[b] = "attempt"
    /\ stage' = [stage EXCEPT ![b] = "due"] /\ said' = {}
    /\ lost' = IF said # {} THEN [lost EXCEPT ![b] = @ + 1] ELSE lost
    /\ UNCHANGED <<told, aged>>

Next == \/ Generate \/ Age \/ Retire
        \/ \E b \in Batches : Attempt(b) \/ Fail(b) \/ \E c \in Channels : Say(b, c) \/ Record(b, c)

Spec == Init /\ [][Next]_vars
=============================================================================
