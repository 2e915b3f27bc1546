----------------------------- MODULE MCLogbook ------------------------------
(* Logbook on a small instance: three QSOs of one entity, two of them on     *)
(* the same band with modes of one group.                                    *)
EXTENDS Logbook, TLC

CONSTANTS v1, v2, p1, q1, q2, q3

MCEntity == [q \in Qsos |-> 1]
MCBand   == [q \in Qsos |-> IF q = q3 THEN 40 ELSE 20]
MCMode   == [q \in Qsos |-> CASE q = q1 -> "SSB" [] q = q2 -> "FM" [] OTHER -> "FT8"]
MCGroup  == [m \in {"SSB", "FM", "FT8"} |-> IF m = "FT8" THEN "digital" ELSE "phone"]

(* The map and the page share the rows only, and no map reads what a page    *)
(* reads or writes of them beside: they are explored one at a time.  Of the  *)
(* rows, the map is explored with those that tell pictures apart: without    *)
(* credit, and at most one with a later QSL than the others.  The page is    *)
(* explored with rows of any dates, which therefore need not change.         *)
NoMapYet  == picture = Blank /\ ~mixed /\ fixes = 0 /\ \A v \in Maps : mc[v] = "idle"
NoPageYet == /\ news = {} /\ \A p \in Pages : qc[p] = "idle"
             /\ \A i \in Ids : ~rows[i].credit /\ rows[i].qso # q3
             /\ Cardinality({i \in Ids : rows[i].rx > 1}) <= 1
             /\ Len(rows) < MaxRows /\ (Ids = OnMap \/ Len(rows) < MaxRows - 1)
FewCredits == Cardinality({i \in Ids : rows[i].credit}) <= IF Len(rows) < MaxRows THEN 1 ELSE 0
Viewers    == Permutations(Maps)
OneAtATime == (NoMapYet /\ FewCredits) \/ NoPageYet
=============================================================================
