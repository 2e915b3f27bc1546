--------------------------- MODULE LogbookProofs ----------------------------
(***************************************************************************)
(* Proofs about Logbook, for any number of requests, QSOs and rows: the    *)
(* type invariant, that a served map is complete, that a QSL is new once,  *)
(* and that a page has the most recent QSLs.                               *)
(*                                                                         *)
(* Rows are added and keep their QSO (Grows), so what a request has seen   *)
(* on the map stays there, and a picture of as many rows as there are now  *)
(* is a picture of all of them.  That a request writes its picture and its *)
(* count together, although each is written only if it differs from what   *)
(* was loaded, is DrawnForMore: an unforced request draws because there    *)
(* are more rows than it has loaded, so both differ or neither does.       *)
(*                                                                         *)
(* That a page is full if a QSO is left out is counted: of the rows before *)
(* a place, the earlier are as many as the place (TakesMany), and the 250  *)
(* rows read hold 25 QSOs if none has more than ten (TopIsSmall, PagesFit).*)
(***************************************************************************)
EXTENDS Logbook, FiniteSetTheorems, SequenceTheorems, TLAPS

Pictures   == UNION {[S -> Nat] : S \in SUBSET Nat}
MapRecord  == [force : BOOLEAN, known : SUBSET Nat, picture : Pictures, count : Nat, drawn : Pictures]
PageRecord == [rows : SUBSET Nat, new : SUBSET Nat, marked : SUBSET Nat, before : SUBSET Qsos]

Shapes == /\ picture \in Pictures
          /\ map \in [Maps -> MapRecord] /\ page \in [Pages -> PageRecord]

(* Nothing is known or drawn but rows on the map.                           *)
Drawn == /\ DOMAIN picture \subseteq OnMap
         /\ \A v \in Maps : /\ map[v].known \subseteq OnMap
                            /\ DOMAIN map[v].picture \subseteq OnMap
                            /\ DOMAIN map[v].drawn \subseteq OnMap

IdleIsEmpty == \A v \in Maps : mc[v] = "idle" => map[v] = NoMap

(* A lone request has loaded what is stored.                                *)
LoneIsCurrent == \A v \in alone :
    /\ mc[v] # "idle" /\ \A u \in Maps \ {v} : mc[u] = "idle"
    /\ mc[v] # "served" => map[v].picture = picture /\ map[v].count = count

(* A forced request is alone, and pictures and counts go together.          *)
ForcedIsLone == ~mixed => \A v \in Maps : mc[v] # "idle" /\ map[v].force => v \in alone
PairsAgree   == ~mixed => /\ count = Size(picture)
                          /\ \A v \in Maps : map[v].count = Size(map[v].picture)

DrawnForMore == ~mixed => \A v \in Maps :
    /\ mc[v] = "draw"  => map[v].force \/ map[v].picture = Blank \/ map[v].count < Cardinality(OnMap)
    /\ mc[v] = "write" => map[v].force \/ map[v].picture = Blank \/ map[v].count < Size(map[v].drawn)
DrawnIsComplete == \A v \in Maps : mc[v] = "write" => map[v].known \subseteq DOMAIN map[v].drawn

MapInv == /\ Drawn /\ IdleIsEmpty /\ LoneIsCurrent /\ ForcedIsLone /\ PairsAgree
          /\ DrawnForMore /\ DrawnIsComplete /\ MapIsComplete

(* What was shown as new is seen, unless the QSO has a second row.          *)
Twice(q) == Cardinality(RowsOf(q)) > 1
NewsIsSeen == \A q \in news : /\ RowsOf(q) # {}
                              /\ Twice(q) \/ \A i \in RowsOf(q) : rows[i].seen

PageInv == /\ NewsIsSeen /\ NewOnce
           /\ \A p \in Pages : page[p].new \subseteq page[p].rows

LogbookInv == TypeOk /\ Shapes /\ MapInv /\ PageInv

-----------------------------------------------------------------------------
LEMMA RowsAreFinite ==
    ASSUME TypeOk
    PROVE  /\ IsFiniteSet(Ids) /\ Ids \subseteq Nat
           /\ \A S \in SUBSET Ids : IsFiniteSet(S) /\ Cardinality(S) \in Nat
<1>1. Ids = 1..Len(rows) /\ Len(rows) \in Nat
  BY DEF TypeOk, Ids
<1>2. IsFiniteSet(Ids)
  BY <1>1, FS_Interval
<1>3. \A S \in SUBSET Ids : IsFiniteSet(S)
  BY <1>2, FS_Subset
<1>4. \A S \in SUBSET Ids : Cardinality(S) \in Nat
  BY <1>3, FS_CardinalityType
<1>. QED BY <1>1, <1>2, <1>3, <1>4

(* What every step does to the rows: it keeps them, with their QSOs, their  *)
(* credit and their mark.                                                   *)
Grows == /\ Ids \subseteq Ids'
         /\ \A i \in Ids : /\ rows'[i].qso = rows[i].qso /\ rows'[i].credit = rows[i].credit
                           /\ rows[i].seen => rows'[i].seen

LEMMA ImportGrows ==
    ASSUME TypeOk, NEW S \in SUBSET Qsos, NEW got \in [S -> 1..MaxTime],
           NEW credited, NEW missed, Import(got, credited, missed)
    PROVE  Grows /\ rows' \in Seq(Row) /\ fixes' \in 0..MaxFixes
<1>. DEFINE found == {q \in DOMAIN got \ missed : RowsOf(q) # {}}
<1>1. PICK fixed \in SUBSET Ids, added \in SetToSeqs(DOMAIN got \ found) :
        /\ \A i \in fixed : rows[i].qso \in found
        /\ rows' = [i \in Ids |-> IF i \in fixed THEN [rows[i] EXCEPT !.rx = got[rows[i].qso]] ELSE rows[i]]
                     \o [k \in DOMAIN added |-> [qso |-> added[k], rx |-> got[added[k]],
                                                 credit |-> added[k] \in credited, seen |-> FALSE]]
        /\ fixes' = IF \E i \in fixed : rows[i].rx # got[rows[i].qso] THEN fixes + 1 ELSE fixes
        /\ fixes' <= MaxFixes
  BY DEF Import
<1>. DEFINE old == [i \in Ids |-> IF i \in fixed THEN [rows[i] EXCEPT !.rx = got[rows[i].qso]] ELSE rows[i]]
            new == [k \in DOMAIN added |-> [qso |-> added[k], rx |-> got[added[k]],
                                            credit |-> added[k] \in credited, seen |-> FALSE]]
<1>2. /\ Len(rows) \in Nat /\ Ids = 1..Len(rows)
      /\ \A i \in Ids : rows[i] \in Row
  BY DEF TypeOk, Ids
<1>3. \A i \in Ids : /\ old[i] \in Row /\ old[i].qso = rows[i].qso
                     /\ old[i].credit = rows[i].credit /\ old[i].seen = rows[i].seen
  <2>. SUFFICES ASSUME NEW i \in Ids
                PROVE  /\ old[i] \in Row /\ old[i].qso = rows[i].qso
                       /\ old[i].credit = rows[i].credit /\ old[i].seen = rows[i].seen
    OBVIOUS
  <2>1. CASE i \in fixed
    <3>1. got[rows[i].qso] \in 1..MaxTime
      BY <1>1, <2>1
    <3>. QED BY <3>1, <2>1, <1>2 DEF Row
  <2>2. CASE i \notin fixed
    BY <2>2, <1>2
  <2>. QED BY <2>1, <2>2
<1>4. old \in Seq(Row) /\ Len(old) = Len(rows)
  <2>1. old \in [1..Len(rows) -> Row]
    BY <1>2, <1>3
  <2>. QED BY <2>1, <1>2
<1>5. new \in Seq(Row)
  <2>1. IsFiniteSet(S \ found)
    <3>1. S \ found \in SUBSET Qsos
      OBVIOUS
    <3>. HIDE DEF found
    <3>. QED BY <3>1, QsosAssumption, FS_Subset
  <2>2. Cardinality(S \ found) \in Nat
    BY <2>1, FS_CardinalityType
  <2>3. added \in [1..Cardinality(S \ found) -> S \ found]
    <3>1. added \in SetToSeqs(S \ found)
      BY <1>1
    <3>. HIDE DEF found
    <3>. QED BY <3>1 DEF SetToSeqs
  <2>4. \A k \in 1..Cardinality(S \ found) : new[k] \in Row
    <3>. SUFFICES ASSUME NEW k \in 1..Cardinality(S \ found) PROVE new[k] \in Row
      OBVIOUS
    <3>1. /\ added[k] \in S \ found
          /\ new[k] = [qso |-> added[k], rx |-> got[added[k]], credit |-> added[k] \in credited, seen |-> FALSE]
      BY <2>3
    <3>2. got[added[k]] \in 1..MaxTime /\ added[k] \in Qsos /\ (added[k] \in credited) \in BOOLEAN
      BY <3>1
    <3>. HIDE DEF new, found
    <3>. QED BY <3>1, <3>2 DEF Row
  <2>5. new \in [1..Cardinality(S \ found) -> Row]
    BY <2>3, <2>4
  <2>. HIDE DEF new, found
  <2>6. \E n \in Nat : new \in [1..n -> Row]
    BY <2>2, <2>5
  <2>. QED BY <2>6, SeqDef
<1>. HIDE DEF old, new
<1>6. rows' = old \o new
  BY <1>1 DEF old, new
<1>7. /\ rows' \in Seq(Row) /\ Len(rows') = Len(rows) + Len(new)
      /\ \A i \in 1..(Len(rows) + Len(new)) : rows'[i] = IF i <= Len(rows) THEN old[i] ELSE new[i - Len(rows)]
  <2>. DEFINE sum == old \o new
  <2>1. /\ sum \in Seq(Row) /\ Len(sum) = Len(old) + Len(new)
        /\ \A i \in 1..(Len(old) + Len(new)) : sum[i] = IF i <= Len(old) THEN old[i] ELSE new[i - Len(old)]
    BY <1>4, <1>5, ConcatProperties
  <2>2. rows' = sum
    BY <1>6
  <2>. HIDE DEF sum
  <2>. QED BY <2>1, <2>2, <1>4
<1>8. Len(new) \in Nat /\ Ids' = 1..(Len(rows) + Len(new))
  BY <1>5, <1>7 DEF Ids
<1>9. Grows
  <2>1. \A i \in Ids : i \in 1..(Len(rows) + Len(new)) /\ i <= Len(rows)
    BY <1>2, <1>8
  <2>2. \A i \in Ids : i \in Ids' /\ rows'[i] = old[i]
    BY <2>1, <1>7, <1>8
  <2>. QED BY <2>2, <1>3 DEF Grows
<1>10. fixes' \in 0..MaxFixes
  BY <1>1, BoundAssumption DEF TypeOk
<1>. QED BY <1>7, <1>9, <1>10

LEMMA GrowsFacts ==
    ASSUME TypeOk, rows' \in Seq(Row), Grows
    PROVE  /\ OnMap \subseteq OnMap' /\ IsFiniteSet(OnMap')
           /\ Cardinality(OnMap) \in Nat /\ Cardinality(OnMap)' \in Nat
           /\ Cardinality(OnMap) <= Cardinality(OnMap)'
           /\ \A q : /\ RowsOf(q) \subseteq RowsOf(q)' /\ IsFiniteSet(RowsOf(q)')
                     /\ Twice(q) => Twice(q)'
<1>1. Ids' = 1..Len(rows') /\ Len(rows') \in Nat
  BY DEF Ids
<1>2. IsFiniteSet(Ids')
  BY <1>1, FS_Interval
<1>3. \A S, T : S \subseteq T /\ T \subseteq Ids' =>
        /\ IsFiniteSet(S) /\ IsFiniteSet(T) /\ Cardinality(S) \in Nat /\ Cardinality(T) \in Nat
        /\ Cardinality(S) <= Cardinality(T)
  <2>. SUFFICES ASSUME NEW S, NEW T, S \subseteq T, T \subseteq Ids'
                PROVE  /\ IsFiniteSet(S) /\ IsFiniteSet(T) /\ Cardinality(S) \in Nat /\ Cardinality(T) \in Nat
                       /\ Cardinality(S) <= Cardinality(T)
    OBVIOUS
  <2>1. IsFiniteSet(T)
    BY <1>2, FS_Subset
  <2>2. IsFiniteSet(S) /\ Cardinality(S) <= Cardinality(T)
    BY <2>1, FS_Subset
  <2>. QED BY <2>1, <2>2, FS_CardinalityType
<1>4. OnMap \subseteq OnMap' /\ OnMap' \subseteq Ids'
  BY DEF Grows, OnMap
<1>5. \A q : RowsOf(q) \subseteq RowsOf(q)' /\ RowsOf(q)' \subseteq Ids'
  BY DEF Grows, RowsOf
<1>6. \A q : IsFiniteSet(RowsOf(q)') /\ (Twice(q) => Twice(q)')
  <2>. SUFFICES ASSUME NEW q PROVE IsFiniteSet(RowsOf(q)') /\ (Twice(q) => Twice(q)')
    OBVIOUS
  <2>1. /\ Cardinality(RowsOf(q)) \in Nat /\ Cardinality(RowsOf(q)') \in Nat
        /\ Cardinality(RowsOf(q)) <= Cardinality(RowsOf(q)') /\ IsFiniteSet(RowsOf(q)')
    BY <1>3, <1>5
  <2>. QED BY <2>1 DEF Twice
<1>7. /\ Cardinality(OnMap) \in Nat /\ Cardinality(OnMap') \in Nat
      /\ Cardinality(OnMap) <= Cardinality(OnMap') /\ IsFiniteSet(OnMap')
  BY <1>3, <1>4
<1>. QED BY <1>4, <1>5, <1>6, <1>7

(* The pictures of rows on the map.                                         *)
LEMMA SizeFacts ==
    ASSUME TypeOk, NEW p, DOMAIN p \subseteq OnMap
    PROVE  /\ Size(p) \in Nat /\ Size(p) <= Cardinality(OnMap) /\ Cardinality(OnMap) \in Nat
           /\ Size(p) = Cardinality(OnMap) => DOMAIN p = OnMap
<1>1. IsFiniteSet(OnMap) /\ Cardinality(OnMap) \in Nat
  BY RowsAreFinite DEF OnMap
<1>2. /\ IsFiniteSet(DOMAIN p) /\ Cardinality(DOMAIN p) <= Cardinality(OnMap)
      /\ Cardinality(OnMap) = Cardinality(DOMAIN p) => OnMap = DOMAIN p
  BY <1>1, FS_Subset
<1>. QED BY <1>1, <1>2, FS_CardinalityType DEF Size

LEMMA BlankFacts ==
    /\ Blank \in Pictures /\ DOMAIN Blank = {} /\ Size(Blank) = 0
    /\ \A p \in Pictures : IsFiniteSet(DOMAIN p) /\ Size(p) = 0 => p = Blank
<1>1. DOMAIN Blank = {} /\ Blank \in [{} -> Nat]
  BY DEF Blank
<1>2. \A p \in Pictures : IsFiniteSet(DOMAIN p) /\ Size(p) = 0 => p = Blank
  <2>. SUFFICES ASSUME NEW p \in Pictures, IsFiniteSet(DOMAIN p), Cardinality(DOMAIN p) = 0
                PROVE  p = Blank
    BY DEF Size
  <2>1. DOMAIN p = {}
    BY FS_EmptySet
  <2>. QED BY <2>1 DEF Pictures, Blank
<1>3. Cardinality({}) = 0
  BY FS_EmptySet
<1>. QED BY <1>1, <1>2, <1>3 DEF Pictures, Size

LEMMA DrawingFacts ==
    ASSUME TypeOk
    PROVE  Drawing \in Pictures /\ DOMAIN Drawing = OnMap
<1>1. OnMap \subseteq Nat /\ OnMap \subseteq Ids
  BY RowsAreFinite DEF OnMap
<1>2. \A i \in OnMap : Cardinality({k \in OnMap : rows[k].rx > rows[i].rx}) \in Nat
  BY <1>1, RowsAreFinite
<1>3. Drawing \in [OnMap -> Nat]
  BY <1>2 DEF Drawing
<1>. QED BY <1>1, <1>3 DEF Pictures

(* Rows may come while maps are made.                                       *)
LEMMA MapInvKept ==
    ASSUME TypeOk, Shapes, MapInv, rows' \in Seq(Row), Grows, UNCHANGED mapVars
    PROVE  MapInv'
<1>. USE DEF mapVars
<1>1. /\ OnMap \subseteq OnMap' /\ Cardinality(OnMap) \in Nat /\ Cardinality(OnMap)' \in Nat
      /\ Cardinality(OnMap) <= Cardinality(OnMap)'
  BY GrowsFacts
<1>2. Drawn'
  BY <1>1 DEF MapInv, Drawn
<1>3. DrawnForMore'
  BY <1>1 DEF MapInv, DrawnForMore, Shapes, MapRecord, Size, Blank
<1>4. (IdleIsEmpty /\ LoneIsCurrent /\ ForcedIsLone /\ PairsAgree /\ DrawnIsComplete /\ MapIsComplete)'
  BY DEF MapInv, IdleIsEmpty, NoMap, LoneIsCurrent, ForcedIsLone, PairsAgree, DrawnIsComplete, MapIsComplete, Size
<1>. QED BY <1>2, <1>3, <1>4 DEF MapInv

-----------------------------------------------------------------------------
(* The map.  A step of it leaves rows and pages as they are.                *)
LEMMA PageInvBeside ==
    ASSUME PageInv, UNCHANGED <<rows, pageVars>>
    PROVE  PageInv'
BY DEF PageInv, NewsIsSeen, NewOnce, Twice, RowsOf, Ids, pageVars

LEMMA TypesBeside ==
    ASSUME TypeOk, Shapes', UNCHANGED <<rows, pageVars, fixes>>,
           mc' \in [Maps -> {"idle", "count", "draw", "write", "served"}],
           count' \in Nat, alone' \subseteq Maps, mixed' \in BOOLEAN
    PROVE  TypeOk'
<1>1. DOMAIN picture' \subseteq Nat
  BY DEF Shapes, Pictures
<1>2. \A v \in Maps : DOMAIN map'[v].picture \subseteq Nat /\ DOMAIN map'[v].drawn \subseteq Nat
  <2>1. \A v \in Maps : map'[v].picture \in Pictures /\ map'[v].drawn \in Pictures
    BY DEF Shapes, MapRecord
  <2>. QED BY <2>1 DEF Pictures
<1>3. \A v \in Maps : map'[v].force \in BOOLEAN /\ map'[v].known \subseteq Nat /\ map'[v].count \in Nat
  BY DEF Shapes, MapRecord
<1>4. Ids' = Ids /\ UNCHANGED <<rows, qc, page, news, fixes>>
  BY DEF pageVars, Ids
<1>5. rows' \in Seq(Row) /\ qc' \in [Pages -> {"idle", "mark", "commit"}] /\ news' \subseteq Qsos /\ fixes' \in 0..MaxFixes
  BY <1>4 DEF TypeOk
<1>6. \A p \in Pages : /\ page'[p].rows \subseteq Ids' /\ Cardinality(page'[p].rows) <= PageSize
                       /\ page'[p].new \subseteq Ids' /\ page'[p].marked \subseteq Ids'
  <2>1. Ids' = Ids /\ page' = page
    BY <1>4
  <2>. HIDE DEF Ids
  <2>. QED BY <2>1 DEF TypeOk
<1>. QED BY <1>1, <1>2, <1>3, <1>5, <1>6 DEF TypeOk

LEMMA NoMapShape == NoMap \in MapRecord
BY BlankFacts DEF NoMap, MapRecord

LEMMA OpenMapStep ==
    ASSUME LogbookInv, NEW v \in Maps, NEW force \in BOOLEAN, OpenMap(v, force)
    PROVE  LogbookInv'
<1>. DEFINE req == [NoMap EXCEPT !.force = force, !.known = OnMap, !.picture = picture, !.count = count]
            others == {u \in Maps \ {v} : mc[u] # "idle"}
<1>0. TypeOk /\ Shapes /\ MapInv /\ PageInv
  BY DEF LogbookInv
<1>1. /\ req.force = force /\ req.known = OnMap /\ req.picture = picture /\ req.count = count
      /\ req.drawn = Blank /\ req \in MapRecord
  <2>1. OnMap \subseteq Nat
    BY <1>0, RowsAreFinite DEF OnMap
  <2>. QED BY <2>1, <1>0, BlankFacts DEF NoMap, MapRecord, Shapes, TypeOk
<1>. HIDE DEF req
<1>2. /\ map' = [map EXCEPT ![v] = req] /\ mc' = [mc EXCEPT ![v] = "count"]
      /\ alone' = (IF others = {} THEN {v} ELSE {})
      /\ mixed' = (mixed \/ \E u \in others : force \/ map[u].force)
      /\ UNCHANGED <<rows, picture, count, pageVars, fixes>> /\ mc[v] = "idle"
  BY DEF OpenMap, req
<1>3. Shapes'
  BY <1>0, <1>1, <1>2 DEF Shapes, pageVars
<1>4. TypeOk'
  <2>1. mc' \in [Maps -> {"idle", "count", "draw", "write", "served"}] /\ count' \in Nat
    BY <1>0, <1>2 DEF TypeOk
  <2>2. alone' \subseteq Maps /\ mixed' \in BOOLEAN
    BY <1>0, <1>2 DEF TypeOk
  <2>. QED BY <1>0, <1>2, <1>3, <2>1, <2>2, TypesBeside
<1>5. /\ map'[v] = req /\ mc'[v] = "count"
      /\ \A u \in Maps \ {v} : map'[u] = map[u] /\ mc'[u] = mc[u]
      /\ OnMap' = OnMap
  BY <1>0, <1>2 DEF Shapes, TypeOk, OnMap, Ids
<1>6. Drawn'
  BY <1>0, <1>1, <1>2, <1>5, BlankFacts DEF MapInv, Drawn
<1>7. LoneIsCurrent'
  BY <1>1, <1>2, <1>5 DEF LoneIsCurrent
<1>8. ForcedIsLone'
  <2>. SUFFICES ASSUME ~mixed', NEW u \in Maps, mc'[u] # "idle", map'[u].force
                PROVE  u \in alone'
    BY DEF ForcedIsLone
  <2>1. \A w \in others : ~force /\ ~map[w].force
    BY <1>2
  <2>2. CASE others = {}
    BY <2>2, <1>2, <1>5
  <2>3. CASE others # {}
    BY <2>1, <2>3, <1>1, <1>5
  <2>. QED BY <2>2, <2>3
<1>9. PairsAgree'
  BY <1>0, <1>1, <1>2, <1>5 DEF MapInv, PairsAgree, Size
<1>10. DrawnForMore'
  BY <1>0, <1>2, <1>5 DEF MapInv, DrawnForMore, Size
<1>11. DrawnIsComplete' /\ MapIsComplete' /\ IdleIsEmpty'
  BY <1>0, <1>2, <1>5 DEF MapInv, DrawnIsComplete, MapIsComplete, IdleIsEmpty, NoMap
<1>12. PageInv'
  BY <1>0, <1>2, PageInvBeside
<1>. QED BY <1>3, <1>4, <1>6, <1>7, <1>8, <1>9, <1>10, <1>11, <1>12 DEF LogbookInv, MapInv

LEMMA CountRowsStep ==
    ASSUME LogbookInv, NEW v \in Maps, CountRows(v)
    PROVE  LogbookInv'
<1>0. TypeOk /\ Shapes /\ MapInv /\ PageInv
  BY DEF LogbookInv
<1>. DEFINE req == Served(v, map[v].picture)
<1>1. /\ req.force = map[v].force /\ req.known = map[v].known /\ req.drawn = map[v].picture
      /\ req.picture = Blank /\ req.count = 0 /\ req \in MapRecord
  BY <1>0, NoMapShape DEF Served, NoMap, MapRecord, Shapes
<1>2. /\ mc[v] = "count" /\ UNCHANGED <<rows, picture, count, alone, mixed, pageVars, fixes>>
      /\ \/ Current(v) /\ map' = [map EXCEPT ![v] = req] /\ mc' = [mc EXCEPT ![v] = "served"]
         \/ ~Current(v) /\ map' = map /\ mc' = [mc EXCEPT ![v] = "draw"]
  BY DEF CountRows
<1>. HIDE DEF req
<1>3. Shapes'
  BY <1>0, <1>1, <1>2 DEF Shapes, pageVars
<1>4. TypeOk'
  <2>1. mc' \in [Maps -> {"idle", "count", "draw", "write", "served"}] /\ count' \in Nat
    BY <1>0, <1>2 DEF TypeOk
  <2>. QED BY <1>0, <1>2, <1>3, <2>1, TypesBeside DEF TypeOk
<1>5. OnMap' = OnMap /\ PageInv'
  BY <1>0, <1>2, PageInvBeside DEF OnMap, Ids
<1>6. \A u \in Maps \ {v} : map'[u] = map[u] /\ mc'[u] = mc[u]
  BY <1>0, <1>2 DEF Shapes, TypeOk
<1>7. /\ Size(map[v].picture) \in Nat /\ Size(map[v].picture) <= Cardinality(OnMap) /\ Cardinality(OnMap) \in Nat
      /\ Size(map[v].picture) = Cardinality(OnMap) => DOMAIN map[v].picture = OnMap
  BY <1>0, SizeFacts DEF MapInv, Drawn
<1>8. CASE Current(v)
  <2>1. map'[v] = req /\ mc'[v] = "served"
    BY <1>0, <1>2, <1>8 DEF Shapes, TypeOk
  <2>2. MapIsComplete'
    <3>. SUFFICES ASSUME ~mixed PROVE map[v].known \subseteq DOMAIN map[v].picture
      BY <1>0, <1>1, <1>2, <1>6, <2>1 DEF MapInv, MapIsComplete
    <3>1. Size(map[v].picture) = Cardinality(OnMap)
      BY <1>0, <1>8 DEF Current, MapInv, PairsAgree
    <3>. QED BY <3>1, <1>0, <1>7 DEF MapInv, Drawn
  <2>3. Drawn' /\ LoneIsCurrent' /\ ForcedIsLone' /\ PairsAgree'
    BY <1>0, <1>1, <1>2, <1>5, <1>6, <2>1, BlankFacts
       DEF MapInv, Drawn, LoneIsCurrent, ForcedIsLone, PairsAgree, Size
  <2>4. DrawnForMore' /\ DrawnIsComplete' /\ IdleIsEmpty'
    BY <1>0, <1>2, <1>5, <1>6, <2>1 DEF MapInv, DrawnForMore, DrawnIsComplete, IdleIsEmpty, NoMap, Size
  <2>. QED BY <1>3, <1>4, <1>5, <2>2, <2>3, <2>4 DEF LogbookInv, MapInv
<1>9. CASE ~Current(v)
  <2>1. map' = map /\ mc'[v] = "draw"
    BY <1>0, <1>2, <1>9 DEF TypeOk
  <2>2. DrawnForMore'
    <3>1. ~mixed => map[v].force \/ map[v].picture = Blank \/ map[v].count < Cardinality(OnMap)
      BY <1>0, <1>7, <1>9 DEF Current, MapInv, PairsAgree
    <3>. QED BY <3>1, <1>0, <1>2, <1>5, <1>6, <2>1 DEF MapInv, DrawnForMore, Size
  <2>3. /\ Drawn' /\ IdleIsEmpty' /\ LoneIsCurrent' /\ ForcedIsLone'
        /\ PairsAgree' /\ DrawnIsComplete' /\ MapIsComplete'
    BY <1>0, <1>2, <1>5, <1>6, <2>1
       DEF MapInv, Drawn, IdleIsEmpty, NoMap, LoneIsCurrent, ForcedIsLone, PairsAgree, DrawnIsComplete, MapIsComplete, Size
  <2>. QED BY <1>3, <1>4, <1>5, <2>2, <2>3 DEF LogbookInv, MapInv
<1>. QED BY <1>8, <1>9

LEMMA DrawMapStep ==
    ASSUME LogbookInv, NEW v \in Maps, DrawMap(v)
    PROVE  LogbookInv'
<1>0. TypeOk /\ Shapes /\ MapInv /\ PageInv
  BY DEF LogbookInv
<1>1. Drawing \in Pictures /\ DOMAIN Drawing = OnMap
  BY <1>0, DrawingFacts
<1>. HIDE DEF Drawing
<1>. DEFINE req == [map[v] EXCEPT !.drawn = Drawing]
<1>2. /\ mc[v] = "draw" /\ mc' = [mc EXCEPT ![v] = "write"] /\ map' = [map EXCEPT ![v] = req]
      /\ UNCHANGED <<rows, picture, count, alone, mixed, pageVars, fixes>>
  BY <1>0 DEF DrawMap, Shapes
<1>3. /\ req.force = map[v].force /\ req.known = map[v].known /\ req.picture = map[v].picture
      /\ req.count = map[v].count /\ req.drawn = Drawing /\ req \in MapRecord
  BY <1>0, <1>1 DEF MapRecord, Shapes
<1>. HIDE DEF req
<1>4. Shapes'
  BY <1>0, <1>2, <1>3 DEF Shapes, pageVars
<1>5. TypeOk'
  <2>1. mc' \in [Maps -> {"idle", "count", "draw", "write", "served"}] /\ count' \in Nat
    BY <1>0, <1>2 DEF TypeOk
  <2>. QED BY <1>0, <1>2, <1>4, <2>1, TypesBeside DEF TypeOk
<1>6. OnMap' = OnMap /\ PageInv'
  BY <1>0, <1>2, PageInvBeside DEF OnMap, Ids
<1>7. /\ map'[v] = req /\ mc'[v] = "write"
      /\ \A u \in Maps \ {v} : map'[u] = map[u] /\ mc'[u] = mc[u]
  BY <1>0, <1>2 DEF Shapes, TypeOk
<1>8. Drawn' /\ DrawnIsComplete'
  BY <1>0, <1>1, <1>2, <1>3, <1>6, <1>7 DEF MapInv, Drawn, DrawnIsComplete
<1>9. DrawnForMore'
  <2>1. Size(Drawing) = Cardinality(OnMap)
    BY <1>1 DEF Size
  <2>. QED BY <2>1, <1>0, <1>2, <1>3, <1>6, <1>7 DEF MapInv, DrawnForMore, Size
<1>10. IdleIsEmpty' /\ ForcedIsLone' /\ MapIsComplete'
  BY <1>0, <1>2, <1>3, <1>7 DEF MapInv, IdleIsEmpty, NoMap, ForcedIsLone, MapIsComplete
<1>11. LoneIsCurrent'
  BY <1>0, <1>2, <1>3, <1>7 DEF MapInv, LoneIsCurrent, TypeOk
<1>12. PairsAgree'
  BY <1>0, <1>2, <1>3, <1>7 DEF MapInv, PairsAgree, Size
<1>. QED BY <1>4, <1>5, <1>6, <1>8, <1>9, <1>10, <1>11, <1>12 DEF LogbookInv, MapInv

(* What is stored after a drawing: the drawing with its count.              *)
LEMMA WritesPair ==
    ASSUME LogbookInv, NEW v \in Maps, mc[v] = "write", ~mixed \/ v \in alone
    PROVE  Column(map[v].count, Size(map[v].drawn), count)
             = Size(Column(map[v].picture, map[v].drawn, picture))
<1>0. TypeOk /\ Shapes /\ MapInv /\ PageInv
  BY DEF LogbookInv
<1>1. CASE v \in alone
  BY <1>0, <1>1 DEF MapInv, LoneIsCurrent, Column
<1>2. CASE ~mixed /\ v \notin alone
  <2>1. ~map[v].force /\ map[v].count = Size(map[v].picture) /\ count = Size(picture)
    BY <1>0, <1>2 DEF MapInv, ForcedIsLone, PairsAgree
  <2>2. map[v].drawn = map[v].picture <=> Size(map[v].drawn) = map[v].count
    <3>1. map[v].picture = Blank \/ map[v].count < Size(map[v].drawn)
      BY <1>0, <1>2, <2>1 DEF MapInv, DrawnForMore
    <3>2. CASE map[v].picture = Blank
      <4>1. map[v].count = 0
        BY <2>1, <3>2, BlankFacts
      <4>2. IsFiniteSet(DOMAIN map[v].drawn) /\ map[v].drawn \in Pictures
        <5>1. OnMap \subseteq Ids
          BY DEF OnMap
        <5>. QED BY <5>1, <1>0, RowsAreFinite DEF MapInv, Drawn, Shapes, MapRecord
      <4>. QED BY <3>2, <4>1, <4>2, BlankFacts
    <3>3. CASE map[v].count < Size(map[v].drawn)
      <4>1. Size(map[v].drawn) \in Nat /\ map[v].count \in Nat
        BY <1>0, SizeFacts DEF MapInv, Drawn, Shapes, MapRecord
      <4>. QED BY <2>1, <3>3, <4>1
    <3>. QED BY <3>1, <3>2, <3>3
  <2>. QED BY <2>1, <2>2 DEF Column
<1>. QED BY <1>1, <1>2

LEMMA WriteMapStep ==
    ASSUME LogbookInv, NEW v \in Maps, WriteMap(v)
    PROVE  LogbookInv'
<1>0. TypeOk /\ Shapes /\ MapInv /\ PageInv
  BY DEF LogbookInv
<1>. DEFINE req == Served(v, map[v].drawn)
<1>1. /\ req.force = map[v].force /\ req.known = map[v].known /\ req.drawn = map[v].drawn
      /\ req.picture = Blank /\ req.count = 0 /\ req \in MapRecord
  BY <1>0, NoMapShape DEF Served, NoMap, MapRecord, Shapes
<1>2. /\ mc[v] = "write" /\ mc' = [mc EXCEPT ![v] = "served"] /\ map' = [map EXCEPT ![v] = req]
      /\ picture' = Column(map[v].picture, map[v].drawn, picture)
      /\ count' = Column(map[v].count, Size(map[v].drawn), count)
      /\ mixed' = (mixed /\ v \notin alone) /\ UNCHANGED <<rows, alone, pageVars, fixes>>
  BY DEF WriteMap
<1>. HIDE DEF req
<1>3. picture' \in Pictures /\ DOMAIN picture' \subseteq OnMap
  BY <1>0, <1>2 DEF Column, Shapes, MapRecord, MapInv, Drawn
<1>4. Shapes'
  BY <1>0, <1>1, <1>2, <1>3 DEF Shapes, pageVars
<1>5. TypeOk'
  <2>1. Size(map[v].drawn) \in Nat
    BY <1>0, SizeFacts DEF MapInv, Drawn
  <2>2. mc' \in [Maps -> {"idle", "count", "draw", "write", "served"}] /\ count' \in Nat
    BY <1>0, <1>2, <2>1 DEF TypeOk, Column
  <2>. QED BY <1>0, <1>2, <1>4, <2>2, TypesBeside DEF TypeOk
<1>6. OnMap' = OnMap /\ PageInv'
  BY <1>0, <1>2, PageInvBeside DEF OnMap, Ids
<1>7. /\ map'[v] = req /\ mc'[v] = "served"
      /\ \A u \in Maps \ {v} : map'[u] = map[u] /\ mc'[u] = mc[u]
  BY <1>0, <1>2 DEF Shapes, TypeOk
<1>8. v \in alone => \A u \in Maps \ {v} : mc[u] = "idle"
  BY <1>0 DEF MapInv, LoneIsCurrent
<1>9. Drawn' /\ DrawnIsComplete'
  BY <1>0, <1>1, <1>2, <1>3, <1>6, <1>7, BlankFacts DEF MapInv, Drawn, DrawnIsComplete
<1>10. LoneIsCurrent'
  BY <1>0, <1>2, <1>7 DEF MapInv, LoneIsCurrent, TypeOk
<1>11. ForcedIsLone' /\ IdleIsEmpty'
  BY <1>0, <1>1, <1>2, <1>7, <1>8 DEF MapInv, ForcedIsLone, IdleIsEmpty, NoMap
<1>12. PairsAgree'
  <2>. SUFFICES ASSUME ~mixed' PROVE PairsAgree'
    BY DEF PairsAgree
  <2>1. count' = Size(picture')
    BY <1>0, <1>2, WritesPair
  <2>2. map'[v].count = Size(map'[v].picture)
    BY <1>1, <1>7, BlankFacts
  <2>3. \A u \in Maps \ {v} : map[u].count = Size(map[u].picture)
    <3>1. CASE ~mixed
      BY <1>0, <3>1 DEF MapInv, PairsAgree
    <3>2. CASE v \in alone
      BY <1>0, <1>8, <3>2, BlankFacts DEF MapInv, IdleIsEmpty, NoMap
    <3>. QED BY <1>2, <3>1, <3>2
  <2>. QED BY <1>7, <2>1, <2>2, <2>3 DEF PairsAgree, Size
<1>13. DrawnForMore'
  <2>. SUFFICES ASSUME ~mixed' PROVE DrawnForMore'
    BY DEF DrawnForMore
  <2>1. CASE ~mixed
    BY <1>0, <1>6, <1>7, <2>1 DEF MapInv, DrawnForMore, Size
  <2>2. CASE v \in alone
    BY <1>7, <1>8, <2>2 DEF DrawnForMore
  <2>. QED BY <1>2, <2>1, <2>2
<1>14. MapIsComplete'
  <2>. SUFFICES ASSUME ~mixed' PROVE MapIsComplete'
    BY DEF MapIsComplete
  <2>1. map'[v].known \subseteq DOMAIN map'[v].drawn
    BY <1>0, <1>1, <1>2, <1>7 DEF MapInv, DrawnIsComplete
  <2>2. CASE ~mixed
    BY <1>0, <1>7, <2>1, <2>2 DEF MapInv, MapIsComplete
  <2>3. CASE v \in alone
    BY <1>7, <1>8, <2>1, <2>3 DEF MapIsComplete
  <2>. QED BY <1>2, <2>2, <2>3
<1>. QED BY <1>4, <1>5, <1>6, <1>9, <1>10, <1>11, <1>12, <1>13, <1>14 DEF LogbookInv, MapInv

LEMMA CloseMapStep ==
    ASSUME LogbookInv, NEW v \in Maps, CloseMap(v)
    PROVE  LogbookInv'
<1>0. TypeOk /\ Shapes /\ MapInv /\ PageInv
  BY DEF LogbookInv
<1>1. /\ mc' = [mc EXCEPT ![v] = "idle"] /\ map' = [map EXCEPT ![v] = NoMap] /\ alone' = alone \ {v}
      /\ UNCHANGED <<rows, picture, count, mixed, pageVars, fixes>>
  BY DEF CloseMap
<1>2. Shapes'
  BY <1>0, <1>1, NoMapShape DEF Shapes, pageVars
<1>3. TypeOk'
  <2>1. mc' \in [Maps -> {"idle", "count", "draw", "write", "served"}] /\ count' \in Nat
    BY <1>0, <1>1 DEF TypeOk
  <2>. QED BY <1>0, <1>1, <1>2, <2>1, TypesBeside DEF TypeOk
<1>4. OnMap' = OnMap /\ PageInv'
  BY <1>0, <1>1, PageInvBeside DEF OnMap, Ids
<1>5. /\ map'[v] = NoMap /\ mc'[v] = "idle"
      /\ \A u \in Maps \ {v} : map'[u] = map[u] /\ mc'[u] = mc[u]
  BY <1>0, <1>1 DEF Shapes, TypeOk
<1>6. Drawn' /\ IdleIsEmpty' /\ LoneIsCurrent' /\ ForcedIsLone'
  BY <1>0, <1>1, <1>4, <1>5, BlankFacts DEF MapInv, Drawn, IdleIsEmpty, NoMap, LoneIsCurrent, ForcedIsLone
<1>7. PairsAgree' /\ DrawnForMore' /\ DrawnIsComplete' /\ MapIsComplete'
  BY <1>0, <1>1, <1>4, <1>5, BlankFacts DEF MapInv, NoMap, PairsAgree, DrawnForMore, DrawnIsComplete, MapIsComplete, Size
<1>. QED BY <1>2, <1>3, <1>4, <1>6, <1>7 DEF LogbookInv, MapInv

-----------------------------------------------------------------------------
(* The page.                                                                *)
LEMMA TwoRows ==
    ASSUME NEW S, IsFiniteSet(S), NEW i \in S, NEW k \in S, i # k
    PROVE  Cardinality(S) > 1
<1>1. Cardinality(S) \in Nat
  BY FS_CardinalityType
<1>2. Cardinality(S) # 0
  BY FS_EmptySet
<1>3. Cardinality(S) # 1
  <2>1. ~ \E x : S = {x}
    OBVIOUS
  <2>. QED BY <2>1, FS_Singleton
<1>. QED BY <1>1, <1>2, <1>3

LEMMA BeforeIsOrder ==
    ASSUME TypeOk
    PROVE  /\ \A i \in Ids : ~Before(i, i)
           /\ \A i, k \in Ids : i # k => Before(i, k) \/ Before(k, i)
           /\ \A i, k, j \in Ids : Before(i, k) /\ Before(k, j) => Before(i, j)
<1>1. \A i \in Ids : i \in Nat /\ rows[i].rx \in Nat
  <2>1. \A i \in Ids : i \in Nat /\ rows[i] \in Row
    BY DEF TypeOk, Ids
  <2>. QED BY <2>1, BoundAssumption DEF Row
<1>. QED BY <1>1 DEF Before

(* No page is longer than it should be: rows have different places.         *)
LEMMA ListedFacts ==
    ASSUME TypeOk
    PROVE  Listed \subseteq Ids /\ Cardinality(Listed) <= PageSize
<1>. DEFINE above(i) == {k \in Firsts : Before(k, i)}
            place == [i \in Listed |-> Cardinality(above(i))]
<1>1. Firsts \subseteq Ids /\ Listed \subseteq Firsts /\ Listed = {i \in Firsts : Cardinality(above(i)) < PageSize}
  BY DEF Firsts, Top, Listed
<1>2. \A i : IsFiniteSet(above(i)) /\ Cardinality(above(i)) \in Nat
  <2>1. \A i : above(i) \in SUBSET Ids
    BY <1>1
  <2>. HIDE DEF above
  <2>. QED BY <2>1, RowsAreFinite
<1>3. \A i, k \in Listed : Before(i, k) => Cardinality(above(i)) # Cardinality(above(k))
  <2>. SUFFICES ASSUME NEW i \in Listed, NEW k \in Listed, Before(i, k)
                PROVE  Cardinality(above(i)) # Cardinality(above(k))
    OBVIOUS
  <2>1. above(i) \subseteq above(k) /\ i \in above(k) /\ i \notin above(i)
    BY <1>1, BeforeIsOrder
  <2>. HIDE DEF above
  <2>. QED BY <2>1, <1>2, FS_Subset
<1>4. \A i, k \in Listed : Cardinality(above(i)) = Cardinality(above(k)) => i = k
  <2>. SUFFICES ASSUME NEW i \in Listed, NEW k \in Listed, i # k
                PROVE  Cardinality(above(i)) # Cardinality(above(k))
    OBVIOUS
  <2>1. Before(i, k) \/ Before(k, i)
    BY <1>1, BeforeIsOrder
  <2>. HIDE DEF above
  <2>. QED BY <2>1, <1>3
<1>5. place \in Injection(Listed, 0..(PageSize - 1))
  <2>1. \A i \in Listed : Cardinality(above(i)) \in 0..(PageSize - 1)
    <3>1. \A i \in Listed : Cardinality(above(i)) < PageSize
      BY <1>1
    <3>. HIDE DEF above
    <3>. QED BY <3>1, <1>2, PageAssumption
  <2>. HIDE DEF above
  <2>2. place \in [Listed -> 0..(PageSize - 1)]
    BY <2>1
  <2>3. \A i, k \in Listed : place[i] = place[k] => i = k
    BY <1>4
  <2>. QED BY <2>2, <2>3 DEF Injection, IsInjective
<1>. HIDE DEF place, above
<1>6. IsFiniteSet(0..(PageSize - 1)) /\ Cardinality(0..(PageSize - 1)) = PageSize
  BY PageAssumption, FS_Interval
<1>7. Cardinality(Listed) <= PageSize
  BY <1>5, <1>6, FS_Injection
<1>. QED BY <1>1, <1>7

(* Steps that leave the map as it is.                                       *)
LEMMA TypesBesideMap ==
    ASSUME TypeOk, rows' \in Seq(Row), Ids \subseteq Ids', UNCHANGED mapVars,
           qc' \in [Pages -> {"idle", "mark", "commit"}], news' \subseteq Qsos, fixes' \in 0..MaxFixes,
           \A p \in Pages : /\ page'[p].rows \subseteq Ids' /\ Cardinality(page'[p].rows) <= PageSize
                            /\ page'[p].new \subseteq Ids' /\ page'[p].marked \subseteq Ids'
    PROVE  TypeOk'
BY DEF TypeOk, mapVars

LEMMA ImportStep ==
    ASSUME LogbookInv, NEW S \in SUBSET Qsos, NEW got \in [S -> 1..MaxTime],
           NEW credited, NEW missed, Import(got, credited, missed)
    PROVE  LogbookInv'
<1>0. TypeOk /\ Shapes /\ MapInv /\ PageInv
  BY DEF LogbookInv
<1>1. Grows /\ rows' \in Seq(Row) /\ fixes' \in 0..MaxFixes
  BY <1>0, ImportGrows
<1>2. UNCHANGED mapVars /\ UNCHANGED pageVars
  BY DEF Import
<1>3. TypeOk'
  <2>1. Ids \subseteq Ids'
    BY <1>1 DEF Grows
  <2>2. \A p \in Pages : /\ page'[p].rows \subseteq Ids' /\ Cardinality(page'[p].rows) <= PageSize
                         /\ page'[p].new \subseteq Ids' /\ page'[p].marked \subseteq Ids'
    <3>1. page' = page
      BY <1>2 DEF pageVars
    <3>2. \A p \in Pages : /\ page[p].rows \subseteq Ids /\ Cardinality(page[p].rows) <= PageSize
                           /\ page[p].new \subseteq Ids /\ page[p].marked \subseteq Ids
      BY <1>0 DEF TypeOk
    <3>. HIDE DEF Ids
    <3>. QED BY <2>1, <3>1, <3>2
  <2>3. qc' \in [Pages -> {"idle", "mark", "commit"}] /\ news' \subseteq Qsos
    BY <1>0, <1>2 DEF TypeOk, pageVars
  <2>. QED BY <1>0, <1>1, <1>2, <2>1, <2>2, <2>3, TypesBesideMap
<1>4. Shapes'
  BY <1>0, <1>2 DEF Shapes, mapVars, pageVars
<1>5. MapInv'
  BY <1>0, <1>1, <1>2, MapInvKept
<1>6. \A q : /\ RowsOf(q) \subseteq RowsOf(q)' /\ IsFiniteSet(RowsOf(q)')
             /\ Twice(q) => Twice(q)'
  BY <1>0, <1>1, GrowsFacts
<1>7. NewsIsSeen'
  <2>. SUFFICES ASSUME NEW q \in news
                PROVE  RowsOf(q)' # {} /\ (Twice(q)' \/ \A i \in RowsOf(q)' : rows'[i].seen)
    BY <1>2 DEF NewsIsSeen, pageVars
  <2>1. RowsOf(q) # {} /\ (Twice(q) \/ \A i \in RowsOf(q) : rows[i].seen)
    BY <1>0 DEF PageInv, NewsIsSeen
  <2>2. CASE RowsOf(q)' = RowsOf(q)
    <3>1. \A i \in RowsOf(q) : rows[i].seen => rows'[i].seen
      BY <1>1 DEF Grows, RowsOf
    <3>. QED BY <2>1, <2>2, <1>6, <3>1
  <2>3. CASE RowsOf(q)' # RowsOf(q)
    <3>1. \E i, k \in RowsOf(q)' : i # k
      BY <2>1, <2>3, <1>6
    <3>2. Twice(q)'
      BY <3>1, <1>6, TwoRows DEF Twice
    <3>. QED BY <2>1, <3>2, <1>6
  <2>. QED BY <2>2, <2>3
<1>8. NewOnce'
  <2>. SUFFICES ASSUME NEW p \in Pages, NEW i \in page[p].new, rows'[i].qso \in page[p].before
                PROVE  Cardinality(RowsOf(rows[i].qso)') > 1 /\ rows'[i].qso = rows[i].qso
    BY <1>2 DEF NewOnce, pageVars, RowsOf
  <2>1. i \in Ids
    BY <1>0 DEF TypeOk
  <2>2. rows'[i].qso = rows[i].qso
    BY <1>1, <2>1 DEF Grows
  <2>3. Twice(rows[i].qso)
    BY <1>0, <2>2 DEF PageInv, NewOnce, Twice
  <2>. QED BY <1>6, <2>2, <2>3 DEF Twice
<1>9. PageInv'
  BY <1>0, <1>2, <1>7, <1>8 DEF PageInv, pageVars
<1>. QED BY <1>3, <1>4, <1>5, <1>9 DEF LogbookInv

LEMMA OpenPageStep ==
    ASSUME LogbookInv, NEW p \in Pages, OpenPage(p)
    PROVE  LogbookInv'
<1>0. TypeOk /\ Shapes /\ MapInv /\ PageInv
  BY DEF LogbookInv
<1>1. Listed \subseteq Ids /\ Cardinality(Listed) <= PageSize /\ Ids \subseteq Nat
  BY <1>0, ListedFacts, RowsAreFinite
<1>. HIDE DEF Listed
<1>. DEFINE shown == [rows |-> Listed, new |-> {i \in Listed : ~rows[i].seen}, marked |-> {}, before |-> news]
<1>2. /\ page' = [page EXCEPT ![p] = shown] /\ qc' = [qc EXCEPT ![p] = "mark"]
      /\ UNCHANGED <<rows, mapVars, news, fixes>>
  BY DEF OpenPage
<1>3. shown \in PageRecord
  BY <1>0, <1>1 DEF PageRecord, TypeOk
<1>4. /\ shown.rows = Listed /\ shown.new = {i \in Listed : ~rows[i].seen}
      /\ shown.marked = {} /\ shown.before = news
  OBVIOUS
<1>. HIDE DEF shown
<1>5. page'[p] = shown /\ \A r \in Pages \ {p} : page'[r] = page[r]
  BY <1>0, <1>2 DEF Shapes
<1>6. Grows /\ Ids' = Ids
  BY <1>2 DEF Grows, Ids
<1>7. TypeOk'
  <2>1. \A r \in Pages : /\ page'[r].rows \subseteq Ids /\ Cardinality(page'[r].rows) <= PageSize
                         /\ page'[r].new \subseteq Ids /\ page'[r].marked \subseteq Ids
    BY <1>0, <1>1, <1>4, <1>5 DEF TypeOk
  <2>2. /\ qc' \in [Pages -> {"idle", "mark", "commit"}] /\ news' \subseteq Qsos
        /\ fixes' \in 0..MaxFixes /\ rows' \in Seq(Row)
    BY <1>0, <1>2 DEF TypeOk
  <2>. QED BY <1>0, <1>2, <1>6, <2>1, <2>2, TypesBesideMap
<1>8. Shapes'
  BY <1>0, <1>2, <1>3 DEF Shapes, mapVars
<1>9. MapInv'
  BY <1>0, <1>2, <1>6, MapInvKept DEF TypeOk
<1>10. NewsIsSeen'
  BY <1>0, <1>2 DEF PageInv, NewsIsSeen, Twice, RowsOf, Ids
<1>11. NewOnce'
  <2>. SUFFICES ASSUME NEW r \in Pages, NEW i \in page'[r].new, rows[i].qso \in page'[r].before
                PROVE  Twice(rows[i].qso)
    BY <1>2 DEF NewOnce, Twice, RowsOf, Ids
  <2>1. CASE r = p
    <3>1. i \in Listed /\ ~rows[i].seen /\ rows[i].qso \in news
      BY <1>4, <1>5, <2>1
    <3>2. i \in RowsOf(rows[i].qso)
      BY <1>1, <3>1 DEF RowsOf
    <3>. QED BY <3>1, <3>2, <1>0 DEF PageInv, NewsIsSeen
  <2>2. CASE r # p
    BY <1>0, <1>5, <2>2 DEF PageInv, NewOnce, Twice
  <2>. QED BY <2>1, <2>2
<1>12. \A r \in Pages : page'[r].new \subseteq page'[r].rows
  BY <1>0, <1>4, <1>5 DEF PageInv
<1>. QED BY <1>7, <1>8, <1>9, <1>10, <1>11, <1>12 DEF LogbookInv, PageInv

LEMMA MarkUniqueStep ==
    ASSUME LogbookInv, NEW p \in Pages, MarkUnique(p)
    PROVE  LogbookInv'
<1>0. TypeOk /\ Shapes /\ MapInv /\ PageInv
  BY DEF LogbookInv
<1>. DEFINE shown == [page[p] EXCEPT !.marked = Unique(page[p].rows)]
<1>1. /\ page' = [page EXCEPT ![p] = shown] /\ qc' = [qc EXCEPT ![p] = "commit"]
      /\ UNCHANGED <<rows, mapVars, news, fixes>>
  BY <1>0 DEF MarkUnique, Shapes
<1>2. Unique(page[p].rows) \subseteq page[p].rows
  BY DEF Unique
<1>3. /\ shown.rows = page[p].rows /\ shown.new = page[p].new /\ shown.before = page[p].before
      /\ shown.marked \subseteq page[p].rows /\ shown \in PageRecord
  BY <1>0, <1>2 DEF Shapes, PageRecord
<1>. HIDE DEF shown
<1>4. page'[p] = shown /\ \A r \in Pages \ {p} : page'[r] = page[r]
  BY <1>0, <1>1 DEF Shapes
<1>5. Grows /\ Ids' = Ids
  BY <1>1 DEF Grows, Ids
<1>6. TypeOk'
  <2>1. \A r \in Pages : /\ page'[r].rows \subseteq Ids /\ Cardinality(page'[r].rows) <= PageSize
                         /\ page'[r].new \subseteq Ids /\ page'[r].marked \subseteq Ids
    BY <1>0, <1>3, <1>4 DEF TypeOk
  <2>2. /\ qc' \in [Pages -> {"idle", "mark", "commit"}] /\ news' \subseteq Qsos
        /\ fixes' \in 0..MaxFixes /\ rows' \in Seq(Row)
    BY <1>0, <1>1 DEF TypeOk
  <2>. QED BY <1>0, <1>1, <1>5, <2>1, <2>2, TypesBesideMap
<1>7. Shapes'
  BY <1>0, <1>1, <1>3 DEF Shapes, mapVars
<1>8. MapInv'
  BY <1>0, <1>1, <1>5, MapInvKept DEF TypeOk
<1>9. \A r \in Pages : page'[r].new = page[r].new /\ page'[r].before = page[r].before /\ page'[r].rows = page[r].rows
  BY <1>3, <1>4
<1>10. PageInv'
  <2>1. NewsIsSeen'
    BY <1>0, <1>1 DEF PageInv, NewsIsSeen, Twice, RowsOf, Ids
  <2>2. NewOnce' /\ \A r \in Pages : page'[r].new \subseteq page'[r].rows
    BY <1>0, <1>1, <1>9 DEF PageInv, NewOnce, RowsOf, Ids
  <2>. QED BY <2>1, <2>2 DEF PageInv
<1>. QED BY <1>6, <1>7, <1>8, <1>10 DEF LogbookInv

LEMMA CommitPageStep ==
    ASSUME LogbookInv, NEW p \in Pages, CommitPage(p)
    PROVE  LogbookInv'
<1>0. TypeOk /\ Shapes /\ MapInv /\ PageInv
  BY DEF LogbookInv
<1>1. /\ page' = [page EXCEPT ![p] = NoPage] /\ qc' = [qc EXCEPT ![p] = "idle"]
      /\ rows' = [i \in Ids |-> [rows[i] EXCEPT !.seen = @ \/ i \in page[p].rows]]
      /\ news' = news \union {rows[i].qso : i \in page[p].new}
      /\ UNCHANGED <<mapVars, fixes>>
  BY DEF CommitPage
<1>2. Len(rows) \in Nat /\ Ids = 1..Len(rows) /\ \A i \in Ids : rows[i] \in Row
  BY <1>0 DEF TypeOk, Ids
<1>3. \A i \in Ids : /\ rows'[i] \in Row /\ rows'[i].qso = rows[i].qso /\ rows'[i].credit = rows[i].credit
                     /\ rows'[i].seen = (rows[i].seen \/ i \in page[p].rows)
  <2>. SUFFICES ASSUME NEW i \in Ids
                PROVE  /\ rows'[i] \in Row /\ rows'[i].qso = rows[i].qso /\ rows'[i].credit = rows[i].credit
                       /\ rows'[i].seen = (rows[i].seen \/ i \in page[p].rows)
    OBVIOUS
  <2>1. rows'[i] = [rows[i] EXCEPT !.seen = @ \/ i \in page[p].rows]
    BY <1>1
  <2>. HIDE DEF Ids
  <2>. QED BY <2>1, <1>2 DEF Row
<1>4. rows' \in Seq(Row) /\ Ids' = Ids
  <2>1. DOMAIN rows' = 1..Len(rows)
    BY <1>1, <1>2
  <2>2. \A i \in 1..Len(rows) : rows'[i] \in Row
    BY <1>2, <1>3
  <2>3. rows' \in [1..Len(rows) -> Row]
    BY <2>1, <2>2, <1>1, <1>2
  <2>4. rows' \in Seq(Row)
    BY <2>3, <1>2, SeqDef
  <2>. QED BY <2>1, <2>4, <1>2 DEF Ids
<1>5. Grows
  BY <1>3, <1>4 DEF Grows
<1>6. page'[p] = NoPage /\ \A r \in Pages \ {p} : page'[r] = page[r]
  BY <1>0, <1>1 DEF Shapes
<1>7. NoPage \in PageRecord /\ NoPage.new = {} /\ NoPage.rows = {} /\ NoPage.marked = {}
  BY DEF NoPage, PageRecord
<1>8. page[p].new \subseteq page[p].rows /\ page[p].rows \subseteq Ids
  BY <1>0 DEF PageInv, TypeOk
<1>9. TypeOk'
  <2>1. Cardinality({}) <= PageSize
    BY FS_EmptySet, PageAssumption
  <2>2. \A r \in Pages : /\ page'[r].rows \subseteq Ids /\ Cardinality(page'[r].rows) <= PageSize
                         /\ page'[r].new \subseteq Ids /\ page'[r].marked \subseteq Ids
    BY <1>0, <1>6, <1>7, <2>1 DEF TypeOk
  <2>3. news' \subseteq Qsos
    <3>1. \A i \in page[p].new : rows[i].qso \in Qsos
      BY <1>2, <1>8 DEF Row
    <3>. QED BY <1>0, <1>1, <3>1 DEF TypeOk
  <2>4. qc' \in [Pages -> {"idle", "mark", "commit"}] /\ fixes' \in 0..MaxFixes
    BY <1>0, <1>1 DEF TypeOk
  <2>. QED BY <1>0, <1>1, <1>4, <2>2, <2>3, <2>4, TypesBesideMap
<1>10. Shapes'
  BY <1>0, <1>1, <1>7 DEF Shapes, mapVars
<1>11. MapInv'
  BY <1>0, <1>1, <1>4, <1>5, MapInvKept
<1>12. \A q : RowsOf(q)' = RowsOf(q)
  BY <1>3, <1>4 DEF RowsOf
<1>13. \A q : IsFiniteSet(RowsOf(q))
  <2>1. \A q : RowsOf(q) \in SUBSET Ids
    BY DEF RowsOf
  <2>. QED BY <2>1, <1>0, RowsAreFinite
<1>14. NewsIsSeen'
  <2>. SUFFICES ASSUME NEW q \in news'
                PROVE  RowsOf(q) # {} /\ (Twice(q) \/ \A i \in RowsOf(q) : rows'[i].seen)
    BY <1>12 DEF NewsIsSeen, Twice
  <2>1. CASE q \in news
    <3>1. \A i \in RowsOf(q) : i \in Ids
      BY DEF RowsOf
    <3>. QED BY <2>1, <3>1, <1>0, <1>3 DEF PageInv, NewsIsSeen
  <2>2. CASE q \notin news
    <3>1. PICK i \in page[p].new : q = rows[i].qso
      BY <1>1, <2>2
    <3>2. i \in RowsOf(q) /\ rows'[i].seen
      BY <3>1, <1>3, <1>8 DEF RowsOf
    <3>3. Twice(q) \/ RowsOf(q) = {i}
      BY <3>2, <1>13, TwoRows DEF Twice
    <3>. QED BY <3>2, <3>3
  <2>. QED BY <2>1, <2>2
<1>15. NewOnce'
  <2>. SUFFICES ASSUME NEW r \in Pages, NEW i \in page'[r].new, rows'[i].qso \in page'[r].before
                PROVE  Cardinality(RowsOf(rows'[i].qso)) > 1
    BY <1>12 DEF NewOnce
  <2>1. r # p /\ page'[r] = page[r]
    BY <1>6, <1>7
  <2>2. i \in Ids
    BY <1>0, <2>1 DEF TypeOk
  <2>. QED BY <2>1, <2>2, <1>0, <1>3 DEF PageInv, NewOnce
<1>16. \A r \in Pages : page'[r].new \subseteq page'[r].rows
  BY <1>0, <1>6, <1>7 DEF PageInv
<1>. QED BY <1>9, <1>10, <1>11, <1>14, <1>15, <1>16 DEF LogbookInv, PageInv

-----------------------------------------------------------------------------
LEMMA LogbookInit == Init => LogbookInv
<1>. SUFFICES ASSUME Init PROVE LogbookInv
  OBVIOUS
<1>1. Ids = {} /\ OnMap = {} /\ \A q : RowsOf(q) = {}
  BY DEF Init, Ids, OnMap, RowsOf
<1>2. Cardinality({}) = 0 /\ 0 <= PageSize
  BY FS_EmptySet, PageAssumption
<1>3. NoPage \in PageRecord /\ NoPage.new = {} /\ NoPage.rows = {} /\ NoPage.marked = {}
  BY DEF NoPage, PageRecord
<1>4. NoMap \in MapRecord /\ NoMap.known = {} /\ NoMap.picture = Blank /\ NoMap.drawn = Blank /\ NoMap.count = 0
  BY NoMapShape DEF NoMap
<1>5. Shapes
  BY <1>3, <1>4, BlankFacts DEF Init, Shapes
<1>6. TypeOk
  <2>1. rows \in Seq(Row) /\ fixes \in 0..MaxFixes
    BY BoundAssumption DEF Init
  <2>2. \A v \in Maps : /\ map[v].force \in BOOLEAN /\ map[v].known \subseteq Nat /\ map[v].count \in Nat
                        /\ DOMAIN map[v].picture \subseteq Nat /\ DOMAIN map[v].drawn \subseteq Nat
    BY <1>4, BlankFacts DEF Init, MapRecord
  <2>3. \A p \in Pages : /\ page[p].rows \subseteq Ids /\ Cardinality(page[p].rows) <= PageSize
                         /\ page[p].new \subseteq Ids /\ page[p].marked \subseteq Ids
    BY <1>1, <1>2, <1>3 DEF Init
  <2>. QED BY <2>1, <2>2, <2>3, BlankFacts DEF Init, TypeOk
<1>7. MapInv
  BY <1>1, <1>4, BlankFacts DEF Init, MapInv, Drawn, IdleIsEmpty, LoneIsCurrent, ForcedIsLone,
     PairsAgree, DrawnForMore, DrawnIsComplete, MapIsComplete
<1>8. PageInv
  BY <1>3 DEF Init, PageInv, NewsIsSeen, NewOnce
<1>. QED BY <1>5, <1>6, <1>7, <1>8 DEF LogbookInv

LEMMA LogbookStep == LogbookInv /\ [Next]_vars => LogbookInv'
<1>. SUFFICES ASSUME LogbookInv, [Next]_vars PROVE LogbookInv'
  OBVIOUS
<1>1. CASE \E S \in SUBSET Qsos : \E credited \in SUBSET S, missed \in SUBSET S :
              \E got \in [S -> 1..MaxTime] : Import(got, credited, missed)
  BY <1>1, ImportStep
<1>2. CASE \E v \in Maps : MapRequest(v)
  BY <1>2, OpenMapStep, CountRowsStep, DrawMapStep, WriteMapStep, CloseMapStep DEF MapRequest
<1>3. CASE \E p \in Pages : PageRequest(p)
  BY <1>3, OpenPageStep, MarkUniqueStep, CommitPageStep DEF PageRequest
<1>4. CASE UNCHANGED vars
  <2>1. UNCHANGED <<rows, mapVars, pageVars, fixes>>
    BY <1>4 DEF vars
  <2>2. TypeOk' /\ Shapes'
    BY <2>1 DEF LogbookInv, TypeOk, Shapes, mapVars, pageVars, Ids
  <2>3. MapInv'
    <3>1. Grows /\ rows' \in Seq(Row)
      BY <2>1 DEF LogbookInv, TypeOk, Grows, Ids
    <3>. QED BY <2>1, <3>1, MapInvKept DEF LogbookInv
  <2>4. PageInv'
    BY <2>1, PageInvBeside DEF LogbookInv
  <2>. QED BY <2>2, <2>3, <2>4 DEF LogbookInv
<1>. QED BY <1>1, <1>2, <1>3, <1>4 DEF Next

(* The pages and the map keep the inductive invariant in every state.       *)
THEOREM LogbookInvariant == Spec => []LogbookInv
<1>. QED BY LogbookInit, LogbookStep, PTL DEF Spec

(* A page never has more than 25 rows, and every variable has its type.     *)
THEOREM Types == Spec => []TypeOk
<1>1. LogbookInv => TypeOk
  BY DEF LogbookInv
<1>. QED BY <1>1, LogbookInvariant, PTL

(* A served map has every row that was stored when the request came, as     *)
(* long as no forced request runs beside another (get_map_data).            *)
THEOREM ServedMapIsComplete == Spec => []MapIsComplete
<1>1. LogbookInv => MapIsComplete
  BY DEF LogbookInv, MapInv
<1>. QED BY <1>1, LogbookInvariant, PTL

(* A QSL is new on one page only, unless its QSO has a second row (qsls).   *)
THEOREM QslIsNewOnce == Spec => []NewOnce
<1>1. LogbookInv => NewOnce
  BY DEF LogbookInv, PageInv
<1>. QED BY <1>1, LogbookInvariant, PTL

-----------------------------------------------------------------------------
(* The page of recent QSLs.                                                 *)
Above(F, i) == {k \in F : Before(k, i)}

LEMMA AboveFacts ==
    ASSUME TypeOk, NEW F \in SUBSET Ids, NEW i \in F
    PROVE  /\ IsFiniteSet(Above(F, i)) /\ Cardinality(Above(F, i)) \in Nat
           /\ i \notin Above(F, i) /\ Above(F, i) \subseteq F
           /\ \A k \in F : Before(k, i) =>
                /\ Above(F, k) \subseteq Above(F, i) /\ Above(F, k) # Above(F, i)
                /\ Cardinality(Above(F, k)) < Cardinality(Above(F, i))
<1>1. /\ i \notin Above(F, i) /\ Above(F, i) \subseteq F
      /\ \A k \in F : Before(k, i) => Above(F, k) \subseteq Above(F, i) /\ Above(F, k) # Above(F, i)
  BY BeforeIsOrder DEF Above
<1>2. \A k \in F : Above(F, k) \in SUBSET Ids
  BY DEF Above
<1>3. \A k \in F : IsFiniteSet(Above(F, k)) /\ Cardinality(Above(F, k)) \in Nat
  BY <1>2, RowsAreFinite
<1>4. \A k \in F : Before(k, i) => Cardinality(Above(F, k)) < Cardinality(Above(F, i))
  <2>. SUFFICES ASSUME NEW k \in F, Before(k, i)
                PROVE  Cardinality(Above(F, k)) < Cardinality(Above(F, i))
    OBVIOUS
  <2>1. /\ Cardinality(Above(F, k)) <= Cardinality(Above(F, i))
        /\ Cardinality(Above(F, i)) # Cardinality(Above(F, k))
    BY <1>1, <1>3, FS_Subset
  <2>. QED BY <1>3, <2>1
<1>. QED BY <1>1, <1>3, <1>4

(* Some rows always have a first one: sets of rows cannot shrink for ever.  *)
LEMMA HasFirst ==
    ASSUME TypeOk, NEW S \in SUBSET Ids, S # {}
    PROVE  \E i \in S : \A k \in S : ~Before(k, i)
<1>. DEFINE T == {Above(S, i) : i \in S}
            R == StrictSubsetOrdering(Ids)
<1>1. IsWellFoundedOn(R, SUBSET Ids)
  BY RowsAreFinite, FS_StrictSubsetOrderingWellFounded, FS_FiniteSubsetsOfFinite
<1>2. T \subseteq SUBSET Ids /\ T # {}
  BY DEF Above
<1>. HIDE DEF R
<1>3. \E A \in T : \A B \in T : <<B, A>> \notin R
  BY <1>1, <1>2, WFMin
<1>4. PICK i \in S : \A k \in S : <<Above(S, k), Above(S, i)>> \notin R
  BY <1>3
<1>5. ASSUME NEW k \in S, Before(k, i) PROVE FALSE
  <2>1. Above(S, k) \subseteq Above(S, i) /\ Above(S, k) # Above(S, i)
    BY <1>5, AboveFacts
  <2>2. Above(S, k) \in SUBSET Ids /\ Above(S, i) \in SUBSET Ids
    BY DEF Above
  <2>3. <<Above(S, k), Above(S, i)>> \in R
    BY <2>1, <2>2 DEF R, StrictSubsetOrdering
  <2>. QED BY <1>4, <2>3
<1>. QED BY <1>5

(* Of some rows, those with fewer than n before them are n at least, unless *)
(* they are all.                                                            *)
LEMMA TakesMany ==
    ASSUME TypeOk, NEW F \in SUBSET Ids, NEW n \in Nat, NEW U,
           U = {i \in F : Cardinality(Above(F, i)) < n}, U # F
    PROVE  IsFiniteSet(U) /\ Cardinality(U) \in Nat /\ n <= Cardinality(U)
<1>1. PICK i \in F \ U : \A k \in F \ U : ~Before(k, i)
  <2>1. F \ U \in SUBSET Ids /\ F \ U # {}
    OBVIOUS
  <2>. QED BY <2>1, HasFirst
<1>2. Above(F, i) \in SUBSET U
  BY <1>1 DEF Above
<1>3. IsFiniteSet(U) /\ Cardinality(U) \in Nat
  BY RowsAreFinite
<1>4. Cardinality(Above(F, i)) <= Cardinality(U)
  BY <1>2, <1>3, FS_Subset
<1>5. Cardinality(Above(F, i)) \in Nat /\ ~(Cardinality(Above(F, i)) < n)
  BY <1>1, AboveFacts
<1>. QED BY <1>3, <1>4, <1>5

(* Each QSO has one row that is its latest.                                 *)
LEMMA LatestFacts ==
    ASSUME TypeOk, NEW q, RowsOf(q) # {}
    PROVE  /\ Latest(q) \in RowsOf(q) /\ Latest(q) \in Ids /\ rows[Latest(q)].qso = q
           /\ \A k \in RowsOf(q) : ~Before(k, Latest(q))
           /\ \A i \in RowsOf(q) : (\A k \in RowsOf(q) : ~Before(k, i)) => i = Latest(q)
<1>1. RowsOf(q) \in SUBSET Ids /\ \A i \in RowsOf(q) : rows[i].qso = q
  BY DEF RowsOf
<1>2. \E i \in RowsOf(q) : \A k \in RowsOf(q) : ~Before(k, i)
  BY <1>1, HasFirst
<1>3. Latest(q) \in RowsOf(q) /\ \A k \in RowsOf(q) : ~Before(k, Latest(q))
  BY <1>2 DEF Latest
<1>4. \A i \in RowsOf(q) : (\A k \in RowsOf(q) : ~Before(k, i)) => i = Latest(q)
  BY <1>1, <1>3, BeforeIsOrder
<1>. QED BY <1>1, <1>3, <1>4

(* Among the 250 rows, a QSO's first is its latest of all.                  *)
LEMMA FirstsFacts ==
    ASSUME TypeOk
    PROVE  /\ Top = {i \in Ids : Cardinality(Above(Ids, i)) < Limit}
           /\ Listed = {i \in Firsts : Cardinality(Above(Firsts, i)) < PageSize}
           /\ Firsts \subseteq Top /\ Top \subseteq Ids /\ Listed \subseteq Firsts
           /\ \A i \in Top, k \in Ids : Before(k, i) => k \in Top
           /\ \A i \in Firsts : i \in RowsOf(rows[i].qso) /\ i = Latest(rows[i].qso)
           /\ \A i \in Top : Latest(rows[i].qso) \in Firsts
           /\ \A q : RowsOf(q) # {} /\ Latest(q) \in Top => Latest(q) \in Firsts
<1>1. /\ Top = {i \in Ids : Cardinality(Above(Ids, i)) < Limit}
      /\ Listed = {i \in Firsts : Cardinality(Above(Firsts, i)) < PageSize}
      /\ Firsts \subseteq Top /\ Top \subseteq Ids /\ Listed \subseteq Firsts
  BY DEF Top, Rank, Above, Listed, Firsts
<1>2. \A i \in Top, k \in Ids : Before(k, i) => k \in Top
  <2>. SUFFICES ASSUME NEW i \in Top, NEW k \in Ids, Before(k, i) PROVE k \in Top
    OBVIOUS
  <2>1. Cardinality(Above(Ids, k)) < Cardinality(Above(Ids, i))
    BY <1>1, AboveFacts
  <2>2. Cardinality(Above(Ids, k)) \in Nat /\ Cardinality(Above(Ids, i)) \in Nat
    BY <1>1, AboveFacts
  <2>. QED BY <1>1, <2>1, <2>2, PageAssumption
<1>3. ASSUME NEW i \in Firsts
      PROVE  i \in RowsOf(rows[i].qso) /\ i = Latest(rows[i].qso)
  <2>1. i \in RowsOf(rows[i].qso)
    BY <1>1 DEF RowsOf
  <2>2. \A k \in RowsOf(rows[i].qso) : ~Before(k, i)
    <3>. SUFFICES ASSUME NEW k \in RowsOf(rows[i].qso), Before(k, i) PROVE FALSE
      OBVIOUS
    <3>1. k \in Ids /\ rows[k].qso = rows[i].qso
      BY DEF RowsOf
    <3>2. k \in Top
      BY <1>1, <1>2, <3>1
    <3>. QED BY <3>1, <3>2 DEF Firsts
  <2>. QED BY <2>1, <2>2, LatestFacts
<1>4. ASSUME NEW q, RowsOf(q) # {}, Latest(q) \in Top PROVE Latest(q) \in Firsts
  <2>1. /\ Latest(q) \in Ids /\ rows[Latest(q)].qso = q
        /\ \A k \in RowsOf(q) : ~Before(k, Latest(q))
    BY <1>4, LatestFacts
  <2>2. \A k \in Top : Before(k, Latest(q)) => rows[k].qso # q
    BY <1>1, <2>1 DEF RowsOf
  <2>. QED BY <1>4, <2>1, <2>2 DEF Firsts
<1>5. ASSUME NEW i \in Top PROVE Latest(rows[i].qso) \in Firsts
  <2>1. i \in Ids /\ i \in RowsOf(rows[i].qso)
    BY <1>1 DEF RowsOf
  <2>2. Latest(rows[i].qso) \in Ids /\ ~Before(i, Latest(rows[i].qso))
    BY <2>1, LatestFacts
  <2>3. Latest(rows[i].qso) = i \/ Before(Latest(rows[i].qso), i)
    BY <2>1, <2>2, BeforeIsOrder
  <2>4. Latest(rows[i].qso) \in Top
    BY <1>2, <2>2, <2>3
  <2>. QED BY <1>4, <2>1, <2>4
<1>. QED BY <1>1, <1>2, <1>3, <1>4, <1>5

(* If no QSO has more than c rows, the 250 are c times the QSOs' firsts at  *)
(* most: a row is told by its QSO and its place among the rows of it.       *)
LEMMA TopIsSmall ==
    ASSUME TypeOk, NEW c \in Nat, \A q \in Qsos : Cardinality(RowsOf(q)) <= c
    PROVE  /\ IsFiniteSet(Top) /\ Cardinality(Top) \in Nat
           /\ IsFiniteSet(Firsts) /\ Cardinality(Firsts) \in Nat
           /\ Cardinality(Top) <= Cardinality(Firsts) * c
<1>. DEFINE Q(i) == rows[i].qso
            pos(i) == Cardinality(Above(RowsOf(Q(i)), i))
            f == [i \in Top |-> <<Latest(Q(i)), pos(i)>>]
<1>1. Top \subseteq Ids /\ Firsts \subseteq Top
  BY FirstsFacts
<1>2. /\ IsFiniteSet(Top) /\ Cardinality(Top) \in Nat
      /\ IsFiniteSet(Firsts) /\ Cardinality(Firsts) \in Nat
  BY <1>1, RowsAreFinite
<1>3. ASSUME NEW i \in Top
      PROVE  /\ i \in RowsOf(Q(i)) /\ Q(i) \in Qsos /\ RowsOf(Q(i)) \in SUBSET Ids
             /\ Latest(Q(i)) \in Firsts /\ rows[Latest(Q(i))].qso = Q(i)
             /\ pos(i) \in 0..(c - 1)
  <2>1. i \in Ids /\ i \in RowsOf(Q(i)) /\ RowsOf(Q(i)) \in SUBSET Ids
    BY <1>1 DEF RowsOf
  <2>2. Q(i) \in Qsos
    <3>1. rows[i] \in Row
      BY <2>1 DEF TypeOk, Ids
    <3>. QED BY <3>1 DEF Row
  <2>3. Latest(Q(i)) \in Firsts
    BY FirstsFacts
  <2>4. rows[Latest(Q(i))].qso = Q(i)
    BY <2>1, LatestFacts
  <2>5. pos(i) \in Nat /\ pos(i) < Cardinality(RowsOf(Q(i)))
    <3>. DEFINE S == RowsOf(Q(i))
    <3>1. i \notin Above(S, i) /\ Above(S, i) \subseteq S /\ Cardinality(Above(S, i)) \in Nat
      BY <2>1, AboveFacts
    <3>2. IsFiniteSet(S) /\ Cardinality(S) \in Nat
      BY <2>1, RowsAreFinite
    <3>. HIDE DEF S
    <3>3. Cardinality(Above(S, i)) <= Cardinality(S) /\ Cardinality(S) # Cardinality(Above(S, i))
      <4>1. S # Above(S, i) /\ Above(S, i) \in SUBSET S
        BY <2>1, <3>1 DEF S
      <4>. QED BY <3>2, <4>1, FS_Subset
    <3>4. Cardinality(Above(S, i)) < Cardinality(S)
      BY <3>1, <3>2, <3>3
    <3>. QED BY <3>1, <3>4 DEF S
  <2>6. Cardinality(RowsOf(Q(i))) <= c /\ Cardinality(RowsOf(Q(i))) \in Nat
    BY <2>1, <2>2, RowsAreFinite
  <2>. HIDE DEF pos, Q
  <2>7. pos(i) \in 0..(c - 1)
    BY <2>5, <2>6
  <2>. QED BY <2>1, <2>2, <2>3, <2>4, <2>7
<1>4. ASSUME NEW i \in Top, NEW k \in Top, Latest(Q(i)) = Latest(Q(k)), pos(i) = pos(k)
      PROVE  i = k
  <2>1. Q(i) = Q(k)
    BY <1>3, <1>4
  <2>. DEFINE S == RowsOf(Q(i))
  <2>2. S \in SUBSET Ids /\ i \in S /\ k \in S
    <3>1. i \in RowsOf(Q(i)) /\ k \in RowsOf(Q(k)) /\ RowsOf(Q(i)) \in SUBSET Ids
      BY <1>3
    <3>. HIDE DEF Q
    <3>. QED BY <2>1, <3>1
  <2>3. Cardinality(Above(S, i)) = Cardinality(Above(S, k))
    <3>1. pos(k) = Cardinality(Above(RowsOf(Q(k)), k)) /\ pos(i) = Cardinality(Above(S, i))
      OBVIOUS
    <3>. HIDE DEF Q, pos
    <3>. QED BY <1>4, <2>1, <3>1
  <2>. HIDE DEF S
  <2>4. Cardinality(Above(S, i)) \in Nat
    BY <2>2, AboveFacts
  <2>5. ~Before(i, k) /\ ~Before(k, i)
    <3>1. Before(i, k) => Cardinality(Above(S, i)) < Cardinality(Above(S, k))
      BY <2>2, AboveFacts
    <3>2. Before(k, i) => Cardinality(Above(S, k)) < Cardinality(Above(S, i))
      BY <2>2, AboveFacts
    <3>. QED BY <2>3, <2>4, <3>1, <3>2
  <2>. QED BY <1>1, <2>5, BeforeIsOrder
<1>. HIDE DEF pos, Q
<1>5. f \in Injection(Top, Firsts \X (0..(c - 1)))
  <2>1. f \in [Top -> Firsts \X (0..(c - 1))]
    BY <1>3
  <2>2. \A i, k \in Top : f[i] = f[k] => i = k
    BY <1>4
  <2>. HIDE DEF f
  <2>. QED BY <2>1, <2>2 DEF Injection, IsInjective
<1>. HIDE DEF f
<1>6. IsFiniteSet(0..(c - 1)) /\ Cardinality(0..(c - 1)) = c
  <2>1. 0 \in Int /\ c - 1 \in Int
    OBVIOUS
  <2>2. Cardinality(0..(c - 1)) = IF 0 > c - 1 THEN 0 ELSE (c - 1) - 0 + 1
    BY <2>1, FS_Interval
  <2>. QED BY <2>1, <2>2, FS_Interval
<1>7. /\ IsFiniteSet(Firsts \X (0..(c - 1)))
      /\ Cardinality(Firsts \X (0..(c - 1))) = Cardinality(Firsts) * c
  BY <1>2, <1>6, FS_Product
<1>8. Cardinality(Top) <= Cardinality(Firsts \X (0..(c - 1)))
  BY <1>5, <1>7, FS_Injection
<1>. QED BY <1>2, <1>7, <1>8

(* Ten rows of each of fewer than 25 QSOs are fewer than 250.               *)
LEMMA PagesFit ==
    ASSUME TypeOk, \A q \in Qsos : ~Crowds(q), Cardinality(Firsts) < PageSize
    PROVE  Cardinality(Top) \in Nat /\ Cardinality(Top) < Limit
<1>1. /\ Limit \in Nat /\ PageSize \in Nat \ {0} /\ Limit > 0
      /\ Firsts \subseteq Top /\ Top \subseteq Ids
  BY FirstsFacts, PageAssumption
<1>2. /\ IsFiniteSet(Firsts) /\ Cardinality(Firsts) \in Nat
      /\ IsFiniteSet(Top) /\ Cardinality(Top) \in Nat
  BY <1>1, RowsAreFinite
<1>3. CASE PageSize = 1
  <2>1. Firsts = {}
    BY <1>2, <1>3, FS_EmptySet
  <2>2. Top = {}
    BY <2>1, FirstsFacts
  <2>. QED BY <1>1, <2>2, FS_EmptySet
<1>4. CASE PageSize # 1
  <2>. DEFINE room == PageSize - 1
              most == Limit - 1
              c == most \div room
  <2>1. room \in Nat /\ room > 0 /\ most \in Nat /\ most + 1 = Limit
    BY <1>1, <1>4
  <2>. HIDE DEF room, most
  <2>2. c \in Nat /\ room * c <= most /\ \A n \in Nat : room * n < Limit => n <= c
    <3>1. most = room * c + (most % room) /\ most % room \in 0..(room - 1)
      BY <2>1, Z3
    <3>2. c \in Nat
      BY <2>1
    <3>. HIDE DEF c
    <3>3. ASSUME NEW n \in Nat, room * n < Limit, n > c PROVE FALSE
      <4>1. room * n >= room * (c + 1) /\ room * (c + 1) = room * c + room
        BY <2>1, <3>2, <3>3, Z3
      <4>2. room * n \in Nat /\ room * c \in Nat
        BY <2>1, <3>2
      <4>. QED BY <1>1, <2>1, <3>1, <3>3, <4>1, <4>2
    <3>4. room * c \in Nat
      BY <2>1, <3>2
    <3>. QED BY <1>1, <2>1, <3>1, <3>2, <3>3, <3>4
  <2>. HIDE DEF c
  <2>3. \A q \in Qsos : Cardinality(RowsOf(q)) <= c
    <3>1. ASSUME NEW q \in Qsos PROVE Cardinality(RowsOf(q)) \in Nat
      <4>1. RowsOf(q) \in SUBSET Ids
        BY DEF RowsOf
      <4>. QED BY <4>1, RowsAreFinite
    <3>2. ASSUME NEW q \in Qsos PROVE room * Cardinality(RowsOf(q)) < Limit
      <4>1. room * Cardinality(RowsOf(q)) \in Nat
        BY <2>1, <3>1
      <4>. QED BY <1>1, <4>1 DEF Crowds, room
    <3>. QED BY <2>2, <3>1, <3>2
  <2>4. Cardinality(Top) <= Cardinality(Firsts) * c
    BY <2>2, <2>3, TopIsSmall
  <2>5. Cardinality(Firsts) <= room
    BY <1>1, <1>2 DEF room
  <2>6. Cardinality(Firsts) * c <= room * c /\ Cardinality(Firsts) * c \in Nat /\ room * c \in Nat
    BY <1>2, <2>1, <2>2, <2>5, Z3
  <2>. QED BY <1>1, <1>2, <2>1, <2>2, <2>4, <2>6
<1>. QED BY <1>3, <1>4

(* A QSO whose latest row is not listed has it behind every listed one, and *)
(* the list is full: the page shows what is most recent.                    *)
LEMMA ListedShowsRecent ==
    ASSUME TypeOk, \A q \in Qsos : ~Crowds(q)
    PROVE  ShowsRecent(Listed)
<1>. DEFINE left == {q \in Qsos : RowsOf(q) # {}} \ {rows[i].qso : i \in Listed}
<1>1. /\ Top = {i \in Ids : Cardinality(Above(Ids, i)) < Limit}
      /\ Listed = {i \in Firsts : Cardinality(Above(Firsts, i)) < PageSize}
      /\ Firsts \in SUBSET Ids /\ Top \in SUBSET Ids /\ Listed \subseteq Firsts /\ Listed \subseteq Ids
      /\ Firsts \subseteq Top
  BY FirstsFacts
<1>2. \A i \in Listed : i = Latest(rows[i].qso)
  BY <1>1, FirstsFacts
<1>3. ASSUME NEW q \in left
      PROVE  Latest(q) \in Ids /\ Latest(q) \notin Listed /\ (Latest(q) \in Top => Latest(q) \in Firsts)
  <2>1. RowsOf(q) # {} /\ q \notin {rows[i].qso : i \in Listed}
    OBVIOUS
  <2>2. Latest(q) \in Ids /\ rows[Latest(q)].qso = q
    BY <2>1, LatestFacts
  <2>3. Latest(q) \notin Listed
    BY <2>1, <2>2
  <2>4. Latest(q) \in Top => Latest(q) \in Firsts
    BY <2>1, FirstsFacts
  <2>. QED BY <2>2, <2>3, <2>4
<1>. HIDE DEF left, Listed, Firsts, Top, Latest
<1>4. ASSUME NEW i \in Listed, NEW q \in left
      PROVE  Before(i, Latest(q))
  <2>. DEFINE l == Latest(q)
  <2>1. l \in Ids /\ i \in Ids /\ l # i /\ l \notin Listed
    BY <1>1, <1>3, <1>4
  <2>. HIDE DEF l
  <2>2. ASSUME Before(l, i) PROVE FALSE
    <3>1. l \in Firsts
      <4>1. l \in Top
        BY <1>1, <2>1, <2>2, FirstsFacts
      <4>. QED BY <1>3, <4>1 DEF l
    <3>2. Cardinality(Above(Firsts, l)) < Cardinality(Above(Firsts, i))
      BY <1>1, <1>4, <2>2, <3>1, AboveFacts
    <3>3. Cardinality(Above(Firsts, l)) \in Nat /\ Cardinality(Above(Firsts, i)) \in Nat
      BY <1>1, <1>4, <3>1, AboveFacts
    <3>4. Cardinality(Above(Firsts, i)) < PageSize
      BY <1>1, <1>4
    <3>5. Cardinality(Above(Firsts, l)) < PageSize
      BY <3>2, <3>3, <3>4, PageAssumption
    <3>. QED BY <1>1, <2>1, <3>1, <3>5
  <2>. QED BY <2>1, <2>2, BeforeIsOrder DEF l
<1>5. ASSUME left # {}
      PROVE  Cardinality(Listed) = PageSize
  <2>1. Cardinality(Listed) \in Nat /\ Cardinality(Listed) <= PageSize /\ PageSize \in Nat
    BY <1>1, RowsAreFinite, ListedFacts, PageAssumption
  <2>2. CASE Listed # Firsts
    <3>1. PageSize <= Cardinality(Listed)
      BY <1>1, <2>1, <2>2, TakesMany
    <3>. QED BY <2>1, <3>1
  <2>3. CASE Listed = Firsts
    <3>1. PICK q \in left : TRUE
      BY <1>5
    <3>2. Top # Ids
      BY <1>3, <2>3, <3>1
    <3>3. Limit <= Cardinality(Top) /\ Limit \in Nat
      BY <1>1, <3>2, TakesMany, PageAssumption
    <3>4. Cardinality(Firsts) \in Nat /\ ~(Cardinality(Firsts) < PageSize)
      BY <1>1, <3>3, RowsAreFinite, PagesFit
    <3>. QED BY <2>1, <2>3, <3>4
  <2>. QED BY <2>2, <2>3
<1>. QED BY <1>2, <1>4, <1>5 DEF ShowsRecent, left

(* The page has the most recent QSLs, and is full if any is left out, as    *)
(* long as 24 QSOs with the rows of any one do not fill the 250 (qsls).     *)
THEOREM RecentPage == Spec => PageShowsRecent
<1>. DEFINE Recent == \A p \in Pages :
              /\ qc[p] = "idle" /\ qc'[p] = "mark"
              /\ \A q \in Qsos : ~Crowds(q)
              => ShowsRecent(page'[p].rows)
<1>1. ASSUME LogbookInv, [Next]_vars PROVE Recent
  <2>. SUFFICES ASSUME NEW p \in Pages, qc[p] = "idle", qc'[p] = "mark",
                       \A q \in Qsos : ~Crowds(q)
                PROVE  ShowsRecent(page'[p].rows)
    OBVIOUS
  <2>1. TypeOk /\ qc \in [Pages -> {"idle", "mark", "commit"}] /\ page \in [Pages -> PageRecord]
    BY <1>1 DEF LogbookInv, TypeOk, Shapes
  <2>2. qc' # qc
    OBVIOUS
  <2>3. PICK r \in Pages : PageRequest(r)
    <3>1. ASSUME NEW got, NEW credited, NEW missed, Import(got, credited, missed) PROVE qc' = qc
      BY <3>1 DEF Import, pageVars
    <3>2. ASSUME NEW v \in Maps, MapRequest(v) PROVE qc' = qc
      <4>1. UNCHANGED pageVars
        BY <3>2, Zenon DEF MapRequest, OpenMap, CountRows, DrawMap, WriteMap, CloseMap
      <4>. QED BY <4>1 DEF pageVars
    <3>3. ~UNCHANGED vars
      BY <2>2 DEF vars, pageVars
    <3>. QED BY <1>1, <2>2, <3>1, <3>2, <3>3 DEF Next
  <2>4. OpenPage(r) /\ r = p
    BY <2>1, <2>3 DEF PageRequest, OpenPage, MarkUnique, CommitPage
  <2>5. page'[p].rows = Listed
    BY <2>1, <2>4 DEF OpenPage
  <2>6. ShowsRecent(Listed)
    BY <2>1, ListedShowsRecent
  <2>. QED BY <2>5, <2>6
<1>2. LogbookInv /\ [Next]_vars => [Recent]_vars
  BY <1>1
<1>. HIDE DEF Recent
<1>3. PageShowsRecent <=> [][Recent]_vars
  BY DEF PageShowsRecent, Recent
<1>. QED BY LogbookInvariant, <1>2, <1>3, PTL DEF Spec
=============================================================================
