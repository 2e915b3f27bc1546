------------------------------ MODULE Logbook -------------------------------
(***************************************************************************)
(* What the pages make of the rows of one user in qso_reports, while an    *)
(* import adds to them: the map (app/blueprints/api/get_map_data.py),      *)
(* which keeps its last picture in the users row beside the number of QSOs *)
(* it was drawn from, and the page of recent QSLs                          *)
(* (app/blueprints/awards/qsls.py), which hides second rows of a QSO,      *)
(* marks those that would fill an open DXCC slot, and remembers what it    *)
(* has shown.                                                              *)
(*                                                                         *)
(* A request is one transaction at READ COMMITTED: each statement sees the *)
(* rows of its own moment, and only the columns that differ from what was  *)
(* loaded are written at its end.  Rows are added, never deleted.          *)
(***************************************************************************)
EXTENDS Integers, Sequences, FiniteSets, SequencesExt

CONSTANTS
    Maps, Pages,  \* requests for the map, for the page of QSLs
    Qsos,         \* QSOs, by timestamp and call
    Located,      \* those with latitude and longitude
    Entity, Band, Mode,    \* dxcc, band and mode of each QSO
    NoEntity,     \* dxcc of a QSO without one
    ModeGroup,    \* the group of each mode in _CW, _PHONE_TYPES, _DIGITAL_TYPES
    Limit,        \* 250
    PageSize,     \* 25
    MaxRows, MaxBatch, MaxTime, MaxFixes    \* bounds: rows, QSOs of an import,
                  \* values of app_lotw_rxqsl, imports that change it

ASSUME QsosAssumption   == IsFiniteSet(Qsos) /\ Located \subseteq Qsos
ASSUME PageAssumption   == Limit \in Nat /\ PageSize \in Nat \ {0} /\ PageSize <= Limit
ASSUME BoundAssumption  == MaxRows \in Nat /\ MaxBatch \in Nat /\ MaxTime \in Nat /\ MaxFixes \in Nat

VARIABLES
    rows,        \* qso_reports in the order of their ids
    picture,     \* users.map_data
    count,       \* users.map_data_count
    mc, map,     \* per map request: where it is, what it knows
    qc, page,    \* per page request: where it is, what it knows
    alone,       \* history: map requests that no other has run beside
    mixed,       \* history: since a lone request last drew, a forced one has
                 \* run beside another
    news,        \* history: the QSOs that a page has shown as new
    fixes        \* bound counter

mapVars  == <<picture, count, mc, map, alone, mixed>>
pageVars == <<qc, page, news>>
vars     == <<rows, mapVars, pageVars, fixes>>

-----------------------------------------------------------------------------
Ids     == DOMAIN rows
RowsOf(q) == {i \in Ids : rows[i].qso = q}
OnMap   == {i \in Ids : rows[i].qso \in Located}

(* marker_locations: the QSOs on the map, the latest QSL first.  No picture *)
(* and an empty one are drawn again alike.                                  *)
Drawing == [i \in OnMap |-> Cardinality({k \in OnMap : rows[k].rx > rows[i].rx})]
Blank   == [i \in {} |-> 0]
Size(p) == Cardinality(DOMAIN p)

(* known: the rows on the map when the request came.                        *)
NoMap  == [force |-> FALSE, known |-> {}, picture |-> Blank, count |-> 0, drawn |-> Blank]
NoPage == [rows |-> {}, new |-> {}, marked |-> {}, before |-> {}]

Row == [qso : Qsos, rx : 1..MaxTime, credit : BOOLEAN, seen : BOOLEAN]

TypeOk ==
    /\ rows \in Seq(Row)
    /\ DOMAIN picture \subseteq Nat /\ count \in Nat
    /\ mc \in [Maps -> {"idle", "count", "draw", "write", "served"}]
    /\ \A v \in Maps :
         /\ map[v].force \in BOOLEAN /\ map[v].known \subseteq Nat /\ map[v].count \in Nat
         /\ DOMAIN map[v].picture \subseteq Nat /\ DOMAIN map[v].drawn \subseteq Nat
    /\ qc \in [Pages -> {"idle", "mark", "commit"}]
    /\ \A p \in Pages :
         /\ page[p].rows \subseteq Ids /\ Cardinality(page[p].rows) <= PageSize
         /\ page[p].new \subseteq Ids /\ page[p].marked \subseteq Ids
    /\ alone \subseteq Maps /\ mixed \in BOOLEAN /\ news \subseteq Qsos
    /\ fixes \in 0..MaxFixes

Init ==
    /\ rows = <<>> /\ picture = Blank /\ count = 0
    /\ mc = [v \in Maps |-> "idle"] /\ map = [v \in Maps |-> NoMap]
    /\ qc = [p \in Pages |-> "idle"] /\ page = [p \in Pages |-> NoPage]
    /\ alone = {} /\ mixed = FALSE /\ news = {} /\ fixes = 0

-----------------------------------------------------------------------------
(* An import, as _add_reports_to_db leaves it: of a QSO it finds, the QSL   *)
(* date of one row follows LoTW and nothing else does; others get a row,    *)
(* and so do those that another import has stored since it looked.          *)
Import(got, credited, missed) ==
    LET found == {q \in DOMAIN got \ missed : RowsOf(q) # {}} IN
    /\ missed \subseteq {q \in DOMAIN got : RowsOf(q) # {}} /\ credited \subseteq DOMAIN got \ found
    /\ \E fixed \in SUBSET Ids, added \in SetToSeqs(DOMAIN got \ found) :
         /\ Len(rows) + Len(added) <= MaxRows
         /\ \A q \in found : Cardinality(fixed \intersect RowsOf(q)) = 1
         /\ \A i \in fixed : rows[i].qso \in found
         /\ rows' = [i \in Ids |-> IF i \in fixed THEN [rows[i] EXCEPT !.rx = got[rows[i].qso]] ELSE rows[i]]
                      \o [k \in DOMAIN added |-> [qso |-> added[k], rx |-> got[added[k]],
                                                  credit |-> added[k] \in credited, seen |-> FALSE]]
         /\ fixes' = IF \E i \in fixed : rows[i].rx # got[rows[i].qso] THEN fixes + 1 ELSE fixes
         /\ fixes' <= MaxFixes
    /\ UNCHANGED <<mapVars, pageVars>>

-----------------------------------------------------------------------------
(* The map.                                                                 *)

(* The user is loaded, with the stored picture.                             *)
OpenMap(v, force) ==
    /\ mc[v] = "idle"
    /\ mc' = [mc EXCEPT ![v] = "count"]
    /\ map' = [map EXCEPT ![v] = [NoMap EXCEPT !.force = force, !.known = OnMap,
                                               !.picture = picture, !.count = count]]
    /\ LET others == {u \in Maps \ {v} : mc[u] # "idle"} IN
       /\ alone' = IF others = {} THEN {v} ELSE {}
       /\ mixed' = (mixed \/ \E u \in others : force \/ map[u].force)
    /\ UNCHANGED <<rows, picture, count, pageVars, fixes>>

Current(v) == /\ map[v].count = Cardinality(OnMap)
              /\ ~map[v].force /\ map[v].picture # Blank

Served(v, drawn) == [NoMap EXCEPT !.force = map[v].force, !.known = map[v].known, !.drawn = drawn]

(* The rows are counted, and the stored picture is served if it was drawn   *)
(* from as many; nothing is written then.                                   *)
CountRows(v) ==
    /\ mc[v] = "count"
    /\ IF Current(v)
       THEN /\ mc' = [mc EXCEPT ![v] = "served"]
            /\ map' = [map EXCEPT ![v] = Served(v, map[v].picture)]
       ELSE /\ mc' = [mc EXCEPT ![v] = "draw"]
            /\ UNCHANGED map
    /\ UNCHANGED <<rows, picture, count, alone, mixed, pageVars, fixes>>

(* The rows are read, by then perhaps more.                                 *)
DrawMap(v) ==
    /\ mc[v] = "draw"
    /\ mc' = [mc EXCEPT ![v] = "write"]
    /\ map' = [map EXCEPT ![v].drawn = Drawing]
    /\ UNCHANGED <<rows, picture, count, alone, mixed, pageVars, fixes>>

Column(loaded, new, stored) == IF new = loaded THEN stored ELSE new

(* Mutants are what the code would be after a plausible slip; each one must *)
(* break a property.  Here the rows are counted again for the new picture.  *)
WriteRecount(v) ==
    /\ mc[v] = "write"
    /\ mc' = [mc EXCEPT ![v] = "served"]
    /\ picture' = Column(map[v].picture, map[v].drawn, picture)
    /\ count' = Column(map[v].count, Cardinality(OnMap), count)
    /\ mixed' = (mixed /\ v \notin alone)
    /\ map' = [map EXCEPT ![v] = Served(v, map[v].drawn)]
    /\ UNCHANGED <<rows, alone, pageVars, fixes>>

WriteMap(v) ==
    /\ mc[v] = "write"
    /\ mc' = [mc EXCEPT ![v] = "served"]
    /\ picture' = Column(map[v].picture, map[v].drawn, picture)
    /\ count' = Column(map[v].count, Size(map[v].drawn), count)
    /\ mixed' = (mixed /\ v \notin alone)
    /\ map' = [map EXCEPT ![v] = Served(v, map[v].drawn)]
    /\ UNCHANGED <<rows, alone, pageVars, fixes>>

CloseMap(v) ==
    /\ mc[v] = "served"
    /\ mc' = [mc EXCEPT ![v] = "idle"] /\ map' = [map EXCEPT ![v] = NoMap]
    /\ alone' = alone \ {v}
    /\ UNCHANGED <<rows, picture, count, mixed, pageVars, fixes>>

-----------------------------------------------------------------------------
(* The page of recent QSLs.                                                 *)

(* order_by(app_lotw_rxqsl.desc(), id.desc())                               *)
Before(i, k) == rows[i].rx > rows[k].rx \/ (rows[i].rx = rows[k].rx /\ i > k)
Rank(i) == Cardinality({k \in Ids : Before(k, i)})

(* Mutant: no more rows are read than the page holds.                       *)
TopPage == {i \in Ids : Rank(i) < PageSize}
Top     == {i \in Ids : Rank(i) < Limit}

(* get_25_most_recent_rxqsls: the first row of each QSO among those.        *)
Firsts == {i \in Top : \A k \in Top : Before(k, i) => rows[k].qso # rows[i].qso}
(* Mutant: the page is full one QSO too late.                               *)
ListedOneMore == {i \in Firsts : Cardinality({k \in Firsts : Before(k, i)}) <= PageSize}
Listed == {i \in Firsts : Cardinality({k \in Firsts : Before(k, i)}) < PageSize}

(* check_unique_qsos_bulk: a mode in no list counts as digital.             *)
GroupOf(q)   == IF Mode[q] \in DOMAIN ModeGroup THEN ModeGroup[Mode[q]] ELSE "digital"
Credited(e)  == {i \in Ids : rows[i].credit /\ e # NoEntity /\ Entity[rows[i].qso] = e}

Unique(ids) == {i \in ids :
    LET q == rows[i].qso
        others == Credited(Entity[q])
    IN  \/ \A k \in others : Band[rows[k].qso] # Band[q]
        \/ \A k \in others : GroupOf(rows[k].qso) # GroupOf(q)}

OpenPage(p) ==
    /\ qc[p] = "idle"
    /\ qc' = [qc EXCEPT ![p] = "mark"]
    /\ page' = [page EXCEPT ![p] = [rows |-> Listed, new |-> {i \in Listed : ~rows[i].seen},
                                    marked |-> {}, before |-> news]]
    /\ UNCHANGED <<rows, mapVars, news, fixes>>

MarkUnique(p) ==
    /\ qc[p] = "mark"
    /\ qc' = [qc EXCEPT ![p] = "commit"]
    /\ page' = [page EXCEPT ![p].marked = Unique(page[p].rows)]
    /\ UNCHANGED <<rows, mapVars, news, fixes>>

(* Mutant: only what has been marked counts as seen.                        *)
CommitMarked(p) ==
    /\ qc[p] = "commit"
    /\ qc' = [qc EXCEPT ![p] = "idle"] /\ page' = [page EXCEPT ![p] = NoPage]
    /\ rows' = [i \in Ids |-> [rows[i] EXCEPT !.seen = @ \/ i \in page[p].marked]]
    /\ news' = news \union {rows[i].qso : i \in page[p].new}
    /\ UNCHANGED <<mapVars, fixes>>

(* The page is rendered and what it shows is seen.                          *)
CommitPage(p) ==
    /\ qc[p] = "commit"
    /\ qc' = [qc EXCEPT ![p] = "idle"] /\ page' = [page EXCEPT ![p] = NoPage]
    /\ rows' = [i \in Ids |-> [rows[i] EXCEPT !.seen = @ \/ i \in page[p].rows]]
    /\ news' = news \union {rows[i].qso : i \in page[p].new}
    /\ UNCHANGED <<mapVars, fixes>>

-----------------------------------------------------------------------------
MapRequest(v)  == (\E force \in BOOLEAN : OpenMap(v, force))
                     \/ CountRows(v) \/ DrawMap(v) \/ WriteMap(v) \/ CloseMap(v)
PageRequest(p) == OpenPage(p) \/ MarkUnique(p) \/ CommitPage(p)

Next == \/ \E S \in {S \in SUBSET Qsos : Cardinality(S) \in 1..MaxBatch} : \E credited \in SUBSET S, missed \in SUBSET S :
              \E got \in [S -> 1..MaxTime] : Import(got, credited, missed)
        \/ \E v \in Maps : MapRequest(v)
        \/ \E p \in Pages : PageRequest(p)

Spec == Init /\ [][Next]_vars

-----------------------------------------------------------------------------
(* Properties.                                                              *)

(* A served map has every located QSO that was stored when the request      *)
(* came, whatever imports and other requests do meanwhile, as long as no    *)
(* request with force_reload runs beside another: that one may store its    *)
(* picture under the count of a later one.  The next lone drawing ends this. *)
MapIsComplete == \A v \in Maps :
    mc[v] = "served" /\ ~mixed => map[v].known \subseteq DOMAIN map[v].drawn

(* "25 Most Recent QSLs" (the title of the page): no QSO that is left out   *)
(* has a later QSL than one that is shown, and none is left out of a page   *)
(* with room, unless 24 QSOs with as many rows as one of them has fill the  *)
(* 250 rows that are read.                                                  *)
Latest(q) == CHOOSE i \in RowsOf(q) : \A k \in RowsOf(q) : ~Before(k, i)
ShowsRecent(shown) ==
    LET left == {q \in Qsos : RowsOf(q) # {}} \ {rows[i].qso : i \in shown}
    IN  /\ \A i \in shown : i = Latest(rows[i].qso)
        /\ left # {} => Cardinality(shown) = PageSize
        /\ \A i \in shown, q \in left : Before(i, Latest(q))
Crowds(q) == Limit <= (PageSize - 1) * Cardinality(RowsOf(q))
PageShowsRecent == [][\A p \in Pages :
    /\ qc[p] = "idle" /\ qc'[p] = "mark"
    /\ \A q \in Qsos : ~Crowds(q)
    => ShowsRecent(page'[p].rows)]_vars

(* A QSL is shown as new once: a later page shows it as new again only if   *)
(* the QSO has a second row.                                                *)
NewOnce == \A p \in Pages : \A i \in page[p].new :
    rows[i].qso \in page[p].before => Cardinality(RowsOf(rows[i].qso)) > 1
=============================================================================
