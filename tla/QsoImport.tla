----------------------------- MODULE QsoImport ------------------------------
(***************************************************************************)
(* How the QSOs of one user get from LoTW into qso_reports                 *)
(* (app/services/qso_import.py): by a job of the executor of a web process *)
(* (app/background_jobs.py), which the QSL page starts when the data is an *)
(* hour old, or by a request that imports while the browser waits.  An     *)
(* import is four transactions: say "syncing"; read the cursor; after the  *)
(* download, store all rows and move the cursor; say "idle" or "failed".   *)
(*                                                                         *)
(* LoTW is asked for the QSLs received since the date of the last import.  *)
(* Nothing but `_running_ops`, a set in the memory of each process, keeps  *)
(* two imports apart.  The database is PostgreSQL at READ COMMITTED, and   *)
(* qso_reports has no unique key.                                          *)
(***************************************************************************)
EXTENDS Integers, Sequences, FiniteSets

CONSTANTS
    Procs,       \* web processes, each with an executor and _running_ops
    Requests,    \* requests that import synchronously
    Qsos,        \* QSOs of the user that get confirmed, by timestamp and call
    DayLength,   \* ticks of a day
    Repeats,     \* may LoTW give the row of a QSO twice in one download?
    LastTick,    \* bound: the clock
    MaxCrashes   \* bound: processes killed, statuses that could not be written

Importers == Procs \union Requests

ASSUME ImporterAssumption == Procs \intersect Requests = {}
ASSUME ClockAssumption    == DayLength \in Nat \ {0} /\ LastTick \in Nat
ASSUME RepeatsAssumption  == Repeats \in BOOLEAN /\ MaxCrashes \in Nat

VARIABLES
    clock,
    qsl,        \* LoTW: when the QSL of each confirmed QSO was received
    rows,       \* qso_reports: app_lotw_rxqsl of the rows of each QSO
    since,      \* users.qso_reports_last_update, as a day
    imported,   \* users.has_imported
    fresh,      \* qso_reports_last_update_time is less than an hour ago
    status,     \* users.qso_sync_status
    pc, job,    \* per importer: where it is, what it has read and planned
    page,       \* what the browser of the user shows
    slipped,    \* history: QSLs that are not stored and were received after the
                \* download of an import and on an earlier day than its end,
                \* or whose row got the older date of an overlapping import
    orphaned,   \* history: an import was killed, or ended unable to write its
                \* status, and none has started since
    overtaken,  \* history: imports since whose first reading another committed
    crashes     \* bound counter

userVars == <<since, imported, fresh, status>>
runVars  == <<pc, job>>
history  == <<slipped, orphaned, overtaken>>
vars     == <<clock, qsl, rows, userVars, runVars, page, history, crashes>>

-----------------------------------------------------------------------------
DayOf(t) == t \div DayLength

None == [q \in {} |-> 0]

(* What an import knows.  got: the QSLs it downloaded; todo: the groups of  *)
(* 200 rows still to store; added, fixed: rows to insert, to update.        *)
NoJob == [since |-> -1, imported |-> FALSE, at |-> 0, got |-> None, todo |-> <<>>,
          added |-> [q \in Qsos |-> 0], fixed |-> [q \in Qsos |-> {}]]

Working == {"read", "download", "store", "finish", "fail"}

(* Mutants are what the code, or LoTW, would be after a plausible slip; each *)
(* one must break a property.  Here QSLs of the very day asked for are left  *)
(* out.                                                                     *)
ReportAfter(day) == [q \in {p \in DOMAIN qsl : DayOf(qsl[p]) > day} |-> qsl[q]]

(* LoTW's answer to qso_qslsince.                                           *)
Report(day) == [q \in {p \in DOMAIN qsl : DayOf(qsl[p]) >= day} |-> qsl[q]]

(* The downloaded rows in groups of 200: one, or two.  A group is a set:    *)
(* rows of one QSO collapse within it, and may come back in the other.      *)
Groups(S) == {<<S>>} \union
             {g \in (SUBSET S \ {{}}) \X (SUBSET S \ {{}}) :
                /\ g[1] \union g[2] = S
                /\ ~Repeats => g[1] \intersect g[2] = {}}

HasDate(dates, t) == \E i \in DOMAIN dates : dates[i] = t
Stored(q) == HasDate(rows[q], qsl[q])

Copies(n, t) == [i \in 1..n |-> t]

-----------------------------------------------------------------------------
Dates == UNION {[S -> 0..LastTick] : S \in SUBSET Qsos}
Days  == -1..DayOf(LastTick)
Job   == [since : Days, imported : BOOLEAN, at : 0..LastTick, got : Dates, todo : Seq(SUBSET Qsos),
          added : [Qsos -> Nat], fixed : [Qsos -> SUBSET Nat]]

TypeOk ==
    /\ clock \in 0..LastTick
    /\ qsl \in Dates
    /\ rows \in [Qsos -> Seq(0..LastTick)]
    /\ since \in Days /\ imported \in BOOLEAN /\ fresh \in BOOLEAN
    /\ status \in {"idle", "syncing", "failed"}
    /\ pc \in [Importers -> Working \union {"idle", "queued", "done"}]
    /\ job \in [Importers -> Job]
    /\ \A r \in Importers, q \in Qsos : job[r].fixed[q] \subseteq DOMAIN rows[q]
    /\ page \in {"away", "importing", "asked", "followed", "reloading", "still"}
    /\ slipped \subseteq Qsos /\ orphaned \in BOOLEAN /\ overtaken \subseteq Importers
    /\ crashes \in 0..MaxCrashes

Init ==
    /\ clock = 0 /\ qsl = None
    /\ rows = [q \in Qsos |-> <<>>]
    /\ since = -1 /\ imported = FALSE /\ fresh = FALSE /\ status = "idle"
    /\ pc = [r \in Importers |-> "idle"] /\ job = [r \in Importers |-> NoJob]
    /\ page = "away"
    /\ slipped = {} /\ orphaned = FALSE /\ overtaken = {} /\ crashes = 0

-----------------------------------------------------------------------------
(* One import.                                                              *)

Becomes(r, place) == pc' = [pc EXCEPT ![r] = place]

(* enqueue_qso_import in process p: refused while p has one for this user.  *)
Enqueue(p) == pc' = IF pc[p] = "idle" THEN [pc EXCEPT ![p] = "queued"] ELSE pc

(* A request that imports synchronously asks nobody.                        *)
RequestImport(r) ==
    /\ r \in Requests /\ pc[r] = "idle"
    /\ Becomes(r, "queued")
    /\ UNCHANGED <<clock, qsl, rows, userVars, job, page, history, crashes>>

(* _set_qso_sync_state("syncing").                                          *)
Begin(r) ==
    /\ pc[r] = "queued"
    /\ status' = "syncing" /\ orphaned' = FALSE
    /\ Becomes(r, "read")
    /\ UNCHANGED <<clock, qsl, rows, since, imported, fresh, job, page, slipped, overtaken, crashes>>

Read(r) ==
    /\ pc[r] = "read"
    /\ job' = [job EXCEPT ![r].since = since, ![r].imported = imported]
    /\ overtaken' = overtaken \ {r}
    /\ Becomes(r, "download")
    /\ UNCHANGED <<clock, qsl, rows, userVars, page, slipped, orphaned, crashes>>

Download(r) ==
    /\ pc[r] = "download"
    /\ LET got == Report(job[r].since) IN
         \E g \in Groups(DOMAIN got) :
           job' = [job EXCEPT ![r].got = got, ![r].todo = g, ![r].at = clock]
    /\ Becomes(r, "store")
    /\ UNCHANGED <<clock, qsl, rows, userVars, page, history, crashes>>

(* The rows of a QSO that the dictionary of existing rows may keep; 0 is    *)
(* one that this import has added and not committed.                        *)
Existing(j, q) == {i \in 0..Len(rows[q]) : i = 0 => j.added[q] > 0}

(* _add_reports_to_db for one group.  Only an import that found             *)
(* has_imported looks for existing rows, its own unflushed ones included;   *)
(* of several rows of a QSO the dictionary keeps any one.                   *)
StoreGroup(r) ==
    LET j     == job[r]
        group == Head(j.todo)
        found == {q \in group : j.imported /\ Existing(j, q) # {}}
    IN
    /\ pc[r] = "store" /\ j.todo # <<>>
    /\ \E pick \in [found -> UNION {Existing(j, q) : q \in found}] :
         /\ \A q \in found : pick[q] \in Existing(j, q)
         /\ LET changed == {q \in found : pick[q] # 0 /\ rows[q][pick[q]] # j.got[q]} IN
              job' = [job EXCEPT
                ![r].todo  = Tail(j.todo),
                ![r].added = [q \in Qsos |-> IF q \in group \ found THEN j.added[q] + 1 ELSE j.added[q]],
                ![r].fixed = [q \in Qsos |-> IF q \in changed THEN j.fixed[q] \union {pick[q]}
                                                             ELSE j.fixed[q]]]
    /\ UNCHANGED <<clock, qsl, rows, userVars, pc, page, history, crashes>>

(* The rows of a QSO when the transaction of an import has updated some and *)
(* inserted others.                                                         *)
Written(j, q) == [i \in DOMAIN rows[q] |-> IF i \in j.fixed[q] THEN j.got[q] ELSE rows[q][i]]
                   \o Copies(j.added[q], j.got[q])

(* The two ways in which an import may leave a QSL behind: received between *)
(* its download and a midnight before its end; stored, and overwritten with *)
(* the date that the import had downloaded before.                          *)
Late(j, q)     == qsl[q] >= j.at /\ DayOf(qsl[q]) < DayOf(clock)
Reverted(j, q) == Stored(q) /\ q \in DOMAIN j.got /\ j.got[q] # qsl[q]
Slips(j) == {q \in DOMAIN qsl : /\ ~HasDate(Written(j, q), qsl[q])
                                /\ q \in slipped \/ Late(j, q) \/ Reverted(j, q)}

(* Mutant: has_imported is not set.                                         *)
CommitForgets(r) ==
    LET j == job[r] IN
    /\ pc[r] = "store" /\ j.todo = <<>>
    /\ rows' = [q \in Qsos |-> Written(j, q)]
    /\ since' = DayOf(clock) /\ fresh' = TRUE
    /\ Becomes(r, "finish")
    /\ job' = [job EXCEPT ![r] = NoJob]
    /\ UNCHANGED <<clock, qsl, imported, status, page, history, crashes>>

(* The transaction commits the rows together with the cursor, which is the  *)
(* date on which it ends.                                                   *)
Commit(r) ==
    LET j == job[r] IN
    /\ pc[r] = "store" /\ j.todo = <<>>
    /\ rows' = [q \in Qsos |-> Written(j, q)]
    /\ since' = DayOf(clock) /\ imported' = TRUE /\ fresh' = TRUE
    /\ slipped' = Slips(j)
    /\ overtaken' = (overtaken \ {r}) \union
                    {o \in Importers \ {r} : pc[o] \in {"download", "store"}}
    /\ Becomes(r, "finish")
    /\ job' = [job EXCEPT ![r] = NoJob]
    /\ UNCHANGED <<clock, qsl, status, page, orphaned, crashes>>

(* Mutant: a status no reader knows.                                        *)
SettleUnknown(r) ==
    /\ pc[r] = "finish"
    /\ status' = "finished"
    /\ Becomes(r, "done")
    /\ UNCHANGED <<clock, qsl, rows, since, imported, fresh, job, page, history, crashes>>

(* _set_qso_sync_state("idle").                                             *)
Settle(r) ==
    /\ pc[r] = "finish"
    /\ status' = "idle"
    /\ Becomes(r, "done")
    /\ UNCHANGED <<clock, qsl, rows, since, imported, fresh, job, page, history, crashes>>

(* LoTW refuses, limits or cannot be reached, the file does not parse, or   *)
(* the database fails: the transaction is rolled back.                      *)
Fail(r) ==
    /\ pc[r] \in {"read", "download", "store", "finish"}
    /\ Becomes(r, "fail")
    /\ job' = [job EXCEPT ![r] = NoJob]
    /\ UNCHANGED <<clock, qsl, rows, userVars, page, history, crashes>>

(* Mutant: the exception passes on without a word.                          *)
SettleSilently(r) ==
    /\ pc[r] = "fail"
    /\ Becomes(r, "done")
    /\ UNCHANGED <<clock, qsl, rows, userVars, job, page, history, crashes>>

(* _set_qso_sync_state("failed").                                           *)
SettleFailed(r) ==
    /\ pc[r] = "fail"
    /\ status' = "failed"
    /\ Becomes(r, "done")
    /\ UNCHANGED <<clock, qsl, rows, since, imported, fresh, job, page, history, crashes>>

(* The database fails while the status is written: before the `try`, or     *)
(* inside the `except` that answers another failure.  The status stays.     *)
StatusFails(r) ==
    /\ pc[r] \in {"queued", "fail"}
    /\ crashes < MaxCrashes /\ crashes' = crashes + 1
    /\ orphaned' = (orphaned \/ pc[r] = "fail")
    /\ Becomes(r, "done")
    /\ UNCHANGED <<clock, qsl, rows, userVars, job, page, slipped, overtaken>>

(* The answer is sent, or the done callback clears _running_ops.            *)
End(r) ==
    /\ pc[r] = "done"
    /\ Becomes(r, "idle")
    /\ UNCHANGED <<clock, qsl, rows, userVars, job, page, history, crashes>>

(* The process is killed.  Nothing resets qso_sync_status.                  *)
Crash(r) ==
    /\ pc[r] # "idle"
    /\ crashes < MaxCrashes /\ crashes' = crashes + 1
    /\ orphaned' = (orphaned \/ pc[r] \in Working)
    /\ Becomes(r, "idle")
    /\ job' = [job EXCEPT ![r] = NoJob]
    /\ UNCHANGED <<clock, qsl, rows, userVars, page, slipped, overtaken>>

-----------------------------------------------------------------------------
(* The browser.                                                             *)

(* login, for a user without an import: the "Importing data" page.          *)
Login ==
    /\ page = "away" /\ ~imported
    /\ page' = "importing"
    /\ UNCHANGED <<clock, qsl, rows, userVars, runVars, history, crashes>>

(* Its script asks /api/v1/import_qsos_data?async=true.                     *)
AskImport(p) ==
    /\ page = "importing"
    /\ Enqueue(p)
    /\ page' = "asked"
    /\ UNCHANGED <<clock, qsl, rows, userVars, job, history, crashes>>

(* Mutant: no import is started while the status says that one runs.        *)
RefreshUnlessSyncing(p, forced) ==
    IF (~fresh \/ forced) /\ status # "syncing" THEN Enqueue(p) ELSE UNCHANGED pc

(* GET /qsls in process p starts an import if the data is old or the user   *)
(* asks for it.                                                             *)
Refresh(p, forced) == IF ~fresh \/ forced THEN Enqueue(p) ELSE UNCHANGED pc

(* The redirect of that request is followed before the page moves on.       *)
Follow(p) ==
    /\ page = "asked"
    /\ Refresh(p, FALSE)
    /\ page' = "followed"
    /\ UNCHANGED <<clock, qsl, rows, userVars, job, history, crashes>>

(* The QSL page shows the status read at the start of the request; it loads *)
(* itself again in 15 seconds only if that is "syncing".                    *)
Shows == IF status = "syncing" THEN "reloading" ELSE "still"

Visit(p, forced) ==
    /\ page \in {"away", "followed", "still"}
    /\ Refresh(p, forced)
    /\ page' = Shows
    /\ UNCHANGED <<clock, qsl, rows, userVars, job, history, crashes>>

Reload(p) ==
    /\ page = "reloading"
    /\ Refresh(p, FALSE)
    /\ page' = Shows
    /\ UNCHANGED <<clock, qsl, rows, userVars, job, history, crashes>>

Leave ==
    /\ page # "away"
    /\ page' = "away"
    /\ UNCHANGED <<clock, qsl, rows, userVars, runVars, history, crashes>>

-----------------------------------------------------------------------------
(* LoTW and time.                                                           *)

(* LoTW receives a QSL, or receives it again.                               *)
Confirm(q) ==
    /\ q \in DOMAIN qsl => qsl[q] # clock
    /\ qsl' = [p \in DOMAIN qsl \union {q} |-> IF p = q THEN clock ELSE qsl[p]]
    /\ slipped' = slipped \ {q}
    /\ UNCHANGED <<clock, rows, userVars, runVars, page, orphaned, overtaken, crashes>>

Tick ==
    /\ clock < LastTick /\ clock' = clock + 1
    /\ UNCHANGED <<qsl, rows, userVars, runVars, page, history, crashes>>

(* An hour has passed since the last import.                                *)
GrowOld ==
    /\ fresh /\ fresh' = FALSE
    /\ UNCHANGED <<clock, qsl, rows, since, imported, status, runVars, page, history, crashes>>

Import(r) == \/ Begin(r) \/ Read(r) \/ Download(r) \/ StoreGroup(r) \/ Commit(r)
             \/ Settle(r) \/ Fail(r) \/ SettleFailed(r) \/ StatusFails(r) \/ End(r)
Browse    == \/ Login \/ Leave
             \/ \E p \in Procs : \/ AskImport(p) \/ Follow(p) \/ Reload(p)
                                \/ \E forced \in BOOLEAN : Visit(p, forced)

Next == \/ \E r \in Importers : Import(r) \/ Crash(r) \/ RequestImport(r)
        \/ Browse
        \/ \E q \in Qsos : Confirm(q)
        \/ Tick \/ GrowOld

Spec == Init /\ [][Next]_vars

(* A process that runs goes on, an open page that reloads itself does so,   *)
(* and hours pass.  Nothing makes users act, LoTW answer or QSLs come.      *)
FairSpec == /\ Spec
            /\ \A r \in Importers : WF_vars(Import(r))
            /\ WF_vars(\E p \in Procs : Reload(p))
            /\ WF_vars(GrowOld)

-----------------------------------------------------------------------------
(* Properties.                                                              *)

(* The cursor never passes over a QSL: one received on a day before the     *)
(* cursor is in the table with its latest date, whatever imports fail, die  *)
(* or run together.  The exceptions are the code's: an import that          *)
(* downloads before midnight (UTC) and ends after it skips what came in     *)
(* between, and an import that overlaps later ones may put an older date    *)
(* back over the one that they stored, or found stored.                     *)
CaughtUp == \A q \in DOMAIN qsl :
    DayOf(qsl[q]) < since => Stored(q) \/ q \in slipped

(* A QSO that has a row gets another only from an import that another one   *)
(* overtook, by committing after it had read has_imported: over failed and  *)
(* killed imports and downloads of the same days, no import repeats what    *)
(* is stored.  A QSO without a row gets more than one only on the very      *)
(* first import, when LoTW repeats its row in another group of 200.         *)
OneRowPerQso == [][\A q \in Qsos : Len(rows'[q]) > Len(rows[q]) /\ Len(rows'[q]) > 1 =>
    \E r \in Importers :
        /\ pc[r] = "store" /\ pc'[r] = "finish"
        /\ r \in overtaken \/ (Repeats /\ ~job[r].imported /\ rows[q] = <<>>)]_vars

(* "syncing" is shown only while some import of the user runs, or after one *)
(* was killed, or could not write its status, and before another started.   *)
SyncingIsTrue == status = "syncing" => orphaned \/ \E r \in Importers : pc[r] \in Working

(* No request imports beside the process from some time on.                 *)
Quiet == <>[](\A r \in Requests : pc[r] = "idle")

(* One process: the QSL page that reloads itself stops doing so, even if    *)
(* the import it waits for is killed or cannot write its status: a reload   *)
(* restarts it when the data is old.  (Imports that fail in turn in two     *)
(* processes, or in one and in requests that go on coming, can keep the     *)
(* page at it.)                                                             *)
ReloadEnds == Quiet => (page = "reloading" ~> page # "reloading")
=============================================================================
