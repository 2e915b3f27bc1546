--------------------------- MODULE QsoImportProofs ---------------------------
(***************************************************************************)
(* Proofs about QsoImport, for any number of processes and requests that   *)
(* import at once, any QSOs, and days of any length.                       *)
(***************************************************************************)
EXTENDS QsoImport, SequenceTheorems, TLAPS

(* What an import has not read yet it does not know.                        *)
FreshJobs == \A r \in Importers : pc[r] # "store" =>
    job[r] = [NoJob EXCEPT !.since = job[r].since, !.imported = job[r].imported]

(* The cursor only grows, with the clock.                                   *)
CursorIsPast == /\ since <= DayOf(clock)
                /\ \A r \in Importers : job[r].since <= since

(* What an import is to store, it has downloaded.                           *)
StoresDownload == \A r \in Importers : pc[r] = "store" =>
    /\ job[r].at <= clock
    /\ \A i \in DOMAIN job[r].todo : job[r].todo[i] \subseteq DOMAIN job[r].got
    /\ \A q \in Qsos : job[r].added[q] > 0 \/ job[r].fixed[q] # {} => q \in DOMAIN job[r].got

(* A QSL that was there at the download of an import, and not before what   *)
(* it asked for, will be stored by it unless it is stored or has slipped.   *)
Pending(j, q) == \/ \E i \in DOMAIN j.todo : q \in j.todo[i]
                 \/ j.added[q] > 0
                 \/ j.fixed[q] # {}
Covered(j, q) == \/ qsl[q] >= j.at
                 \/ DayOf(qsl[q]) < j.since
                 \/ /\ q \in DOMAIN j.got /\ j.got[q] = qsl[q]
                    /\ Pending(j, q) \/ Stored(q) \/ q \in slipped
DownloadCovers == \A r \in Importers : pc[r] = "store" =>
    \A q \in DOMAIN qsl : Covered(job[r], q)

(* What keeps rows apart: before the first import has ended nothing is      *)
(* stored; an import that none has overtaken knows whether that is so, and  *)
(* inserts a QSO only if it has no row; none inserts one twice but a first  *)
(* import, when the row is repeated.                                        *)
RowsInv ==
    /\ ~imported => \A q \in Qsos : rows[q] = <<>>
    /\ \A r \in Importers : pc[r] \in {"download", "store"} /\ r \notin overtaken =>
         job[r].imported = imported
    /\ \A r \in Importers, q \in Qsos : pc[r] = "store" =>
         /\ r \notin overtaken /\ job[r].imported /\ job[r].added[q] > 0 => rows[q] = <<>>
         /\ job[r].imported \/ ~Repeats => job[r].added[q] <= 1
         /\ ~Repeats => \A i \in DOMAIN job[r].todo : q \in job[r].todo[i] =>
              /\ job[r].added[q] = 0
              /\ \A k \in DOMAIN job[r].todo : q \in job[r].todo[k] => k = i

ImportInv == /\ TypeOk /\ FreshJobs /\ CursorIsPast /\ StoresDownload /\ DownloadCovers
             /\ CaughtUp /\ SyncingIsTrue

-----------------------------------------------------------------------------
(* Facts about days, dates and rows.                                        *)

(* Days are numbered in the order of time.                                  *)
LEMMA DayFacts ==
  ASSUME NEW s \in Nat, NEW t \in Nat
  PROVE  /\ DayOf(t) \in Nat
         /\ s <= t => DayOf(s) <= DayOf(t)
<1> DEFINE m == s \div DayLength
           n == t \div DayLength
<1>1. m \in Nat /\ n \in Nat /\ DayLength \in Nat /\ DayLength > 0
  BY ClockAssumption
<1>2. DayLength * m <= s /\ t < DayLength * (n + 1)
  BY <1>1, ClockAssumption, Z3
<1>3. ASSUME n < m PROVE t < s
  <2>1. n + 1 <= m
    BY <1>1, <1>3
  <2>2. DayLength * (n + 1) <= DayLength * m
    BY <1>1, <2>1, Z3
  <2>. QED BY <1>1, <1>2, <2>2, Z3
<1>. QED BY <1>1, <1>3 DEF DayOf

(* Dates of some QSOs.                                                      *)
LEMMA DatesFacts ==
  ASSUME NEW f
  PROVE  f \in Dates <=> /\ DOMAIN f \subseteq Qsos
                         /\ f \in [DOMAIN f -> 0..LastTick]
  BY DEF Dates

(* An import that knows nothing is well-formed.                             *)
LEMMA NoJobType == NoJob \in Job
<1>1. None \in Dates
  BY DEF Dates, None
<1>2. -1 \in Days /\ 0 \in 0..LastTick /\ LastTick \in Nat
  BY ClockAssumption, DayFacts DEF Days
<1>3. <<>> \in Seq(SUBSET Qsos)
  OBVIOUS
<1>. QED BY <1>1, <1>2, <1>3 DEF NoJob, Job

(* A function on 1..n is a sequence of length n.                            *)
LEMMA FcnIsSeq ==
  ASSUME NEW S, NEW n \in Nat, NEW f \in [1..n -> S]
  PROVE  f \in Seq(S) /\ Len(f) = n /\ DOMAIN f = 1..n
  BY SeqDef, LenProperties

(* What an import leaves in the rows of a QSO: those that were there, some  *)
(* with the date it downloaded, then the new ones, all with that date.      *)
LEMMA WrittenFacts ==
  ASSUME TypeOk, NEW r \in Importers, NEW q \in Qsos,
         job[r].added[q] > 0 \/ job[r].fixed[q] # {} => q \in DOMAIN job[r].got
  PROVE  LET j == job[r]
             w == Written(j, q)
             n == Len(rows[q])
         IN  /\ w \in Seq(0..LastTick)
             /\ n \in Nat /\ j.added[q] \in Nat
             /\ DOMAIN rows[q] = 1..n
             /\ Len(w) = n + j.added[q] /\ DOMAIN w = 1..(n + j.added[q])
             /\ \A i \in 1..n : w[i] = IF i \in j.fixed[q] THEN j.got[q] ELSE rows[q][i]
             /\ \A i \in (n + 1)..(n + j.added[q]) : w[i] = j.got[q]
             /\ j.fixed[q] \subseteq 1..n
<1> DEFINE j == job[r]
           n == Len(rows[q])
           a == j.added[q]
           old == [i \in DOMAIN rows[q] |-> IF i \in j.fixed[q] THEN j.got[q] ELSE rows[q][i]]
           new == [i \in 1..a |-> j.got[q]]
<1>1. rows[q] \in Seq(0..LastTick) /\ j \in Job /\ j.fixed[q] \subseteq DOMAIN rows[q]
  BY DEF TypeOk
<1>2. n \in Nat /\ DOMAIN rows[q] = 1..n /\ a \in Nat
  BY <1>1 DEF Job
<1>3. q \in DOMAIN j.got => j.got[q] \in 0..LastTick
  BY <1>1, DatesFacts DEF Job
<1>4. old \in [1..n -> 0..LastTick]
  <2>1. \A i \in 1..n : rows[q][i] \in 0..LastTick
    BY <1>1, <1>2, ElementOfSeq
  <2>2. \A i \in 1..n : (IF i \in j.fixed[q] THEN j.got[q] ELSE rows[q][i]) \in 0..LastTick
    BY <2>1, <1>3
  <2>. QED BY <2>2, <1>2
<1>5. new \in [1..a -> 0..LastTick]
  BY <1>2, <1>3
<1> HIDE DEF old, new
<1>6. old \in Seq(0..LastTick) /\ Len(old) = n
  BY <1>2, <1>4, FcnIsSeq
<1>7. new \in Seq(0..LastTick) /\ Len(new) = a
  BY <1>2, <1>5, FcnIsSeq
<1>8. /\ old \o new \in Seq(0..LastTick)
      /\ Len(old \o new) = n + a
      /\ \A i \in 1..(n + a) : (old \o new)[i] = IF i <= n THEN old[i] ELSE new[i - n]
  BY <1>2, <1>6, <1>7, ConcatProperties
<1>9. Written(j, q) = old \o new
  BY DEF Written, Copies, old, new
<1>10. \A i \in 1..n : old[i] = IF i \in j.fixed[q] THEN j.got[q] ELSE rows[q][i]
  BY <1>2 DEF old
<1>11. \A i \in 1..a : new[i] = j.got[q]
  BY DEF new
<1>12. \A i \in (n + 1)..(n + a) : i - n \in 1..a /\ i \in 1..(n + a) /\ ~(i <= n)
  BY <1>2
<1>13. DOMAIN (old \o new) = 1..(n + a)
  BY <1>8, <1>2, LenProperties
<1> HIDE DEF n, a, j
<1>14. \A i \in 1..n : i \in 1..(n + a) /\ i <= n
  BY <1>2
<1>15. \A i \in (n + 1)..(n + a) : (old \o new)[i] = j.got[q]
  BY <1>8, <1>11, <1>12
<1>16. \A i \in 1..n : (old \o new)[i] = IF i \in j.fixed[q] THEN j.got[q] ELSE rows[q][i]
  <2> SUFFICES ASSUME NEW i \in 1..n
               PROVE  (old \o new)[i] = IF i \in j.fixed[q] THEN j.got[q] ELSE rows[q][i]
    OBVIOUS
  <2>1. (old \o new)[i] = old[i]
    BY <1>8, <1>14
  <2>2. old[i] = IF i \in j.fixed[q] THEN j.got[q] ELSE rows[q][i]
    BY <1>10
  <2>. QED BY <2>1, <2>2
<1>. QED BY <1>1, <1>2, <1>8, <1>9, <1>13, <1>15, <1>16 DEF n, a, j

-----------------------------------------------------------------------------
(* The steps.                                                               *)

(* Steps that touch neither rows nor what an import knows: the status, the  *)
(* page, and where an import is when it neither stores nor begins to.       *)
Places == Working \union {"idle", "queued", "done"}
Beside == /\ UNCHANGED <<clock, qsl, rows, since, imported, job, slipped>>
          /\ pc' \in [Importers -> Places]
          /\ \A r \in Importers : pc'[r] = "store" <=> pc[r] = "store"
          /\ status' \in {"idle", "syncing", "failed"} /\ fresh' \in BOOLEAN /\ orphaned' \in BOOLEAN
          /\ page' \in {"away", "importing", "asked", "followed", "reloading", "still"}
          /\ overtaken' \subseteq Importers /\ crashes' \in 0..MaxCrashes
          /\ SyncingIsTrue'

LEMMA BesideStep == ImportInv /\ Beside => ImportInv'
<1> SUFFICES ASSUME ImportInv, Beside PROVE ImportInv'
  OBVIOUS
<1>1. TypeOk' /\ FreshJobs' /\ StoresDownload'
  BY DEF ImportInv, Beside, TypeOk, FreshJobs, StoresDownload, Places
<1>2. CursorIsPast'
  BY DEF ImportInv, Beside, CursorIsPast, DayOf
<1>3. DownloadCovers' /\ CaughtUp'
  BY DEF ImportInv, Beside, DownloadCovers, CaughtUp, Covered, Pending, Stored, HasDate, DayOf
<1>. QED BY <1>1, <1>2, <1>3 DEF ImportInv, Beside

(* The steps of an import besides its transactions on rows, and the browser.*)
LEMMA StatusSteps ==
  ASSUME ImportInv, NEW r \in Importers,
         \/ Begin(r) \/ Settle(r) \/ SettleFailed(r) \/ StatusFails(r)
         \/ End(r) \/ RequestImport(r)
  PROVE  ImportInv'
<1> USE DEF ImportInv
<1>0. TypeOk /\ SyncingIsTrue /\ pc \in [Importers -> Places]
  BY DEF TypeOk, Places
<1>1. CASE Begin(r)
  <2>1. pc' = [pc EXCEPT ![r] = "read"] /\ pc[r] = "queued"
    BY <1>1 DEF Begin, Becomes
  <2>2. SyncingIsTrue'
    BY <2>1, <1>0 DEF SyncingIsTrue, Working
  <2>. QED BY <1>0, <1>1, <2>1, <2>2, BesideStep DEF Begin, Beside, TypeOk, Places, Working
<1>2. CASE Settle(r) \/ SettleFailed(r)
  <2>1. pc' = [pc EXCEPT ![r] = "done"] /\ pc[r] \in {"finish", "fail"} /\ status' \in {"idle", "failed"}
    BY <1>2 DEF Settle, SettleFailed, Becomes
  <2>2. SyncingIsTrue'
    BY <2>1 DEF SyncingIsTrue
  <2>. QED BY <1>0, <1>2, <2>1, <2>2, BesideStep DEF Settle, SettleFailed, Beside, TypeOk, Places, Working, history
<1>3. CASE End(r) \/ RequestImport(r)
  <2>1. /\ pc' \in {[pc EXCEPT ![r] = "idle"], [pc EXCEPT ![r] = "queued"]} /\ pc[r] \in {"done", "idle"}
        /\ UNCHANGED <<status, orphaned>>
    BY <1>3 DEF End, RequestImport, Becomes, userVars, history
  <2>2. SyncingIsTrue'
    BY <2>1, <1>0 DEF SyncingIsTrue, Working
  <2>3. /\ pc' \in [Importers -> Places]
        /\ \A v \in Importers : pc'[v] = "store" <=> pc[v] = "store"
    BY <1>0, <2>1 DEF Places, Working
  <2>4. /\ UNCHANGED <<clock, qsl, rows, since, imported, fresh, status, job, page>>
        /\ UNCHANGED <<slipped, orphaned, overtaken, crashes>>
    BY <1>3 DEF End, RequestImport, userVars, history
  <2>. QED BY <1>0, <2>2, <2>3, <2>4, BesideStep DEF Beside, TypeOk
<1>4. CASE StatusFails(r)
  <2>1. /\ pc' = [pc EXCEPT ![r] = "done"] /\ pc[r] \in {"queued", "fail"}
        /\ status' = status /\ orphaned' = (orphaned \/ pc[r] = "fail")
        /\ crashes' \in 0..MaxCrashes
    BY <1>0, <1>4, RepeatsAssumption DEF StatusFails, Becomes, userVars, TypeOk
  <2>2. SyncingIsTrue'
    BY <1>0, <2>1 DEF SyncingIsTrue, Working
  <2>. QED BY <1>0, <1>4, <2>1, <2>2, BesideStep
       DEF StatusFails, Beside, TypeOk, Places, Working, userVars
<1>. QED BY <1>1, <1>2, <1>3, <1>4

LEMMA BrowseStep == ImportInv /\ (Browse \/ GrowOld \/ UNCHANGED vars) => ImportInv'
<1> SUFFICES ASSUME ImportInv, Browse \/ GrowOld \/ UNCHANGED vars PROVE ImportInv'
  OBVIOUS
<1>0. TypeOk /\ SyncingIsTrue /\ pc \in [Importers -> Places]
  BY DEF ImportInv, TypeOk, Places
<1>1. CASE GrowOld \/ UNCHANGED vars \/ Login \/ Leave
  <2>1. UNCHANGED <<clock, qsl, rows, since, imported, status, pc, job, history, crashes>>
    BY <1>1 DEF GrowOld, vars, userVars, runVars, Login, Leave
  <2>2. fresh' \in BOOLEAN /\ page' \in {"away", "importing", "asked", "followed", "reloading", "still"}
    BY <1>1, <1>0 DEF GrowOld, vars, userVars, runVars, Login, Leave, TypeOk
  <2>3. SyncingIsTrue'
    BY <2>1, <1>0 DEF SyncingIsTrue, history
  <2>. QED BY <1>0, <2>1, <2>2, <2>3, BesideStep DEF Beside, TypeOk, history
<1>2. ASSUME NEW p \in Procs, NEW forced \in BOOLEAN,
             AskImport(p) \/ Follow(p) \/ Reload(p) \/ Visit(p, forced)
      PROVE  ImportInv'
  <2>1. p \in Importers
    BY DEF Importers
  <2>2. UNCHANGED pc \/ (pc[p] = "idle" /\ pc' = [pc EXCEPT ![p] = "queued"])
    BY <1>2 DEF AskImport, Follow, Reload, Visit, Refresh, Enqueue
  <2>3. UNCHANGED <<clock, qsl, rows, userVars, job, history, crashes>>
    BY <1>2 DEF AskImport, Follow, Reload, Visit
  <2>4. page' \in {"away", "importing", "asked", "followed", "reloading", "still"}
    BY <1>2 DEF AskImport, Follow, Reload, Visit, Shows
  <2>5. SyncingIsTrue'
    BY <1>0, <2>1, <2>2, <2>3 DEF SyncingIsTrue, Working, userVars, history
  <2>6. /\ pc' \in [Importers -> Places]
        /\ \A r \in Importers : pc'[r] = "store" <=> pc[r] = "store"
    BY <1>0, <2>1, <2>2 DEF Places, Working
  <2>. QED BY <1>0, <2>3, <2>4, <2>5, <2>6, BesideStep DEF Beside, TypeOk, userVars, history
<1>. QED BY <1>1, <1>2 DEF Browse

(* A step in which one import moves or learns something, and stores nothing.*)
Fresh(j)  == j = [NoJob EXCEPT !.since = j.since, !.imported = j.imported]
Stores(j) == /\ j.at <= clock
             /\ \A i \in DOMAIN j.todo : j.todo[i] \subseteq DOMAIN j.got
             /\ \A q \in Qsos : j.added[q] > 0 \/ j.fixed[q] # {} => q \in DOMAIN j.got

LEMMA OwnStep ==
  ASSUME ImportInv, NEW r \in Importers, NEW j \in Job, NEW place \in Places,
         pc' = [pc EXCEPT ![r] = place], job' = [job EXCEPT ![r] = j],
         UNCHANGED <<clock, qsl, rows, userVars, page, slipped>>,
         overtaken' \subseteq Importers, crashes' \in 0..MaxCrashes, orphaned' \in BOOLEAN,
         SyncingIsTrue',
         j.since <= since,
         \A q \in Qsos : j.fixed[q] \subseteq DOMAIN rows[q],
         place # "store" => Fresh(j),
         place = "store" => Stores(j) /\ \A q \in DOMAIN qsl : Covered(j, q)
  PROVE  ImportInv'
<1> USE DEF userVars
<1>0. pc \in [Importers -> Places] /\ job \in [Importers -> Job]
  BY DEF ImportInv, TypeOk, Places
<1>1. /\ pc'[r] = place /\ job'[r] = j
      /\ \A v \in Importers \ {r} : pc'[v] = pc[v] /\ job'[v] = job[v]
  BY <1>0
<1>2. TypeOk'
  <2>1. pc' \in [Importers -> Places] /\ job' \in [Importers -> Job]
    BY <1>0
  <2>2. \A v \in Importers, q \in Qsos : job'[v].fixed[q] \subseteq DOMAIN rows[q]
    BY <1>1 DEF ImportInv, TypeOk
  <2>. QED BY <2>1, <2>2 DEF ImportInv, TypeOk, Places
<1>3. FreshJobs'
  BY <1>1 DEF ImportInv, FreshJobs, Fresh
<1>4. CursorIsPast'
  BY <1>1 DEF ImportInv, CursorIsPast, DayOf
<1>5. StoresDownload'
  BY <1>1 DEF ImportInv, StoresDownload, Stores
<1>6. \A q \in DOMAIN qsl, v \in Importers : Covered(job[v], q) => Covered(job[v], q)'
             \/ job'[v] # job[v]
  BY DEF Covered, Pending, Stored, HasDate, DayOf
<1>7. DownloadCovers'
  <2> SUFFICES ASSUME NEW v \in Importers, pc'[v] = "store", NEW q \in DOMAIN qsl
               PROVE  Covered(job[v], q)'
    BY DEF DownloadCovers
  <2>1. CASE v # r
    BY <1>1, <1>6, <2>1 DEF ImportInv, DownloadCovers
  <2>2. CASE v = r
    BY <1>1, <2>2 DEF Covered, Pending, Stored, HasDate, DayOf
  <2>. QED BY <2>1, <2>2
<1>8. CaughtUp'
  BY DEF ImportInv, CaughtUp, Stored, HasDate, DayOf
<1>. QED BY <1>2, <1>3, <1>4, <1>5, <1>7, <1>8 DEF ImportInv

LEMMA ReadStep == ASSUME ImportInv, NEW r \in Importers, Read(r) PROVE ImportInv'
<1> DEFINE j == [job[r] EXCEPT !.since = since, !.imported = imported]
<1>0. TypeOk /\ SyncingIsTrue /\ pc \in [Importers -> Places] /\ job \in [Importers -> Job]
  BY DEF ImportInv, TypeOk, Places
<1>1. pc[r] = "read" /\ pc' = [pc EXCEPT ![r] = "download"] /\ job' = [job EXCEPT ![r] = j]
  BY <1>0 DEF Read, Becomes
<1>2. j \in Job /\ j.since = since
  <2>1. job[r] \in Job /\ since \in Days /\ imported \in BOOLEAN
    BY <1>0 DEF TypeOk
  <2>. QED BY <2>1 DEF Job
<1>3. Fresh(j)
  BY <1>0, <1>1, NoJobType DEF ImportInv, FreshJobs, Fresh, Job
<1>4. \A q \in Qsos : j.fixed[q] \subseteq DOMAIN rows[q]
  BY <1>0 DEF TypeOk, Job
<1>5. SyncingIsTrue'
  BY <1>0, <1>1 DEF SyncingIsTrue, Working, Read, userVars
<1>6. since <= since
  BY <1>0, ClockAssumption, DayFacts DEF TypeOk, Days
<1> HIDE DEF j
<1>. QED BY <1>0, <1>1, <1>2, <1>3, <1>4, <1>5, <1>6, OwnStep DEF Read, Places, Working, TypeOk

LEMMA GiveUpStep ==
  ASSUME ImportInv, NEW r \in Importers, Fail(r) \/ Crash(r)
  PROVE  ImportInv'
<1> DEFINE place == IF Fail(r) THEN "fail" ELSE "idle"
<1>0. TypeOk /\ SyncingIsTrue /\ pc \in [Importers -> Places] /\ job \in [Importers -> Job]
  BY DEF ImportInv, TypeOk, Places
<1>1. pc' = [pc EXCEPT ![r] = place] /\ job' = [job EXCEPT ![r] = NoJob]
  BY DEF Fail, Crash, Becomes
<1>2. Fresh(NoJob) /\ \A q \in Qsos : NoJob.fixed[q] \subseteq DOMAIN rows[q]
  BY DEF Fresh, NoJob
<1>3. NoJob.since <= since
  BY <1>0, ClockAssumption, DayFacts DEF TypeOk, Days, NoJob
<1>4. orphaned' \in BOOLEAN /\ crashes' \in 0..MaxCrashes /\ overtaken' \subseteq Importers
  <2>1. crashes' \in 0..MaxCrashes
    BY <1>0, RepeatsAssumption DEF Fail, Crash, TypeOk
  <2>2. orphaned' \in BOOLEAN
    BY <1>0 DEF Fail, Crash, TypeOk, history
  <2>3. overtaken' \subseteq Importers
    BY <1>0 DEF Fail, Crash, TypeOk, history
  <2>. QED BY <2>1, <2>2, <2>3
<1>5. SyncingIsTrue'
  <2>1. CASE Fail(r)
    BY <1>0, <1>1, <2>1 DEF SyncingIsTrue, Working, Fail, userVars, history
  <2>2. CASE Crash(r)
    BY <1>0, <2>2 DEF SyncingIsTrue, Crash, Becomes, userVars
  <2>. QED BY <2>1, <2>2
<1>6. place \in {"fail", "idle"}
  OBVIOUS
<1>7. place \in Places /\ place # "store"
  BY <1>6 DEF Places, Working
<1>8. UNCHANGED <<clock, qsl, rows, userVars, page, slipped>>
  BY DEF Fail, Crash, history
<1> HIDE DEF place
<1>. QED BY <1>1, <1>2, <1>3, <1>4, <1>5, <1>7, <1>8, NoJobType, OwnStep

(* The groups of 200 are made of the rows of the download.                  *)
LEMMA GroupsFacts ==
  ASSUME NEW S \in SUBSET Qsos, NEW g \in Groups(S)
  PROVE  /\ g \in Seq(SUBSET Qsos)
         /\ \A i \in DOMAIN g : g[i] \subseteq S
         /\ \A q \in S : \E i \in DOMAIN g : q \in g[i]
         /\ ~Repeats => \A i, k \in DOMAIN g : g[i] \intersect g[k] # {} => i = k
<1>1. CASE g = <<S>>
  BY <1>1
<1>2. CASE g # <<S>>
  <2>1. PICK a \in SUBSET S, b \in SUBSET S :
          g = <<a, b>> /\ a \union b = S /\ (~Repeats => a \intersect b = {})
    BY <1>2 DEF Groups
  <2>2. g \in Seq(SUBSET Qsos) /\ DOMAIN g = {1, 2} /\ g[1] = a /\ g[2] = b
    BY <2>1
  <2>3. ~Repeats => g[1] \intersect g[2] = {} /\ g[2] \intersect g[1] = {}
    BY <2>1, <2>2
  <2>. QED BY <2>1, <2>2, <2>3
<1>. QED BY <1>1, <1>2

(* LoTW's answer has every QSL received since the day that was asked for.   *)
LEMMA DownloadStep == ASSUME ImportInv, NEW r \in Importers, Download(r) PROVE ImportInv'
<1> DEFINE got == Report(job[r].since)
<1>0. TypeOk /\ SyncingIsTrue /\ pc \in [Importers -> Places] /\ job \in [Importers -> Job]
  BY DEF ImportInv, TypeOk, Places
<1>1. PICK g \in Groups(DOMAIN got) :
        job' = [job EXCEPT ![r].got = got, ![r].todo = g, ![r].at = clock]
  BY DEF Download
<1> DEFINE j == [job[r] EXCEPT !.got = got, !.todo = g, !.at = clock]
<1>2. pc[r] = "download" /\ pc' = [pc EXCEPT ![r] = "store"] /\ job' = [job EXCEPT ![r] = j]
  BY <1>0, <1>1 DEF Download, Becomes
<1>3. /\ DOMAIN got \subseteq DOMAIN qsl
      /\ \A q \in DOMAIN got : got[q] = qsl[q]
      /\ \A q \in DOMAIN qsl : q \in DOMAIN got \/ ~(DayOf(qsl[q]) >= job[r].since)
      /\ got \in [DOMAIN got -> 0..LastTick] /\ DOMAIN got \subseteq Qsos
  BY <1>0, DatesFacts DEF Report, TypeOk
<1>4. got \in Dates
  BY <1>3, DatesFacts
<1> HIDE DEF got
<1>5. /\ g \in Seq(SUBSET Qsos)
      /\ \A i \in DOMAIN g : g[i] \subseteq DOMAIN got
      /\ \A q \in DOMAIN got : \E i \in DOMAIN g : q \in g[i]
  BY <1>3, GroupsFacts
<1>7. j \in Job /\ j.since = job[r].since /\ j.got = got /\ j.todo = g /\ j.at = clock
        /\ j.added = job[r].added /\ j.fixed = job[r].fixed
  <2>1. job[r] \in Job /\ clock \in 0..LastTick
    BY <1>0 DEF TypeOk
  <2> HIDE DEF got
  <2>. QED BY <2>1, <1>4, <1>5 DEF Job
<1>8. \A q \in Qsos : job[r].added[q] = 0 /\ job[r].fixed[q] = {}
  <2>1. job[r] = [NoJob EXCEPT !.since = job[r].since, !.imported = job[r].imported]
    BY <1>2 DEF ImportInv, FreshJobs
  <2>2. job[r].added = NoJob.added /\ job[r].fixed = NoJob.fixed
    BY <2>1, NoJobType DEF Job
  <2>. QED BY <2>2 DEF NoJob
<1>9. SyncingIsTrue'
  BY <1>0, <1>2 DEF SyncingIsTrue, Working, Download, userVars, history
<1> HIDE DEF j
<1>10. Stores(j)
  BY <1>0, <1>3, <1>5, <1>7, <1>8, ClockAssumption DEF Stores, TypeOk
<1>11. \A q \in DOMAIN qsl : Covered(j, q)
  <2> SUFFICES ASSUME NEW q \in DOMAIN qsl PROVE Covered(j, q)
    OBVIOUS
  <2>1. qsl[q] \in 0..LastTick
    BY <1>0, DatesFacts DEF TypeOk
  <2>2. DayOf(qsl[q]) \in Nat /\ job[r].since \in Int
    BY <1>0, <2>1, ClockAssumption, DayFacts DEF Job, Days
  <2>3. CASE q \in DOMAIN got
    BY <1>3, <1>5, <1>7, <2>3 DEF Covered, Pending
  <2>4. CASE q \notin DOMAIN got
    BY <1>3, <1>7, <2>2, <2>4 DEF Covered
  <2>. QED BY <2>3, <2>4
<1>12. j.since <= since /\ \A q \in Qsos : j.fixed[q] \subseteq DOMAIN rows[q]
  BY <1>0, <1>7 DEF ImportInv, CursorIsPast, TypeOk
<1>. QED BY <1>0, <1>2, <1>7, <1>9, <1>10, <1>11, <1>12, OwnStep DEF Download, Places, Working, TypeOk, history

(* A group that has been looked up is to be inserted or updated, or found   *)
(* stored as LoTW has it.                                                   *)
LEMMA StoreGroupStep == ASSUME ImportInv, NEW r \in Importers, StoreGroup(r) PROVE ImportInv'
<1> DEFINE o == job[r]
           group == Head(o.todo)
           found == {q \in group : o.imported /\ Existing(o, q) # {}}
<1>0. TypeOk /\ SyncingIsTrue /\ pc \in [Importers -> Places] /\ job \in [Importers -> Job]
  BY DEF ImportInv, TypeOk, Places
<1>1. pc[r] = "store" /\ o.todo # <<>> /\ UNCHANGED <<clock, qsl, rows, userVars, pc, page, history, crashes>>
  BY DEF StoreGroup
<1>2. PICK pick \in [found -> UNION {Existing(o, q) : q \in found}] :
        /\ \A q \in found : pick[q] \in Existing(o, q)
        /\ LET changed == {q \in found : pick[q] # 0 /\ rows[q][pick[q]] # o.got[q]} IN
             job' = [job EXCEPT
                ![r].todo  = Tail(o.todo),
                ![r].added = [q \in Qsos |-> IF q \in group \ found THEN o.added[q] + 1 ELSE o.added[q]],
                ![r].fixed = [q \in Qsos |-> IF q \in changed THEN o.fixed[q] \union {pick[q]}
                                                             ELSE o.fixed[q]]]
  BY DEF StoreGroup
<1> DEFINE changed == {q \in found : pick[q] # 0 /\ rows[q][pick[q]] # o.got[q]}
           added == [q \in Qsos |-> IF q \in group \ found THEN o.added[q] + 1 ELSE o.added[q]]
           fixed == [q \in Qsos |-> IF q \in changed THEN o.fixed[q] \union {pick[q]} ELSE o.fixed[q]]
           j == [o EXCEPT !.todo = Tail(o.todo), !.added = added, !.fixed = fixed]
<1>3. job' = [job EXCEPT ![r] = j] /\ pc' = [pc EXCEPT ![r] = "store"]
  BY <1>0, <1>1, <1>2
<1>4. o \in Job /\ o.todo \in Seq(SUBSET Qsos) /\ o.added \in [Qsos -> Nat] /\ o.fixed \in [Qsos -> SUBSET Nat]
  BY <1>0 DEF Job
<1>5. /\ group \in SUBSET Qsos /\ group = o.todo[1] /\ 1 \in DOMAIN o.todo
      /\ Tail(o.todo) \in Seq(SUBSET Qsos)
      /\ DOMAIN o.todo = 1..Len(o.todo) /\ Len(o.todo) \in Nat
      /\ DOMAIN Tail(o.todo) = 1..(Len(o.todo) - 1)
      /\ \A i \in DOMAIN Tail(o.todo) : Tail(o.todo)[i] = o.todo[i + 1] /\ i + 1 \in DOMAIN o.todo
      /\ \A i \in DOMAIN o.todo : i # 1 => i - 1 \in DOMAIN Tail(o.todo) /\ o.todo[i] = Tail(o.todo)[i - 1]
  <2>1. group \in SUBSET Qsos /\ Tail(o.todo) \in Seq(SUBSET Qsos) /\ Len(Tail(o.todo)) = Len(o.todo) - 1
        /\ \A i \in 1..Len(Tail(o.todo)) : Tail(o.todo)[i] = o.todo[i + 1]
    BY <1>1, <1>4, HeadTailProperties
  <2>2. DOMAIN o.todo = 1..Len(o.todo) /\ Len(o.todo) \in Nat /\ DOMAIN Tail(o.todo) = 1..Len(Tail(o.todo))
    BY <1>4, <2>1, LenProperties
  <2>3. Len(o.todo) # 0 /\ group = o.todo[1]
    BY <1>1, <1>4
  <2>4. 1 \in DOMAIN o.todo /\ DOMAIN Tail(o.todo) = 1..(Len(o.todo) - 1)
    BY <2>1, <2>2, <2>3
  <2>5. \A i \in DOMAIN Tail(o.todo) : Tail(o.todo)[i] = o.todo[i + 1] /\ i + 1 \in DOMAIN o.todo
    BY <2>1, <2>2, <2>4
  <2>6. \A i \in DOMAIN o.todo : i # 1 => i - 1 \in DOMAIN Tail(o.todo) /\ o.todo[i] = Tail(o.todo)[i - 1]
    BY <2>2, <2>4, <2>5
  <2>. QED BY <2>1, <2>2, <2>3, <2>4, <2>5, <2>6
<1>6. \A q \in found : pick[q] \in 0..Len(rows[q]) /\ (pick[q] = 0 => o.added[q] > 0)
  BY <1>2 DEF Existing
<1>7. \A q \in Qsos : /\ rows[q] \in Seq(0..LastTick) /\ Len(rows[q]) \in Nat /\ DOMAIN rows[q] = 1..Len(rows[q])
                      /\ o.fixed[q] \subseteq DOMAIN rows[q]
  BY <1>0 DEF TypeOk
<1>8. \A q \in found : pick[q] # 0 => pick[q] \in DOMAIN rows[q] /\ pick[q] \in Nat
  BY <1>5, <1>6, <1>7
<1>9. added \in [Qsos -> Nat] /\ fixed \in [Qsos -> SUBSET Nat]
  BY <1>4, <1>8
<1>10. \A q \in Qsos : fixed[q] \subseteq DOMAIN rows[q]
  BY <1>7, <1>8
<1>11. \A q \in Qsos : /\ o.added[q] > 0 \/ o.fixed[q] # {} => added[q] > 0 \/ fixed[q] # {}
                       /\ added[q] > 0 \/ fixed[q] # {} => o.added[q] > 0 \/ o.fixed[q] # {} \/ q \in group
  BY <1>4
<1>12. \A q \in group : \/ added[q] > 0 \/ fixed[q] # {}
                        \/ \E i \in DOMAIN rows[q] : rows[q][i] = o.got[q]
  <2> SUFFICES ASSUME NEW q \in group
               PROVE  \/ added[q] > 0 \/ fixed[q] # {}
                      \/ \E i \in DOMAIN rows[q] : rows[q][i] = o.got[q]
    OBVIOUS
  <2>0. q \in Qsos
    BY <1>5
  <2>1. CASE q \notin found
    BY <1>4, <2>0, <2>1
  <2>2. CASE q \in found /\ pick[q] = 0
    BY <1>4, <1>6, <2>0, <2>2
  <2>3. CASE q \in changed
    BY <2>0, <2>3
  <2>4. CASE q \in found /\ pick[q] # 0 /\ q \notin changed
    BY <1>8, <2>4
  <2>. QED BY <2>1, <2>2, <2>3, <2>4
<1> HIDE DEF added, fixed, found, changed, group
<1>13. /\ j \in Job /\ j.since = o.since /\ j.at = o.at /\ j.got = o.got
       /\ j.todo = Tail(o.todo) /\ j.added = added /\ j.fixed = fixed
  BY <1>4, <1>5, <1>9 DEF Job
<1> HIDE DEF j
<1>14. Stores(j)
  BY <1>1, <1>5, <1>11, <1>13 DEF ImportInv, StoresDownload, Stores
<1>15. \A q \in DOMAIN qsl : Covered(j, q)
  <2> SUFFICES ASSUME NEW q \in DOMAIN qsl PROVE Covered(j, q)
    OBVIOUS
  <2>1. q \in Qsos /\ Covered(o, q)
    BY <1>0, <1>1, DatesFacts DEF ImportInv, DownloadCovers, TypeOk
  <2>2. ASSUME Pending(o, q), o.got[q] = qsl[q] PROVE Pending(j, q) \/ Stored(q)
    <3>1. CASE q \in group
      BY <1>12, <1>13, <2>2, <3>1 DEF Pending, Stored, HasDate
    <3>2. CASE q \notin group
      <4>1. CASE \E i \in DOMAIN o.todo : q \in o.todo[i]
        <5>1. PICK i \in DOMAIN o.todo : q \in o.todo[i]
          BY <4>1
        <5>2. i # 1 /\ i - 1 \in DOMAIN j.todo /\ q \in j.todo[i - 1]
          BY <1>5, <1>13, <3>2, <5>1
        <5>. QED BY <5>2 DEF Pending
      <4>2. CASE o.added[q] > 0 \/ o.fixed[q] # {}
        BY <1>11, <1>13, <2>1, <4>2 DEF Pending
      <4>. QED BY <2>2, <4>1, <4>2 DEF Pending
    <3>. QED BY <3>1, <3>2
  <2>. QED BY <1>13, <2>1, <2>2 DEF Covered
<1>16. SyncingIsTrue'
  BY <1>0, <1>1 DEF SyncingIsTrue, userVars, history
<1>17. j.since <= since
  BY <1>13 DEF ImportInv, CursorIsPast
<1>. QED BY <1>0, <1>1, <1>3, <1>10, <1>13, <1>14, <1>15, <1>16, <1>17, OwnStep
     DEF Places, Working, TypeOk, history

-----------------------------------------------------------------------------
(* LoTW, time, and the commit.                                              *)

LEMMA TickStep == ImportInv /\ Tick => ImportInv'
<1> SUFFICES ASSUME ImportInv, Tick PROVE ImportInv'
  OBVIOUS
<1> USE DEF Tick, userVars, runVars, history
<1>0. TypeOk /\ clock \in Nat /\ clock' \in 0..LastTick /\ clock' \in Nat /\ clock <= clock'
  BY ClockAssumption DEF ImportInv, TypeOk
<1>1. TypeOk'
  BY <1>0 DEF TypeOk, Days, DayOf
<1>2. CursorIsPast'
  <2>1. DayOf(clock) <= DayOf(clock') /\ DayOf(clock) \in Nat /\ DayOf(clock') \in Nat /\ since \in Int
    BY <1>0, DayFacts DEF TypeOk, Days
  <2>2. since <= DayOf(clock')
    BY <2>1 DEF ImportInv, CursorIsPast
  <2>. QED BY <2>2 DEF ImportInv, CursorIsPast, DayOf
<1>3. FreshJobs' /\ SyncingIsTrue'
  BY DEF ImportInv, FreshJobs, SyncingIsTrue
<1>4. StoresDownload'
  <2>1. \A r \in Importers : job[r].at <= clock => job[r].at <= clock'
    BY <1>0 DEF TypeOk, Job
  <2>. QED BY <2>1 DEF ImportInv, StoresDownload
<1>5. DownloadCovers' /\ CaughtUp'
  BY DEF ImportInv, DownloadCovers, CaughtUp, Covered, Pending, Stored, HasDate, DayOf
<1>. QED BY <1>1, <1>2, <1>3, <1>4, <1>5 DEF ImportInv

(* A QSL that LoTW receives now comes after every download, and on no day   *)
(* before the cursor.                                                       *)
LEMMA ConfirmStep == ASSUME ImportInv, NEW q \in Qsos, Confirm(q) PROVE ImportInv'
<1> USE DEF Confirm, userVars, runVars
<1>0. TypeOk /\ clock \in 0..LastTick /\ qsl \in Dates
  BY DEF ImportInv, TypeOk
<1>1. /\ DOMAIN qsl' = DOMAIN qsl \union {q} /\ qsl'[q] = clock
      /\ \A p \in DOMAIN qsl \ {q} : qsl'[p] = qsl[p]
  OBVIOUS
<1>2. qsl' \in Dates
  <2>1. DOMAIN qsl \subseteq Qsos /\ \A p \in DOMAIN qsl : qsl[p] \in 0..LastTick
    BY <1>0, DatesFacts
  <2>2. qsl' \in [DOMAIN qsl \union {q} -> 0..LastTick]
    BY <1>0, <2>1
  <2>. QED BY <1>1, <2>1, <2>2, DatesFacts
<1>3. TypeOk'
  BY <1>0, <1>2 DEF TypeOk
<1>4. FreshJobs' /\ CursorIsPast' /\ StoresDownload' /\ SyncingIsTrue'
  BY DEF ImportInv, FreshJobs, CursorIsPast, StoresDownload, SyncingIsTrue, DayOf
<1>5. DownloadCovers'
  <2> SUFFICES ASSUME NEW r \in Importers, pc[r] = "store", NEW p \in DOMAIN qsl'
               PROVE  Covered(job[r], p)'
    BY DEF DownloadCovers
  <2>1. CASE p = q
    BY <1>1, <2>1 DEF ImportInv, StoresDownload, Covered
  <2>2. CASE p # q
    <3>1. p \in DOMAIN qsl /\ qsl'[p] = qsl[p] /\ Covered(job[r], p)
      BY <1>1, <2>2 DEF ImportInv, DownloadCovers
    <3>. QED BY <2>2, <3>1 DEF Covered, Pending, Stored, HasDate, DayOf
  <2>. QED BY <2>1, <2>2
<1>6. CaughtUp'
  <2> SUFFICES ASSUME NEW p \in DOMAIN qsl', DayOf(qsl'[p]) < since
               PROVE  Stored(p)' \/ p \in slipped'
    BY DEF CaughtUp, DayOf
  <2>1. p # q
    <3>1. DayOf(clock) \in Nat /\ since \in Int /\ since <= DayOf(clock)
      BY <1>0, ClockAssumption, DayFacts DEF ImportInv, CursorIsPast, TypeOk, Days
    <3>. QED BY <1>1, <3>1
  <2>2. p \in DOMAIN qsl /\ qsl'[p] = qsl[p]
    BY <1>1, <2>1
  <2>. QED BY <2>1, <2>2 DEF ImportInv, CaughtUp, Stored, HasDate
<1>. QED BY <1>3, <1>4, <1>5, <1>6 DEF ImportInv

(* The commit.  What was stored stays so or slips, and what the import was  *)
(* to store is stored.                                                      *)
LEMMA CommitStep == ASSUME ImportInv, NEW r \in Importers, Commit(r) PROVE ImportInv'
<1> DEFINE j == job[r]
<1> USE DEF userVars
<1>0. TypeOk /\ pc \in [Importers -> Places] /\ job \in [Importers -> Job] /\ j \in Job
  BY DEF ImportInv, TypeOk, Places
<1>1. /\ pc[r] = "store" /\ j.todo = <<>>
      /\ rows' = [q \in Qsos |-> Written(j, q)]
      /\ since' = DayOf(clock) /\ imported' = TRUE /\ fresh' = TRUE
      /\ slipped' = Slips(j) /\ overtaken' \subseteq Importers
      /\ pc' = [pc EXCEPT ![r] = "finish"] /\ job' = [job EXCEPT ![r] = NoJob]
      /\ UNCHANGED <<clock, qsl, status, page, orphaned, crashes>>
  BY <1>0 DEF Commit, Becomes, TypeOk
<1>2. \A q \in Qsos : j.added[q] > 0 \/ j.fixed[q] # {} => q \in DOMAIN j.got
  BY <1>1 DEF ImportInv, StoresDownload
<1>3. \A q \in Qsos :
        /\ rows'[q] \in Seq(0..LastTick)
        /\ Len(rows[q]) \in Nat /\ j.added[q] \in Nat
        /\ DOMAIN rows[q] = 1..Len(rows[q])
        /\ DOMAIN rows'[q] = 1..(Len(rows[q]) + j.added[q])
        /\ \A i \in 1..Len(rows[q]) : rows'[q][i] = IF i \in j.fixed[q] THEN j.got[q] ELSE rows[q][i]
        /\ \A i \in (Len(rows[q]) + 1)..(Len(rows[q]) + j.added[q]) : rows'[q][i] = j.got[q]
        /\ j.fixed[q] \subseteq 1..Len(rows[q])
  BY <1>0, <1>1, <1>2, WrittenFacts
<1>4. \A q \in Qsos : DOMAIN rows[q] \subseteq DOMAIN rows'[q]
  <2> SUFFICES ASSUME NEW q \in Qsos PROVE DOMAIN rows[q] \subseteq DOMAIN rows'[q]
    OBVIOUS
  <2>1. Len(rows[q]) \in Nat /\ j.added[q] \in Nat
    BY <1>3
  <2>2. 1..Len(rows[q]) \subseteq 1..(Len(rows[q]) + j.added[q])
    BY <2>1
  <2>. QED BY <1>3, <2>2
<1>5. /\ job'[r] = NoJob /\ pc'[r] = "finish"
      /\ \A v \in Importers \ {r} : pc'[v] = pc[v] /\ job'[v] = job[v]
  BY <1>0, <1>1
<1>6. DOMAIN qsl \subseteq Qsos /\ \A q \in DOMAIN qsl : qsl[q] \in Nat /\ DayOf(qsl[q]) \in Nat
  <2>1. DOMAIN qsl \subseteq Qsos /\ \A q \in DOMAIN qsl : qsl[q] \in Nat
    BY <1>0, DatesFacts, ClockAssumption DEF TypeOk
  <2>. QED BY <2>1, DayFacts
<1>7. since' \in Days /\ since \in Int /\ since <= since'
  <2>1. clock \in Nat /\ LastTick \in Nat /\ clock <= LastTick
    BY <1>0, ClockAssumption DEF TypeOk
  <2>2. DayOf(clock) \in Nat /\ DayOf(LastTick) \in Nat /\ DayOf(clock) <= DayOf(LastTick)
    BY <2>1, DayFacts
  <2>. QED BY <1>0, <1>1, <2>2 DEF ImportInv, TypeOk, CursorIsPast, Days
<1>8. TypeOk'
  <2>1. rows' \in [Qsos -> Seq(0..LastTick)]
    BY <1>1, <1>3
  <2>2. \A v \in Importers, q \in Qsos : job'[v].fixed[q] \subseteq DOMAIN rows'[q]
    <3> SUFFICES ASSUME NEW v \in Importers, NEW q \in Qsos PROVE job'[v].fixed[q] \subseteq DOMAIN rows'[q]
      OBVIOUS
    <3>1. CASE v = r
      BY <1>5, <3>1 DEF NoJob
    <3>2. CASE v # r
      BY <1>0, <1>4, <1>5, <3>2 DEF TypeOk
    <3>. QED BY <3>1, <3>2
  <2>3. slipped' \subseteq Qsos
    BY <1>1, <1>6 DEF Slips
  <2>4. pc' \in [Importers -> Places] /\ job' \in [Importers -> Job]
    BY <1>0, <1>1, NoJobType DEF Places, Working
  <2>. QED BY <1>0, <1>1, <1>7, <2>1, <2>2, <2>3, <2>4 DEF TypeOk, Places
<1>9. FreshJobs' /\ StoresDownload'
  <2>1. FreshJobs'
    BY <1>5 DEF ImportInv, FreshJobs, NoJob
  <2>2. StoresDownload'
    BY <1>1, <1>5 DEF ImportInv, StoresDownload
  <2>. QED BY <2>1, <2>2
<1>10. CursorIsPast'
  <2>1. \A v \in Importers : job[v].since \in Int /\ job[v].since <= since
    BY <1>0 DEF ImportInv, CursorIsPast, Job, Days
  <2>2. \A v \in Importers : job'[v].since <= since'
    BY <1>1, <1>5, <1>7, <2>1 DEF NoJob, Days
  <2>3. since' <= DayOf(clock')
    BY <1>1, <1>7 DEF Days
  <2>. QED BY <2>2, <2>3 DEF CursorIsPast, DayOf
<1>11. \A q \in DOMAIN qsl : Stored(q)' <=> HasDate(Written(j, q), qsl[q])
  BY <1>1, <1>6 DEF Stored, HasDate
<1>12. ASSUME NEW q \in DOMAIN qsl, Stored(q) \/ q \in slipped
       PROVE  Stored(q)' \/ q \in slipped'
  <2> SUFFICES ASSUME ~Stored(q)' PROVE q \in slipped'
    OBVIOUS
  <2>1. ~HasDate(Written(j, q), qsl[q])
    BY <1>11
  <2>2. CASE q \in slipped
    BY <1>1, <2>1, <2>2 DEF Slips
  <2>3. CASE Stored(q)
    <3>1. PICK i \in DOMAIN rows[q] : rows[q][i] = qsl[q]
      BY <2>3 DEF Stored, HasDate
    <3>2. i \in DOMAIN rows'[q] /\ rows'[q][i] # qsl[q]
      BY <1>1, <1>4, <1>6 DEF Stored, HasDate
    <3>3. i \in j.fixed[q] /\ j.got[q] # qsl[q]
      BY <1>3, <1>6, <3>1, <3>2
    <3>4. Reverted(j, q)
      BY <1>2, <1>6, <2>3, <3>3 DEF Reverted
    <3>. QED BY <1>1, <2>1, <3>4 DEF Slips
  <2>. QED BY <1>12, <2>2, <2>3
<1>13. DownloadCovers'
  <2> SUFFICES ASSUME NEW v \in Importers, pc'[v] = "store", NEW q \in DOMAIN qsl
               PROVE  Covered(job[v], q)'
    BY <1>1 DEF DownloadCovers
  <2>1. v # r /\ job'[v] = job[v] /\ Covered(job[v], q)
    BY <1>5 DEF ImportInv, DownloadCovers
  <2>2. Pending(job[v], q)' <=> Pending(job[v], q)
    BY <2>1 DEF Pending
  <2>. QED BY <1>1, <1>12, <2>1, <2>2 DEF Covered, DayOf
<1>14. CaughtUp'
  <2> SUFFICES ASSUME NEW q \in DOMAIN qsl, DayOf(qsl[q]) < DayOf(clock), ~Stored(q)'
               PROVE  q \in slipped'
    BY <1>1 DEF CaughtUp, DayOf
  <2>1. ~HasDate(Written(j, q), qsl[q])
    BY <1>11
  <2>2. Covered(j, q) /\ q \in Qsos
    BY <1>1, <1>6 DEF ImportInv, DownloadCovers
  <2>3. CASE qsl[q] >= j.at
    BY <1>1, <2>1, <2>3 DEF Slips, Late
  <2>4. CASE DayOf(qsl[q]) < j.since
    <3>1. DayOf(qsl[q]) < since
      BY <1>0, <1>6, <1>7, <2>4 DEF ImportInv, CursorIsPast, Job, Days
    <3>. QED BY <1>12, <3>1 DEF ImportInv, CaughtUp
  <2>5. CASE Stored(q) \/ q \in slipped
    BY <1>12, <2>5
  <2>6. CASE j.got[q] = qsl[q] /\ j.added[q] > 0
    <3>1. Len(rows[q]) + 1 \in (Len(rows[q]) + 1)..(Len(rows[q]) + j.added[q])
          /\ Len(rows[q]) + 1 \in DOMAIN rows'[q]
      BY <1>3, <2>2, <2>6
    <3>2. rows'[q][Len(rows[q]) + 1] = qsl[q]
      BY <1>3, <2>2, <2>6, <3>1
    <3>. QED BY <1>1, <3>1, <3>2 DEF Stored, HasDate
  <2>7. CASE j.got[q] = qsl[q] /\ j.fixed[q] # {}
    <3>1. PICK i \in j.fixed[q] : TRUE
      BY <2>7
    <3>2. i \in 1..Len(rows[q]) /\ i \in DOMAIN rows'[q]
      BY <1>3, <1>4, <2>2, <3>1
    <3>3. rows'[q][i] = qsl[q]
      BY <1>3, <2>2, <2>7, <3>1, <3>2
    <3>. QED BY <1>1, <3>2, <3>3 DEF Stored, HasDate
  <2>8. ~\E i \in DOMAIN j.todo : q \in j.todo[i]
    BY <1>1
  <2>. QED BY <2>2, <2>3, <2>4, <2>5, <2>6, <2>7, <2>8 DEF Covered, Pending
<1>15. SyncingIsTrue'
  BY <1>5 DEF SyncingIsTrue, Working
<1>. QED BY <1>8, <1>9, <1>10, <1>13, <1>14, <1>15 DEF ImportInv

-----------------------------------------------------------------------------
(* The theorems.                                                            *)

LEMMA ImportInit == Init => ImportInv
<1> SUFFICES ASSUME Init PROVE ImportInv
  OBVIOUS
<1> USE DEF Init
<1>1. 0 \in 0..LastTick /\ DayOf(0) \in Nat /\ DayOf(LastTick) \in Nat /\ -1 \in Days
  BY ClockAssumption, DayFacts DEF Days
<1>2. None \in Dates /\ <<>> \in Seq(0..LastTick) /\ DOMAIN None = {}
  <2>1. DOMAIN None = {} /\ None \in [{} -> 0..LastTick]
    BY DEF None
  <2>2. None \in Dates
    BY <2>1, DatesFacts
  <2>. QED BY <2>1, <2>2
<1>3. TypeOk
  <2>1. rows \in [Qsos -> Seq(0..LastTick)] /\ job \in [Importers -> Job]
    BY <1>2, NoJobType
  <2>2. \A r \in Importers, q \in Qsos : job[r].fixed[q] = {}
    BY DEF NoJob
  <2>3. pc \in [Importers -> Working \union {"idle", "queued", "done"}]
    OBVIOUS
  <2>4. crashes \in 0..MaxCrashes
    BY RepeatsAssumption
  <2>. QED BY <1>1, <1>2, <2>1, <2>2, <2>3, <2>4 DEF TypeOk
<1>4. FreshJobs /\ StoresDownload /\ DownloadCovers /\ SyncingIsTrue
  BY DEF FreshJobs, StoresDownload, DownloadCovers, SyncingIsTrue, NoJob
<1>5. CursorIsPast
  BY <1>1 DEF CursorIsPast, NoJob
<1>6. CaughtUp
  BY <1>2 DEF CaughtUp
<1>. QED BY <1>3, <1>4, <1>5, <1>6 DEF ImportInv

LEMMA ImportStep == ImportInv /\ [Next]_vars => ImportInv'
<1> SUFFICES ASSUME ImportInv, [Next]_vars PROVE ImportInv'
  OBVIOUS
<1>1. ASSUME NEW r \in Importers, Import(r) \/ Crash(r) \/ RequestImport(r) PROVE ImportInv'
  BY <1>1, StatusSteps, ReadStep, DownloadStep, StoreGroupStep, CommitStep, GiveUpStep DEF Import
<1>2. ASSUME NEW q \in Qsos, Confirm(q) PROVE ImportInv'
  BY <1>2, ConfirmStep
<1>. QED BY <1>1, <1>2, BrowseStep, TickStep DEF Next

(* The inductive invariant, for any importers at once: the cursor is past,  *)
(* what an import is to store it has downloaded, and what it downloaded is  *)
(* to be stored, or is, or has slipped.                                     *)
THEOREM ImportInvariant == Spec => []ImportInv
  BY ImportInit, ImportStep, PTL DEF Spec

(* import_qsos_for_user and its callers keep the type of every variable.    *)
THEOREM Types == Spec => []TypeOk
<1>1. ImportInv => TypeOk
  BY DEF ImportInv
<1>. QED BY <1>1, ImportInvariant, PTL

(* The cursor passes over no QSL, whatever imports fail, die or run         *)
(* together, but those that slip at midnight or by an overlapping import    *)
(* (app/services/qso_import.py:118-184).                                    *)
THEOREM CursorCatchesUp == Spec => []CaughtUp
<1>1. ImportInv => CaughtUp
  BY DEF ImportInv
<1>. QED BY <1>1, ImportInvariant, PTL

(* qso_sync_status says "syncing" only while an import runs, or after one   *)
(* was killed or could not write its status                                 *)
(* (app/services/qso_import.py:119, 170-183).                               *)
THEOREM SyncingIsHonest == Spec => []SyncingIsTrue
<1>1. ImportInv => SyncingIsTrue
  BY DEF ImportInv
<1>. QED BY <1>1, ImportInvariant, PTL

-----------------------------------------------------------------------------
(* No second row.                                                           *)

(* Steps in which no import reads, downloads or stores.                     *)
LEMMA RowsBeside ==
  ASSUME RowsInv, UNCHANGED <<rows, imported, overtaken>>,
         \A r \in Importers : pc'[r] \in {"download", "store"} => pc'[r] = pc[r] /\ job'[r] = job[r]
  PROVE  RowsInv'
  BY DEF RowsInv

LEMMA RowsDownload ==
  ASSUME ImportInv, RowsInv, NEW r \in Importers, Read(r) \/ Download(r)
  PROVE  RowsInv'
<1>0. /\ pc \in [Importers -> Places] /\ job \in [Importers -> Job] /\ qsl \in Dates
      /\ UNCHANGED <<rows, imported>>
  BY DEF ImportInv, TypeOk, Places, Read, Download, userVars
<1>1. CASE Read(r)
  <2>1. /\ pc'[r] = "download" /\ job'[r].imported = imported
        /\ \A v \in Importers \ {r} : pc'[v] = pc[v] /\ job'[v] = job[v]
        /\ overtaken' = overtaken \ {r}
    BY <1>0, <1>1 DEF Read, Becomes, Job
  <2>2. \A v \in Importers : v # r => (v \in overtaken' <=> v \in overtaken)
    BY <2>1
  <2>. QED BY <1>0, <2>1, <2>2 DEF RowsInv
<1>2. CASE Download(r)
  <2> DEFINE got == Report(job[r].since)
  <2>1. PICK g \in Groups(DOMAIN got) :
          job' = [job EXCEPT ![r].got = got, ![r].todo = g, ![r].at = clock]
    BY <1>2 DEF Download
  <2>2. DOMAIN got \in SUBSET Qsos
    BY <1>0, DatesFacts DEF Report
  <2>3. /\ pc[r] = "download" /\ pc'[r] = "store" /\ UNCHANGED overtaken
        /\ \A v \in Importers \ {r} : pc'[v] = pc[v] /\ job'[v] = job[v]
    BY <1>0, <1>2, <2>1 DEF Download, Becomes, history
  <2>4. job[r] = [NoJob EXCEPT !.since = job[r].since, !.imported = job[r].imported]
    BY <2>3 DEF ImportInv, FreshJobs
  <2>5. job[r].added = [q \in Qsos |-> 0]
    BY <1>0, <2>4, NoJobType DEF Job, NoJob
  <2> HIDE DEF got
  <2>6. job'[r].imported = job[r].imported /\ job'[r].added = job[r].added /\ job'[r].todo = g
    BY <1>0, <2>1 DEF Job
  <2>7. ~Repeats => \A q \in Qsos, i \in DOMAIN g, k \in DOMAIN g :
          q \in g[i] /\ q \in g[k] => k = i
    <3>1. ~Repeats => \A i, k \in DOMAIN g : g[i] \intersect g[k] # {} => i = k
      BY <2>2, GroupsFacts
    <3>. QED BY <3>1
  <2>8. \A q \in Qsos : job'[r].added[q] = 0
    BY <2>5, <2>6
  <2>. QED BY <1>0, <2>3, <2>6, <2>7, <2>8 DEF RowsInv
<1>. QED BY <1>1, <1>2

(* A group adds a QSO for which it finds no row, stored or added before.    *)
LEMMA RowsStore ==
  ASSUME ImportInv, RowsInv, NEW r \in Importers, StoreGroup(r)
  PROVE  RowsInv'
<1> DEFINE o == job[r]
           group == Head(o.todo)
           found == {q \in group : o.imported /\ Existing(o, q) # {}}
           added == [q \in Qsos |-> IF q \in group \ found THEN o.added[q] + 1 ELSE o.added[q]]
<1>0. /\ pc \in [Importers -> Places] /\ job \in [Importers -> Job] /\ o \in Job
      /\ UNCHANGED <<rows, imported, overtaken, pc>> /\ pc[r] = "store" /\ o.todo # <<>>
  BY DEF ImportInv, TypeOk, Places, StoreGroup, userVars, history
<1>1. /\ job'[r].imported = o.imported /\ job'[r].todo = Tail(o.todo) /\ job'[r].added = added
      /\ \A v \in Importers \ {r} : job'[v] = job[v]
  <2>1. PICK fixed :
          job' = [job EXCEPT ![r].todo = Tail(o.todo), ![r].added = added, ![r].fixed = fixed]
    BY DEF StoreGroup
  <2> HIDE DEF added
  <2>. QED BY <1>0, <2>1 DEF Job
<1>2. \A q \in Qsos :
        /\ r \notin overtaken /\ o.imported /\ o.added[q] > 0 => rows[q] = <<>>
        /\ o.imported \/ ~Repeats => o.added[q] <= 1
        /\ ~Repeats => \A i \in DOMAIN o.todo : q \in o.todo[i] =>
             /\ o.added[q] = 0
             /\ \A k \in DOMAIN o.todo : q \in o.todo[k] => k = i
  BY <1>0 DEF RowsInv
<1>3. o.todo \in Seq(SUBSET Qsos) /\ o.added \in [Qsos -> Nat]
  BY <1>0 DEF Job
<1>4. /\ group \in SUBSET Qsos /\ group = o.todo[1] /\ 1 \in DOMAIN o.todo
      /\ \A i \in DOMAIN Tail(o.todo) : /\ Tail(o.todo)[i] = o.todo[i + 1]
                                        /\ i \in Nat \ {0} /\ i + 1 \in DOMAIN o.todo
  <2>1. group \in SUBSET Qsos /\ Tail(o.todo) \in Seq(SUBSET Qsos) /\ Len(Tail(o.todo)) = Len(o.todo) - 1
        /\ \A i \in 1..Len(Tail(o.todo)) : Tail(o.todo)[i] = o.todo[i + 1]
    BY <1>0, <1>3, HeadTailProperties
  <2>2. DOMAIN o.todo = 1..Len(o.todo) /\ Len(o.todo) \in Nat /\ DOMAIN Tail(o.todo) = 1..Len(Tail(o.todo))
    BY <1>3, <2>1, LenProperties
  <2>3. Len(o.todo) # 0 /\ group = o.todo[1]
    BY <1>0, <1>3
  <2>. QED BY <2>1, <2>2, <2>3
<1>5. \A q \in Qsos : Len(rows[q]) \in Nat /\ (rows[q] = <<>> <=> Len(rows[q]) = 0)
  BY DEF ImportInv, TypeOk
<1>6. \A q \in group \ found : o.imported => rows[q] = <<>> /\ o.added[q] = 0
  <2> SUFFICES ASSUME NEW q \in group \ found, o.imported PROVE Len(rows[q]) = 0 /\ o.added[q] = 0
    BY <1>4, <1>5
  <2>1. q \in Qsos /\ o.added[q] \in Nat /\ Len(rows[q]) \in Nat
    BY <1>3, <1>4, <1>5
  <2>2. Existing(o, q) = {}
    OBVIOUS
  <2>3. 0 \notin Existing(o, q) /\ Len(rows[q]) \notin Existing(o, q)
    BY <2>2
  <2>. QED BY <2>1, <2>3 DEF Existing
<1> HIDE DEF found, group
<1>7. \A q \in Qsos : added[q] = IF q \in group \ found THEN o.added[q] + 1 ELSE o.added[q]
  OBVIOUS
<1> HIDE DEF added
<1>8. \A q \in Qsos : r \notin overtaken /\ o.imported /\ added[q] > 0 => rows[q] = <<>>
  BY <1>2, <1>6, <1>7
<1>9. \A q \in Qsos : o.imported \/ ~Repeats => added[q] <= 1
  <2> SUFFICES ASSUME NEW q \in Qsos, o.imported \/ ~Repeats PROVE added[q] <= 1
    OBVIOUS
  <2>1. q \in group \ found => o.added[q] = 0
    BY <1>2, <1>4, <1>6
  <2>. QED BY <1>2, <1>7, <2>1
<1>10. ASSUME ~Repeats, NEW q \in Qsos, NEW i \in DOMAIN Tail(o.todo), q \in Tail(o.todo)[i]
       PROVE  /\ added[q] = 0
              /\ \A k \in DOMAIN Tail(o.todo) : q \in Tail(o.todo)[k] => k = i
  <2>1. i + 1 \in DOMAIN o.todo /\ q \in o.todo[i + 1] /\ i + 1 # 1
    BY <1>4, <1>10
  <2>2. q \notin group
    BY <1>2, <1>4, <1>10, <2>1
  <2>3. \A k \in DOMAIN Tail(o.todo) : q \in Tail(o.todo)[k] => k + 1 = i + 1
    BY <1>2, <1>4, <1>10, <2>1
  <2>4. \A k \in DOMAIN Tail(o.todo) : q \in Tail(o.todo)[k] => k = i
    BY <1>4, <2>3
  <2>. QED BY <1>2, <1>7, <1>10, <2>1, <2>2, <2>4
<1> HIDE DEF o
<1>11. \A v \in Importers, q \in Qsos : pc'[v] = "store" =>
         /\ v \notin overtaken' /\ job'[v].imported /\ job'[v].added[q] > 0 => rows'[q] = <<>>
         /\ job'[v].imported \/ ~Repeats => job'[v].added[q] <= 1
         /\ ~Repeats => \A i \in DOMAIN job'[v].todo : q \in job'[v].todo[i] =>
              /\ job'[v].added[q] = 0
              /\ \A k \in DOMAIN job'[v].todo : q \in job'[v].todo[k] => k = i
  <2> SUFFICES ASSUME NEW v \in Importers, NEW q \in Qsos, pc'[v] = "store"
               PROVE  /\ v \notin overtaken /\ job'[v].imported /\ job'[v].added[q] > 0 => rows[q] = <<>>
                      /\ job'[v].imported \/ ~Repeats => job'[v].added[q] <= 1
                      /\ ~Repeats => \A i \in DOMAIN job'[v].todo : q \in job'[v].todo[i] =>
                           /\ job'[v].added[q] = 0
                           /\ \A k \in DOMAIN job'[v].todo : q \in job'[v].todo[k] => k = i
    BY <1>0
  <2>1. CASE v = r
    BY <1>1, <1>8, <1>9, <1>10, <2>1
  <2>2. CASE v # r
    BY <1>0, <1>1, <2>2 DEF RowsInv
  <2>. QED BY <2>1, <2>2
<1>12. \A v \in Importers : job'[v].imported = job[v].imported
  BY <1>1 DEF o
<1>. QED BY <1>0, <1>11, <1>12 DEF RowsInv

(* The rows of a QSO grow by what the import has added.                     *)
LEMMA RowsGrow ==
  ASSUME ImportInv, NEW r \in Importers, Commit(r), NEW q \in Qsos
  PROVE  /\ Len(rows'[q]) = Len(rows[q]) + job[r].added[q]
         /\ Len(rows[q]) \in Nat /\ job[r].added[q] \in Nat
<1>1. rows'[q] = Written(job[r], q)
  BY DEF Commit
<1>2. job[r].added[q] > 0 \/ job[r].fixed[q] # {} => q \in DOMAIN job[r].got
  BY DEF Commit, ImportInv, StoresDownload
<1>. QED BY <1>1, <1>2, WrittenFacts DEF ImportInv

LEMMA RowsCommit ==
  ASSUME ImportInv, RowsInv, NEW r \in Importers, Commit(r)
  PROVE  RowsInv'
<1>0. /\ pc \in [Importers -> Places] /\ job \in [Importers -> Job]
      /\ imported' = TRUE
  BY DEF ImportInv, TypeOk, Places, Commit
<1>1. /\ pc'[r] = "finish"
      /\ \A v \in Importers \ {r} : /\ pc'[v] = pc[v] /\ job'[v] = job[v]
                                    /\ pc[v] \in {"download", "store"} => v \in overtaken'
  BY <1>0 DEF Commit, Becomes
<1>2. \A v \in Importers : pc'[v] \in {"download", "store"} =>
        pc[v] = pc'[v] /\ job'[v] = job[v] /\ v \in overtaken'
  <2> SUFFICES ASSUME NEW v \in Importers, pc'[v] \in {"download", "store"}
               PROVE  pc[v] = pc'[v] /\ job'[v] = job[v] /\ v \in overtaken'
    OBVIOUS
  <2>1. v \in Importers \ {r}
    BY <1>1
  <2>. QED BY <1>1, <2>1
<1>3. \A v \in Importers, q \in Qsos : pc'[v] = "store" =>
        /\ job'[v].imported \/ ~Repeats => job'[v].added[q] <= 1
        /\ ~Repeats => \A i \in DOMAIN job'[v].todo : q \in job'[v].todo[i] =>
             /\ job'[v].added[q] = 0
             /\ \A k \in DOMAIN job'[v].todo : q \in job'[v].todo[k] => k = i
  BY <1>2 DEF RowsInv
<1>. QED BY <1>0, <1>2, <1>3 DEF RowsInv

LEMMA RowsStep == ImportInv /\ RowsInv /\ [Next]_vars => RowsInv'
<1> SUFFICES ASSUME ImportInv, RowsInv, [Next]_vars PROVE RowsInv'
  OBVIOUS
<1>0. pc \in [Importers -> Places] /\ job \in [Importers -> Job]
  BY DEF ImportInv, TypeOk, Places
<1>1. ASSUME NEW r \in Importers,
             \/ Begin(r) \/ Settle(r) \/ SettleFailed(r) \/ StatusFails(r) \/ End(r)
             \/ RequestImport(r) \/ Fail(r) \/ Crash(r)
      PROVE  RowsInv'
  <2>1. UNCHANGED <<rows, imported, overtaken>>
    BY <1>1 DEF Begin, Settle, SettleFailed, StatusFails, End, RequestImport, Fail, Crash, userVars, history
  <2>2. /\ pc'[r] \notin {"download", "store"}
        /\ \A v \in Importers \ {r} : pc'[v] = pc[v] /\ job'[v] = job[v]
    BY <1>0, <1>1 DEF Begin, Settle, SettleFailed, StatusFails, End, RequestImport, Fail, Crash, Becomes
  <2>. QED BY <2>1, <2>2, RowsBeside
<1>2. CASE Browse \/ GrowOld \/ Tick \/ UNCHANGED vars \/ \E q \in Qsos : Confirm(q)
  <2>1. UNCHANGED <<rows, imported, overtaken, job>>
    BY <1>2 DEF Browse, Login, Leave, AskImport, Follow, Reload, Visit, GrowOld, Tick, Confirm,
                vars, userVars, runVars, history
  <2>2. UNCHANGED pc \/ \E p \in Importers : pc' = [pc EXCEPT ![p] = "queued"]
    BY <1>2 DEF Browse, Login, Leave, AskImport, Follow, Reload, Visit, Refresh, Enqueue, Importers,
                GrowOld, Tick, Confirm, vars, userVars, runVars
  <2>3. \A r \in Importers : pc'[r] \in {"download", "store"} => pc'[r] = pc[r]
    BY <1>0, <2>2
  <2>. QED BY <2>1, <2>3, RowsBeside
<1>. QED BY <1>1, <1>2, RowsDownload, RowsStore, RowsCommit DEF Next, Import

(* Rows are inserted by commits only.                                       *)
LEMMA RowsOnlyByCommit ==
  ASSUME [Next]_vars
  PROVE  UNCHANGED rows \/ \E r \in Importers : Commit(r)
  BY DEF Next, Import, Begin, Read, Download, StoreGroup, Settle, SettleFailed, StatusFails, End,
         RequestImport, Fail, Crash, Browse, Login, Leave, AskImport, Follow, Reload, Visit,
         GrowOld, Tick, Confirm, vars, userVars, runVars

(* A QSO that has a row gets another only from an import that another one   *)
(* overtook, whatever imports fail, are killed, or ask for the same days    *)
(* again; more than one at once only when a first import is given its row   *)
(* twice (app/services/qso_import.py:55-116).                               *)
THEOREM SecondRows == Spec => OneRowPerQso
<1>1. Init => RowsInv
  BY DEF Init, RowsInv
<1>2. ImportInv /\ RowsInv /\ [Next]_vars => RowsInv'
  BY RowsStep
<1>3. ASSUME ImportInv, RowsInv, [Next]_vars, NEW q \in Qsos,
             Len(rows'[q]) > Len(rows[q]), Len(rows'[q]) > 1
      PROVE  \E r \in Importers :
               /\ pc[r] = "store" /\ pc'[r] = "finish"
               /\ r \in overtaken \/ (Repeats /\ ~job[r].imported /\ rows[q] = <<>>)
  <2>1. Len(rows[q]) \in Nat /\ (rows[q] = <<>> => Len(rows[q]) = 0)
    BY <1>3 DEF ImportInv, TypeOk
  <2>2. PICK r \in Importers : Commit(r)
    BY <1>3, <2>1, RowsOnlyByCommit
  <2>3. pc[r] = "store" /\ pc'[r] = "finish"
    BY <1>3, <2>2 DEF Commit, Becomes, ImportInv, TypeOk
  <2>4. job[r].added[q] \in Nat /\ Len(rows'[q]) = Len(rows[q]) + job[r].added[q]
    BY <1>3, <2>2, RowsGrow
  <2>5. job[r].added[q] > 0
    BY <1>3, <2>1, <2>4
  <2>6. ASSUME r \notin overtaken PROVE Repeats /\ ~job[r].imported /\ rows[q] = <<>>
    <3>1. rows[q] = <<>>
      <4>1. job[r].imported = imported
        BY <1>3, <2>3, <2>6 DEF RowsInv
      <4>. QED BY <1>3, <2>3, <2>5, <2>6, <4>1 DEF RowsInv
    <3>2. ~(job[r].added[q] <= 1)
      BY <1>3, <2>1, <2>4, <3>1
    <3>3. ~(job[r].imported \/ ~Repeats)
      BY <1>3, <2>3, <3>2 DEF RowsInv
    <3>. QED BY <3>1, <3>3
  <2>. QED BY <2>3, <2>6
<1>4. ImportInv /\ RowsInv /\ [Next]_vars =>
        [\A q \in Qsos : Len(rows'[q]) > Len(rows[q]) /\ Len(rows'[q]) > 1 =>
           \E r \in Importers :
             /\ pc[r] = "store" /\ pc'[r] = "finish"
             /\ r \in overtaken \/ (Repeats /\ ~job[r].imported /\ rows[q] = <<>>)]_vars
  BY <1>3
<1>. QED BY <1>1, <1>2, <1>4, ImportInvariant, PTL DEF Spec, OneRowPerQso
=============================================================================
