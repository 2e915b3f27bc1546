-------------------------- MODULE DigestGeneration --------------------------
(***************************************************************************)
(* The generation half of the daily QSL digest (app/services/qsl_digest.py)*)
(* inside the cron cycle of scripts/run_digest_cycle.py: for every user    *)
(* due, one transaction computes the window of the digest from the user's  *)
(* timezone, digest time and cursor, and creates or overwrites the batch   *)
(* of that date; then the cycle purges old batches and announces the       *)
(* others.  How an announcement reaches the user is DigestDelivery's.      *)
(*                                                                         *)
(* Time is counted in ticks; a day has Day of them.  A timezone is its     *)
(* offset from UTC, so a DST change is a change of timezone.  flock lets   *)
(* one cycle run at a time.                                                *)
(***************************************************************************)
EXTENDS Integers, FiniteSets

CONSTANTS
    Users,
    Qsls,        \* rows of qso_reports that get a QSL
    QslOwner,    \* the user of a row
    Day,         \* ticks of a day
    Offsets,     \* timezones users may have, in ticks
    Times,       \* digest_time_local users may choose, in ticks after midnight
    Retention,   \* DIGEST_RETENTION_DAYS
    Dates,       \* bound: dates the model knows
    FirstTick, LastTick,    \* bound: the clock
    MaxChanges,  \* bound: changes of timezone, digest time, eligibility, or
                 \* of the date of a stored QSL
    MaxCrashes,  \* bound: cycles killed
    NoCursor, NoBatch

ASSUME DayAssumption   == Day \in Nat \ {0} /\ Times \subseteq 0..(Day - 1)
ASSUME ZoneAssumption  == Offsets \subseteq Int
ASSUME OwnerAssumption == QslOwner \in [Qsls -> Users]
ASSUME ClockAssumption == FirstTick \in Int /\ LastTick \in Int /\ Retention \in Nat
                          /\ MaxChanges \in Nat /\ MaxCrashes \in Nat /\ FirstTick <= LastTick
                          /\ Dates \subseteq Int

VARIABLES
    clock,
    zone, at,        \* users.timezone and qsl_digest_time_local, by user
    enabled,         \* qsl_digest_enabled
    able,            \* entitlement, LoTW state and cookies let the digest go on
    rx,              \* app_lotw_rxqsl of each row imported with a QSL
    cursor,          \* last_digest_cursor_at
    batch,           \* qsl_digest_batches, by user and digest_date
    sent,            \* the batches with a "sent" delivery
    stage,           \* where the cycle is
    now, zoneRead,   \* its clock and the timezones it has read
    todo, drawn,     \* users still to visit, windows of its open transaction
    told,            \* history: the entries of the announcements of each date
    origin,          \* history: per user, the start of the first window
    late,            \* history: QSLs imported, or dated anew, when a digest
                     \* had been drawn up to their date
    shed,            \* history: QSLs that an unannounced batch lost, when it
                     \* was given another window or deleted
    changes, crashes \* bound counters

settings == <<zone, at, enabled, able>>
dbVars   == <<cursor, batch, sent>>
runVars  == <<stage, now, zoneRead, todo, drawn>>
history  == <<told, origin, late, shed>>
bounds   == <<changes, crashes>>
vars     == <<clock, settings, rx, dbVars, runVars, history, bounds>>

Window == [date : Int, start : Int, end : Int]
Entry  == Qsls \X Int      \* of a payload: the row and its rxqsl_at
Batch  == [start : Int, end : Int, qsls : SUBSET Entry]

ASSUME AbsentAssumption == NoCursor \notin Int /\ NoBatch \notin Batch

-----------------------------------------------------------------------------
(* Mutants are what the code would be after a plausible slip; each one must *)
(* break a property.  Here the window takes no notice of the cursor, or     *)
(* takes it even when the batch is generated again.                         *)
ScheduleNoCursor(t, offset, time, cur) ==
    LET today == (t + offset) \div Day
        date  == IF t + offset >= today * Day + time THEN today ELSE today - 1
        end   == date * Day + time - offset
    IN  [date |-> date, start |-> end - Day, end |-> end]
ScheduleAnyCursor(t, offset, time, cur) ==
    LET w == ScheduleNoCursor(t, offset, time, cur)
    IN  [w EXCEPT !.start = IF cur # NoCursor THEN cur ELSE w.start]

(* compute_digest_schedule.                                                 *)
Schedule(t, offset, time, cur) ==
    LET local == t + offset
        today == local \div Day
        date  == IF local >= today * Day + time THEN today ELSE today - 1
        end   == date * Day + time - offset
        start == IF cur # NoCursor /\ cur < end THEN cur ELSE end - Day
    IN  [date |-> date, start |-> start, end |-> end]

(* The bound on dates leaves out none that the clock reaches.               *)
ASSUME DateAssumption == \A t \in FirstTick..LastTick, o \in Offsets, time \in Times :
                            Schedule(t, o, time, NoCursor).date \in Dates

DueDate(u) == Schedule(clock, zone[u], at[u], NoCursor).date

(* Mutant: both ends of the window belong to it.                            *)
InClosedWindow(u, w) ==
    {<<q, rx[q]>> : q \in {p \in DOMAIN rx : QslOwner[p] = u /\ w.start <= rx[p] /\ rx[p] <= w.end}}

(* get_qsls_for_digest_window: what has been imported, start < rxqsl <= end. *)
InWindow(u, w) ==
    {<<q, rx[q]>> : q \in {p \in DOMAIN rx : QslOwner[p] = u /\ w.start < rx[p] /\ rx[p] <= w.end}}

(* QSLs whose entry a batch has and has not announced.                      *)
Untold(u, d) == IF batch[u][d] = NoBatch THEN {}
                ELSE {q \in DOMAIN rx : <<q, rx[q]>> \in batch[u][d].qsls \ told[u][d]}
(* A digest up to the instant t is committed, or drawn and not committed.   *)
Reached(u, t) == cursor[u] # NoCursor /\ t <= cursor[u]
Drawn(u, t)   == u \in DOMAIN drawn /\ t <= drawn[u][1].end
Outside(q, w) == ~(w.start < rx[q] /\ rx[q] <= w.end)

(* The first date purge_old_digest_data keeps.                              *)
CutoffToday == clock \div Day    \* mutant: the days to keep are forgotten
Cutoff == (clock \div Day) - Retention
Expired(d) == Retention > 0 /\ d < Cutoff

-----------------------------------------------------------------------------
TypeOk ==
    /\ clock \in FirstTick..LastTick
    /\ zone \in [Users -> Offsets] /\ at \in [Users -> Times]
    /\ enabled \in [Users -> BOOLEAN] /\ able \in [Users -> BOOLEAN]
    /\ DOMAIN rx \subseteq Qsls /\ \A q \in DOMAIN rx : rx[q] \in FirstTick..LastTick
    /\ cursor \in [Users -> Int \union {NoCursor}]
    /\ batch \in [Users -> [Dates -> Batch \union {NoBatch}]]
    /\ sent \in [Users -> SUBSET Dates]
    /\ stage \in {"idle", "generate", "purge", "announce"}
    /\ now \in FirstTick..LastTick /\ zoneRead \in [Users -> Offsets]
    /\ todo \in SUBSET Users
    /\ DOMAIN drawn \subseteq Users \ todo
    /\ \A u \in DOMAIN drawn : drawn[u] \in Window \X SUBSET Entry
    /\ told \in [Users -> [Dates -> SUBSET Entry]]
    /\ origin \in [Users -> Int \union {NoCursor}]
    /\ late \subseteq Qsls /\ shed \subseteq Qsls
    /\ changes \in 0..MaxChanges /\ crashes \in 0..MaxCrashes

Nothing == [u \in {} |-> 0]

Init ==
    /\ clock = FirstTick
    /\ zone \in [Users -> Offsets] /\ at \in [Users -> Times]
    /\ enabled = [u \in Users |-> TRUE] /\ able = [u \in Users |-> TRUE]
    /\ rx = [q \in {} |-> 0]
    /\ cursor = [u \in Users |-> NoCursor]
    /\ batch = [u \in Users |-> [d \in Dates |-> NoBatch]]
    /\ sent = [u \in Users |-> {}]
    /\ stage = "idle" /\ now = FirstTick /\ zoneRead = zone
    /\ todo = {} /\ drawn = Nothing
    /\ told = [u \in Users |-> [d \in Dates |-> {}]]
    /\ origin = [u \in Users |-> NoCursor] /\ late = {} /\ shed = {}
    /\ changes = 0 /\ crashes = 0

-----------------------------------------------------------------------------
(* The cycle.                                                               *)

(* run_due_qsl_digest_generation opens its transaction: the clock, and the  *)
(* rows of the users whose digest is enabled and who may have one.          *)
Begin ==
    /\ stage = "idle"
    /\ stage' = "generate" /\ now' = clock /\ zoneRead' = zone
    /\ todo' = {u \in Users : enabled[u] /\ able[u]}
    /\ drawn' = Nothing
    /\ UNCHANGED <<clock, settings, rx, dbVars, history, bounds>>

(* Mutant: a digest due right now is put off.                               *)
VisitLate(u) ==
    LET w == Schedule(now, zoneRead[u], at[u], cursor[u]) IN
    /\ stage = "generate" /\ u \in todo
    /\ todo' = todo \ {u}
    /\ drawn' = IF enabled[u] /\ w.end < now
                THEN [v \in DOMAIN drawn \union {u} |->
                        IF v = u THEN <<w, InWindow(u, w)>> ELSE drawn[v]]
                ELSE drawn
    /\ UNCHANGED <<clock, settings, rx, dbVars, stage, now, zoneRead, history, bounds>>

(* One turn of its loop.  The preference is read only here.                 *)
Visit(u) ==
    LET w == Schedule(now, zoneRead[u], at[u], cursor[u]) IN
    /\ stage = "generate" /\ u \in todo
    /\ todo' = todo \ {u}
    /\ drawn' = IF enabled[u] /\ w.end <= now
                THEN [v \in DOMAIN drawn \union {u} |->
                        IF v = u THEN <<w, InWindow(u, w)>> ELSE drawn[v]]
                ELSE drawn
    /\ UNCHANGED <<clock, settings, rx, dbVars, stage, now, zoneRead, history, bounds>>

(* The batches and cursors of all users are committed at once.              *)
Commit ==
    /\ stage = "generate" /\ todo = {}
    /\ stage' = "purge"
    /\ batch' = [u \in Users |-> [d \in Dates |->
          IF u \in DOMAIN drawn /\ drawn[u][1].date = d
          THEN [start |-> drawn[u][1].start, end |-> drawn[u][1].end, qsls |-> drawn[u][2]]
          ELSE batch[u][d]]]
    /\ cursor' = [u \in Users |-> IF u \in DOMAIN drawn THEN drawn[u][1].end ELSE cursor[u]]
    /\ origin' = [u \in Users |-> IF u \in DOMAIN drawn /\ origin[u] = NoCursor
                                  THEN drawn[u][1].start ELSE origin[u]]
    /\ shed' = shed \union
         UNION {{q \in Untold(u, drawn[u][1].date) : Outside(q, drawn[u][1])} : u \in DOMAIN drawn}
    /\ drawn' = Nothing
    /\ UNCHANGED <<clock, settings, rx, sent, now, zoneRead, todo, told, late, bounds>>

(* purge_old_digest_data, with the clock of its own start.                  *)
Purge ==
    /\ stage = "purge"
    /\ stage' = "announce"
    /\ batch' = [u \in Users |-> [d \in Dates |-> IF Expired(d) THEN NoBatch ELSE batch[u][d]]]
    /\ sent' = [u \in Users |-> {d \in sent[u] : ~Expired(d)}]
    /\ shed' = shed \union UNION {Untold(u, d) : u \in Users, d \in {e \in Dates : Expired(e)}}
    /\ UNCHANGED <<clock, settings, rx, cursor, now, zoneRead, todo, drawn,
                   told, origin, late, bounds>>

(* A dispatch that succeeds: the message names the QSLs the batch now has.  *)
Announce(u, d) ==
    /\ stage = "announce"
    /\ batch[u][d] # NoBatch /\ batch[u][d].qsls # {} /\ d \notin sent[u]
    /\ sent' = [sent EXCEPT ![u] = @ \union {d}]
    /\ told' = [told EXCEPT ![u][d] = @ \union batch[u][d].qsls]
    /\ UNCHANGED <<clock, settings, rx, cursor, batch, runVars, origin, late, shed, bounds>>

(* The script ends; a dispatch may have failed, and is left for later.      *)
Finish ==
    /\ stage = "announce"
    /\ stage' = "idle"
    /\ UNCHANGED <<clock, settings, rx, dbVars, now, zoneRead, todo, drawn, history, bounds>>

(* Killed, or stopped by an exception in the work of any one user: the      *)
(* transaction of all of them is rolled back.                               *)
Crash ==
    /\ stage # "idle"
    /\ crashes < MaxCrashes /\ crashes' = crashes + 1
    /\ stage' = "idle" /\ todo' = {} /\ drawn' = Nothing
    /\ late' = {q \in late : Reached(QslOwner[q], rx[q])}
    /\ UNCHANGED <<clock, settings, rx, dbVars, now, zoneRead, told, origin, shed, changes>>

-----------------------------------------------------------------------------
(* Meanwhile.                                                               *)

Tick ==
    /\ clock < LastTick /\ clock' = clock + 1
    /\ UNCHANGED <<settings, rx, dbVars, runVars, history, bounds>>

Change == changes < MaxChanges /\ changes' = changes + 1 /\ UNCHANGED crashes

(* An import finds a QSL that LoTW received some time ago, or a stored one  *)
(* with another date.                                                       *)
Import(q, t) ==
    /\ t <= clock
    /\ IF q \in DOMAIN rx THEN t # rx[q] /\ Change ELSE UNCHANGED bounds
    /\ rx' = [p \in DOMAIN rx \union {q} |-> IF p = q THEN t ELSE rx[p]]
    /\ late' = IF Reached(QslOwner[q], t) \/ Drawn(QslOwner[q], t) THEN late \union {q}
               ELSE late \ {q}
    /\ shed' = shed \ {q}
    /\ UNCHANGED <<clock, settings, dbVars, runVars, told, origin>>

(* notification_settings, POST: digest time, on or off, and the timezone.   *)
SaveSettings(u, offset, time, on) ==
    /\ Change
    /\ zone' = [zone EXCEPT ![u] = offset]
    /\ at' = [at EXCEPT ![u] = time]
    /\ enabled' = [enabled EXCEPT ![u] = on]
    /\ UNCHANGED <<clock, able, rx, dbVars, runVars, history>>

(* The subscription lapses, LoTW cookies expire, a fetch fails, or back.    *)
Eligibility(u) ==
    /\ Change
    /\ able' = [able EXCEPT ![u] = ~@]
    /\ UNCHANGED <<clock, zone, at, enabled, rx, dbVars, runVars, history>>

Cycle == \/ Begin \/ Commit \/ Purge \/ Finish
         \/ \E u \in Users : Visit(u) \/ \E d \in Dates : Announce(u, d)
World == \/ Tick
         \/ \E q \in Qsls, t \in FirstTick..LastTick : Import(q, t)
         \/ \E u \in Users : \/ Eligibility(u)
                             \/ \E o \in Offsets, t \in Times, on \in BOOLEAN :
                                   SaveSettings(u, o, t, on)

Next == Cycle \/ Crash \/ World
Spec == Init /\ [][Next]_vars

(* Cron starts a cycle again and again, and a process that runs goes on.    *)
(* Nothing makes the clock tick or users act.                               *)
FairSpec == Spec /\ WF_vars(Cycle)

-----------------------------------------------------------------------------
(* Whatever users change and whenever cycles are killed, a QSL of a date    *)
(* between a user's first window and the cursor is in a batch or has been   *)
(* announced.  The exceptions are the code's: it was imported after its     *)
(* window had been drawn; or its batch, not yet announced, was given        *)
(* another window - as a catch-up over missed days is by the next cycle of  *)
(* the day, and any batch by a change of timezone or digest time - or was   *)
(* deleted by the retention.                                                *)
NothingSkipped == \A q \in DOMAIN rx : LET u == QslOwner[q] IN
    /\ Reached(u, rx[q]) /\ origin[u] < rx[q]
    /\ q \notin late \union shed
    => \E d \in Dates : \/ batch[u][d] # NoBatch /\ <<q, rx[q]>> \in batch[u][d].qsls
                        \/ <<q, rx[q]>> \in told[u][d]

(* With a timezone and digest time that stay, no QSL is announced twice: the *)
(* windows of different dates are disjoint, over pauses and late imports.   *)
(* A QSL that an import dates anew may be announced anew, with its new date *)
(* and never again with the old one.                                        *)
NoRepeat == \A u \in Users, d \in Dates, e \in Dates :
    d # e => told[u][d] \intersect told[u][e] = {}

(* With a timezone and digest time that stay, generating a one-day digest   *)
(* again, as every cycle of the day does, gives the same window.            *)
OneDayWindowKept ==
    [][\A u \in Users, d \in Dates :
         batch[u][d] # NoBatch /\ batch[u][d].end - batch[u][d].start = Day
           => batch'[u][d] = NoBatch \/ ( batch'[u][d].start = batch[u][d].start
                                        /\ batch'[u][d].end = batch[u][d].end)]_vars

(* The purge never deletes the batch of the date that is due, which this    *)
(* very cycle may have generated and not yet announced, in any timezone.    *)
PurgeSparesDue ==
    [][\A u \in Users, d \in Dates :
         batch[u][d] # NoBatch /\ batch'[u][d] = NoBatch => d # DueDate(u)]_vars

(* A user who stays eligible gets the digest that is due, whatever happens  *)
(* to single cycles.                                                        *)
DueIsGenerated == \A u \in Users, d \in Dates :
    enabled[u] /\ able[u] /\ DueDate(u) = d
      ~> ~enabled[u] \/ ~able[u] \/ DueDate(u) # d \/ batch[u][d] # NoBatch
=============================================================================
