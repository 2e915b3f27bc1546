------------------------------- MODULE Schema -------------------------------
(***************************************************************************)
(* How the schema of the database comes about.  Two parts of the program   *)
(* create it: the migrations (alembic/versions), all of those that are due *)
(* in one transaction (alembic/env.py), and create_all, which every start  *)
(* of the application runs, cron's among them (app/database/__init__.py).  *)
(* Each looks at what there is and adds what it misses; neither knows of   *)
(* the other.                                                              *)
(*                                                                         *)
(* The database is PostgreSQL: DDL is transactional, what a transaction    *)
(* has changed is seen at its commit and is locked until then, a statement *)
(* that fails spoils the transaction, and of transactions that wait for    *)
(* each other one is ended.                                                *)
(***************************************************************************)
EXTENDS Integers, Sequences, FiniteSets

CONSTANTS
    Admins,      \* processes that run alembic
    Apps,        \* processes that start the application
    Releases,    \* versions of the databases that older code has left
    MaxUpsets    \* bound: downgrades and processes killed

Procs == Admins \union Apps

ASSUME ProcAssumption  == Admins \intersect Apps = {}
ASSUME BoundAssumption == MaxUpsets \in Nat /\ Releases \subseteq 0..4

VARIABLES
    db,          \* what is committed, as pairs of a table and a part of it
    version,     \* the row of alembic_version, 0: none
    pc, job,     \* per process: where it is, its transaction
    ahead,       \* per process: those whose statement asked for its lock
                 \* before and has not got it
    lone,        \* history: processes that no other has run beside
    outcome,     \* history: how the last run of each process ended
    upsets       \* bound counter

history == <<lone, outcome>>
vars    == <<db, version, pc, job, ahead, history, upsets>>

Head4 == 4

-----------------------------------------------------------------------------
(* The schema.  A part is the table itself, a group of columns that one     *)
(* migration adds, or a group of indexes.                                   *)

Tables == {"users", "qso_reports", "stripe_events", "notification_preferences",
           "web_push_subscriptions", "qsl_digest_batches", "notification_deliveries"}

(* Foreign keys.                                                            *)
Parents(t) == CASE t \in {"alembic_version", "users", "stripe_events"} -> {}
                [] t = "notification_deliveries" -> {"users", "qsl_digest_batches"}
                [] OTHER -> {"users"}

UsersParts == {"table", "lotw", "billing", "mail", "index"}
PrefsParts == {"table", "email", "index"}
(* `unique=True` alone is a constraint, not the index of the migration.     *)
PushParts  == {"table", "index", "uq_endpoint"}

Declared(t) == {t} \X CASE t = "users"                    -> UsersParts
                        [] t = "notification_preferences" -> PrefsParts
                        [] t = "web_push_subscriptions"   -> PushParts
                        [] OTHER                          -> {"table", "index"}

Step(kind, t, part) == [kind |-> kind, table |-> t, part |-> part]
Inspect      == Step("inspect", "users", "table")
Create(t)    == Step("create", t, "table")
Add(t, part) == Step("add", t, part)
Drop(t, part) == Step("drop", t, part)
Remove(t)    == Step("remove", t, "table")

(* 20260212_01, lotw health columns.                                        *)
Upgrade1   == <<Inspect, Add("users", "lotw")>>
Downgrade1 == <<Inspect, Drop("users", "lotw")>>

(* 20260213_02, billing and indexes.  Creating stripe_events and its index  *)
(* is one function, which returns if the table is there.                    *)
StripeEvents == <<Inspect, Create("stripe_events"), Inspect, Add("stripe_events", "index")>>
Upgrade2   == <<Inspect, Add("users", "billing"), Add("users", "index"),
                Add("qso_reports", "index")>> \o StripeEvents
Downgrade2 == <<Inspect, Remove("stripe_events"), Drop("qso_reports", "index"),
                Drop("users", "index"), Drop("users", "billing")>>

(* 20260214_03, digest tables.                                              *)
DigestTables  == <<Inspect, Add("users", "mail"), Create("notification_preferences"),
                   Create("web_push_subscriptions"), Create("qsl_digest_batches"),
                   Create("notification_deliveries")>>
DigestIndexes == <<Add("notification_preferences", "index"),
                   Add("web_push_subscriptions", "index"),
                   Add("web_push_subscriptions", "ix_endpoint"),
                   Add("qsl_digest_batches", "index"),
                   Add("notification_deliveries", "index")>>

(* Mutants are what the code would be after a plausible slip; each one must *)
(* break a property.  Here the inspector is not refreshed.                  *)
Upgrade3Stale == DigestTables \o DigestIndexes

Upgrade3 == DigestTables \o <<Inspect>> \o DigestIndexes
Downgrade3 == <<Inspect, Remove("notification_deliveries"), Inspect, Remove("qsl_digest_batches"),
                Inspect, Remove("web_push_subscriptions"),
                Inspect, Remove("notification_preferences"), Inspect, Drop("users", "mail")>>

(* 20260215_04, notification email.                                         *)
Upgrade4   == <<Inspect, Add("notification_preferences", "email")>>
Downgrade4 == <<Inspect, Drop("notification_preferences", "email")>>

Upgrades   == <<Upgrade1, Upgrade2, Upgrade3, Upgrade4>>
Downgrades == <<Downgrade1, Downgrade2, Downgrade3, Downgrade4>>
Migration(from, to) == IF to > from THEN Upgrades[from + 1] ELSE Downgrades[from]

(* alembic's own table, created before the first migration.                 *)
VersionTable == <<Inspect, Create("alembic_version")>>

(* create_all: looks for every table first, then creates those that are     *)
(* missing, each with all its parts, after those it refers to.              *)
Declare(t) == Step("declare", t, "table")
CreateAll  == <<Inspect, Declare("stripe_events"), Declare("users"),
                Declare("notification_preferences"), Declare("qsl_digest_batches"),
                Declare("qso_reports"), Declare("web_push_subscriptions"),
                Declare("notification_deliveries")>>

(* What the migrations up to v create, and databases the program may meet:  *)
(* an empty one, and one that older code made and migrated to v.            *)
Made(v)   == UNION {{<<Upgrades[i][k].table, Upgrades[i][k].part>> :
                        k \in {j \in DOMAIN Upgrades[i] : Upgrades[i][j].kind \in {"create", "add"}}}
                    : i \in 1..v}
OldTables == {<<"users", "table">>, <<"qso_reports", "table">>}
Older(v)  == OldTables \union Made(v) \union (IF v = 0 THEN {} ELSE {<<"alembic_version", "table">>})

-----------------------------------------------------------------------------
(* Transactions.                                                            *)

NoJob == [steps |-> <<>>, names |-> {}, own |-> {}, gone |-> {}, base |-> 0, at |-> 0,
          target |-> 0, spoilt |-> FALSE]

Visible(p)  == (db \union job[p].own) \ job[p].gone
Has(p, t)   == <<t, "table">> \in Visible(p)
Current(p)  == Head(job[p].steps)

(* What a change of a part locks; a key to another table locks that, too.   *)
Takes(object) == {object[1]} \union IF object[2] = "table" THEN Parents(object[1]) ELSE {}
Held(p)  == (UNION {Takes(o) : o \in job[p].own \union job[p].gone})
              \union (IF job[p].at # job[p].base THEN {"alembic_version"} ELSE {})
Needs(p) == CASE pc[p] = "act"   -> Takes(<<Current(p).table, Current(p).part>>)
              [] pc[p] = "stamp" -> {"alembic_version"}
              [] OTHER           -> {}
Blockers(p) == {q \in Procs \ {p} : Needs(p) \intersect Held(q) # {}}

(* Locks are granted in the order in which they were asked for.             *)
Asks(p) == pc[p] \in {"act", "stamp"}
Free(p) == /\ Blockers(p) = {}
           /\ \A q \in ahead[p] : Blockers(q) = {} => Needs(q) \intersect Needs(p) = {}
Queue(p) == ahead' = [q \in Procs |-> IF q # p THEN ahead[q] \ {p}
                                     ELSE {o \in Procs \ {p} : Asks(p)' /\ Asks(o)'}]

(* p waits for itself over others.                                          *)
Deadlocked(p) ==
    \E q \in Blockers(p) : \/ p \in Blockers(q)
                           \/ \E r \in Blockers(q) : p \in Blockers(r)

Objects == ((Tables \union {"alembic_version"}) \X
              {"table", "lotw", "billing", "mail", "email", "index", "uq_endpoint", "ix_endpoint"})

TypeOk ==
    /\ db \subseteq Objects
    /\ version \in 0..Head4
    /\ pc \in [Procs -> {"idle", "look", "act", "stamp", "commit"}]
    /\ ahead \in [Procs -> SUBSET Procs]
    /\ \A p \in Procs :
         /\ job[p].names \subseteq Tables \union {"alembic_version"}
         /\ job[p].own \subseteq Objects /\ job[p].gone \subseteq Objects
         /\ job[p].base \in 0..Head4 /\ job[p].at \in 0..Head4 /\ job[p].target \in 0..Head4
         /\ job[p].spoilt \in BOOLEAN
    /\ lone \subseteq Procs /\ outcome \in [Procs -> {"none", "done", "failed"}]
    /\ upsets \in 0..MaxUpsets

Init ==
    /\ \/ db = {} /\ version = 0
       \/ version \in Releases /\ db = Older(version)
    /\ pc = [p \in Procs |-> "idle"] /\ job = [p \in Procs |-> NoJob]
    /\ ahead = [p \in Procs |-> {}]
    /\ lone = {} /\ outcome = [p \in Procs |-> "none"]
    /\ upsets = 0

-----------------------------------------------------------------------------
(* After the steps of a migration its version is stamped.                   *)
After(j, steps) == IF steps # <<>> THEN "look" ELSE IF j.at # j.target THEN "stamp" ELSE "commit"

Begins(p, steps, target) ==
    /\ pc[p] = "idle"
    /\ LET j == [NoJob EXCEPT !.steps = steps, !.base = version, !.at = version, !.target = target]
       IN  job' = [job EXCEPT ![p] = j] /\ pc' = [pc EXCEPT ![p] = After(j, steps)]
    /\ lone' = IF \A q \in Procs \ {p} : pc[q] = "idle" THEN {p} ELSE {}
    /\ outcome' = [outcome EXCEPT ![p] = "none"]
    /\ UNCHANGED <<db, version>>

Downgrading(p) == pc[p] # "idle" /\ job[p].target < job[p].base

(* alembic upgrade head.  Administrators do not upgrade and downgrade at    *)
(* once: an upgrade would find the version it began with back again.        *)
StartUpgrade(p) ==
    /\ p \in Admins /\ version < Head4
    /\ \A q \in Admins : ~Downgrading(q)
    /\ Begins(p, (IF version = 0 THEN VersionTable ELSE <<>>) \o Migration(version, Head4), Head4)
    /\ UNCHANGED upsets

(* alembic downgrade.                                                       *)
StartDowngrade(p, target) ==
    /\ p \in Admins /\ target < version
    /\ \A q \in Admins : pc[q] = "idle"
    /\ upsets < MaxUpsets /\ upsets' = upsets + 1
    /\ Begins(p, Migration(version, target), target)

StartApp(p) == p \in Apps /\ Begins(p, CreateAll, version) /\ UNCHANGED upsets

Continues(p, j, steps) ==
    /\ job' = [job EXCEPT ![p] = [j EXCEPT !.steps = steps]]
    /\ pc' = [pc EXCEPT ![p] = After(j, steps)]

Ends(p, how) ==
    /\ job' = [job EXCEPT ![p] = NoJob] /\ pc' = [pc EXCEPT ![p] = "idle"]
    /\ outcome' = [outcome EXCEPT ![p] = how]
Fails(p) == Ends(p, "failed") /\ UNCHANGED <<db, version, lone>>

(* Mutants: tables, or columns, are created without a look.                 *)
WantedAnew(p, s) ==
    IF s.kind = "create" THEN TRUE
    ELSE (s.table \in job[p].names) = (s.kind # "declare")
         /\ s.kind \in {"add", "drop"} => (<<s.table, s.part>> \in Visible(p)) = (s.kind = "drop")
WantedTwice(p, s) ==
    /\ (s.table \in job[p].names) = (s.kind \notin {"create", "declare"})
    /\ s.kind = "drop" => <<s.table, s.part>> \in Visible(p)

(* An inspector keeps the names of the tables; columns and indexes are read *)
(* when they are needed.                                                    *)
Wanted(p, s) ==
    LET known == s.table \in job[p].names
        there == <<s.table, s.part>> \in Visible(p)
    IN  CASE s.kind \in {"create", "declare"} -> ~known
          [] s.kind = "remove"                -> known
          [] s.kind = "add"                   -> known /\ ~there
          [] s.kind = "drop"                  -> known /\ there

(* Mutant: any table that is found ends what its migration creates.         *)
SkipRest(s, steps) == IF s.kind = "create" THEN SubSeq(steps, 4, Len(steps)) ELSE Tail(steps)

(* stripe_events found: the function returns.                               *)
Skip(s, steps) == IF s = Create("stripe_events") THEN SubSeq(steps, 4, Len(steps)) ELSE Tail(steps)

Look(p) ==
    LET j == job[p]
        s == Current(p)
    IN
    /\ pc[p] = "look" /\ UNCHANGED upsets
    /\ CASE j.spoilt -> Fails(p)
         [] ~j.spoilt /\ s.kind = "inspect" ->
              /\ Continues(p, [j EXCEPT !.names = {t \in Tables \union {"alembic_version"} : Has(p, t)}],
                           Tail(j.steps))
              /\ UNCHANGED <<db, version, history>>
         [] ~j.spoilt /\ s.kind # "inspect" /\ Wanted(p, s) ->
              /\ pc' = [pc EXCEPT ![p] = "act"]
              /\ UNCHANGED <<db, version, job, history>>
         [] OTHER ->
              /\ Continues(p, j, Skip(s, j.steps))
              /\ UNCHANGED <<db, version, history>>

(* Would the statement fail?                                                *)
Duplicate(p, s) == s.kind \in {"create", "declare", "add"} /\ <<s.table, s.part>> \in Visible(p)
Dangling(p, s)  ==
    CASE s.kind \in {"create", "declare"} -> \E t \in Parents(s.table) : ~Has(p, t)
      [] s.kind = "add"    -> ~Has(p, s.table)
      [] s.kind = "drop"   -> <<s.table, s.part>> \notin Visible(p)
      [] s.kind = "remove" -> \/ ~Has(p, s.table)
                              \/ \E t \in Tables : Has(p, t) /\ s.table \in Parents(t)

Done(j, s) ==
    LET all == {s.table} \X {o[2] : o \in Objects} IN
    CASE s.kind = "declare"          -> [j EXCEPT !.own = @ \union Declared(s.table), !.gone = @ \ Declared(s.table)]
      [] s.kind \in {"create", "add"} -> [j EXCEPT !.own = @ \union {<<s.table, s.part>>}, !.gone = @ \ {<<s.table, s.part>>}]
      [] s.kind = "drop"             -> [j EXCEPT !.own = @ \ {<<s.table, s.part>>}, !.gone = @ \union ({<<s.table, s.part>>} \intersect db)]
      [] s.kind = "remove"           -> [j EXCEPT !.own = @ \ all, !.gone = @ \union (all \intersect db)]

Act(p) ==
    LET j == job[p]
        s == Current(p)
    IN
    /\ pc[p] = "act" /\ Free(p) /\ UNCHANGED upsets
    /\ \/ /\ Duplicate(p, s) \/ Dangling(p, s)
          /\ Fails(p)
       \* The except clause, for a table that was there when the statement
       \* began; one it waited for is an IntegrityError.
       \/ /\ Duplicate(p, s) /\ s = Create("stripe_events")
          /\ Continues(p, [j EXCEPT !.spoilt = TRUE], Tail(j.steps))
          /\ UNCHANGED <<db, version, history>>
       \/ /\ ~Duplicate(p, s) /\ ~Dangling(p, s)
          /\ Continues(p, Done(j, s), Tail(j.steps))
          /\ UNCHANGED <<db, version, history>>

(* HeadMaintainer: the row must be the one that was read at the start.      *)
Stamp(p) ==
    LET to == IF job[p].at < job[p].target THEN job[p].at + 1 ELSE job[p].at - 1
        j  == [job[p] EXCEPT !.at = to]
    IN
    /\ pc[p] = "stamp" /\ Free(p) /\ UNCHANGED upsets
    /\ IF version # job[p].base THEN Fails(p)
       ELSE /\ Continues(p, j, IF to = j.target THEN <<>> ELSE Migration(to, j.target))
            /\ UNCHANGED <<db, version, history>>

(* Mutant: every transaction counts as a migration.                         *)
CommitCounts(p) ==
    /\ pc[p] = "commit"
    /\ db' = Visible(p) /\ version' = job[p].at + 1
    /\ Ends(p, "done")
    /\ UNCHANGED <<lone, upsets>>

Commit(p) ==
    /\ pc[p] = "commit"
    /\ db' = Visible(p)
    /\ version' = IF p \in Admins THEN job[p].at ELSE version
    /\ Ends(p, "done")
    /\ UNCHANGED <<lone, upsets>>

(* PostgreSQL ends one of those that wait for each other.                   *)
Victim(p) == Deadlocked(p) /\ Fails(p) /\ UNCHANGED upsets

Kill(p) ==
    /\ pc[p] # "idle" /\ upsets < MaxUpsets /\ upsets' = upsets + 1
    /\ Ends(p, "none")
    /\ UNCHANGED <<db, version, lone>>

-----------------------------------------------------------------------------
Run(p)   == (Look(p) \/ Act(p) \/ Stamp(p) \/ Commit(p) \/ Victim(p)) /\ Queue(p)
Start(p) == \/ StartUpgrade(p) \/ StartApp(p)
            \/ \E target \in 0..Head4 : StartDowngrade(p, target)

Next == \E p \in Procs : Run(p) \/ ((Start(p) \/ Kill(p)) /\ Queue(p))

Spec == Init /\ [][Next]_vars

(* Who deploys runs `alembic upgrade head` until it succeeds, cron starts   *)
(* the application every quarter of an hour, and PostgreSQL serves those    *)
(* that wait in the order they came.                                        *)
FairSpec == /\ Spec
            /\ \A p \in Procs : SF_vars(Run(p))
            /\ WF_vars(\E p \in Admins : StartUpgrade(p) /\ Queue(p))
            /\ WF_vars(\E p \in Apps : StartApp(p) /\ Queue(p))

-----------------------------------------------------------------------------
(* Properties.                                                              *)

(* The version does not lie, whatever migrations, starts, downgrades and    *)
(* killed processes interleave: of every table that is there, the parts of  *)
(* the migrations up to that version are there.                             *)
Provided(o) == \/ o \in db
               \/ o = <<"web_push_subscriptions", "ix_endpoint">>
                    /\ <<"web_push_subscriptions", "uq_endpoint">> \in db
VersionIsTrue == \A o \in Made(version) : <<o[1], "table">> \in db => Provided(o)

(* At the head nothing is missing (docs/qsl_digest_notifications_plan.md:   *)
(* 119, "new tables and indexes exist").                                    *)
HeadIsComplete == version = Head4 =>
    /\ OldTables \subseteq db
    /\ \A o \in Made(Head4) : Provided(o)

(* A migration or a start that nothing overlaps does not fail on what       *)
(* others left: "`alembic upgrade head` succeeds" (the same, line 118).     *)
(* Only an empty database is not migrated before the first start.           *)
LoneRunSucceeds == \A p \in lone :
    outcome[p] = "failed" => p \in Admins /\ <<"users", "table">> \notin db

(* The head is reached in the end, over deadlocks and collisions.           *)
HeadIsReached == []<>(version = Head4)
=============================================================================
