--------------------------- MODULE DigestDelivery ---------------------------
(***************************************************************************)
(* The delivery half of the daily QSL digest.                              *)
(*                                                                         *)
(* scripts/run_digest_cycle.py is started by cron under `flock -n`: it     *)
(* generates the due batches, purges what is older than the retention,     *)
(* selects the batches that no "sent" row exists for, and gives each of    *)
(* them one database transaction in which it pushes to the subscriptions   *)
(* of the owner, falls back to email, and records a row per channel        *)
(* (app/services/digest_notifications.py).  app/background_jobs.py can     *)
(* start the same dispatch inside a web process, without that lock.        *)
(* Meanwhile the web process subscribes, unsubscribes and saves settings.  *)
(*                                                                         *)
(* The database is PostgreSQL at READ COMMITTED: what a transaction writes *)
(* is seen at its commit, the rows it flushed are locked until then, and   *)
(* the ORM writes the columns that differ from what it read.               *)
(***************************************************************************)
EXTENDS Naturals, Sequences, FiniteSets

CONSTANTS
    Cron,         \* processes that cron may start (scripts/run_digest_cycle.py)
    Jobs,         \* delivery jobs of the web processes (background_jobs.py)
    Users,
    Batches,      \* rows of qsl_digest_batches, one per user and date
    Owner,        \* the user of a batch
    Endpoints,    \* browser push endpoints
    HasEmail,     \* the users whose account has an email address
    Configs,      \* values of the environment flags a process may start with
    Prefs,        \* bound: the settings users choose among
    CronLimit,    \* limit given by the script (10_000)
    JobLimit,     \* default limit of dispatch_pending (100)
    MaxCount,     \* bound: QSLs in a batch
    MaxJobs,      \* bound: delivery jobs started by web processes
    MaxFaults,    \* bound: crashes, lost connections, misreported sends
    NoProc, NoRow, NoTx, Absent   \* no holder, row, transaction, batch

Runners  == Cron \union Jobs
Channels == {"web_push", "email"}
Config   == [push: BOOLEAN, email: BOOLEAN, dry: BOOLEAN]
Pref     == [fallback: BOOLEAN, address: {"account", "custom", "unset"}]
DefaultConfig == [push |-> TRUE, email |-> TRUE, dry |-> FALSE]

ASSUME RunnersAssumption == Cron \intersect Jobs = {} /\ NoProc \notin Runners
ASSUME BatchAssumption   == /\ Absent \notin Nat
                            /\ Owner \in [Batches -> Users]
                            /\ IsFiniteSet(Batches)
ASSUME UserAssumption    == HasEmail \subseteq Users
ASSUME ConfigAssumption  == Configs \subseteq Config /\ Prefs \subseteq Pref
ASSUME BoundAssumption   == /\ CronLimit \in Nat \ {0} /\ JobLimit \in Nat \ {0}
                            /\ MaxCount \in Nat \ {0}  /\ MaxFaults \in Nat
                            /\ MaxJobs \in Nat

Codes  == {"none", "push_succeeded", "push_failed", "no_active_subscriptions",
           "web_push_disabled", "email_disabled", "email_failed", "dry_run",
           "empty_digest"}
Row    == [status: {"sent", "failed", "skipped"}, code: Codes]
ASSUME RowAssumption == NoRow \notin Row
Sub    == [owner: Users, status: {"none", "active", "invalid", "unsubscribed"}]
Plans  == {"already", "send", "web_push_disabled", "dry_run",
           "no_active_subscriptions", "empty_digest"}
(* What a dispatch transaction has read, done and not yet committed.       *)
Tx == [batch: Batches, count: 0..MaxCount,
       fallback: BOOLEAN, mailable: BOOLEAN,   \* of the owner's preference
       push: Plans,                            \* branch taken for web push
       todo: SUBSET Endpoints,                 \* subscriptions still to push to
       attempted: SUBSET Endpoints, gone: SUBSET Endpoints, ok: BOOLEAN,
       pushBase: Row \union {NoRow}, pushNew: Row \union {NoRow},
       emailBase: Row \union {NoRow}, emailNew: Row \union {NoRow},
       left: SUBSET Channels]                  \* history: what really left
ASSUME TxAssumption == NoTx \notin Tx

VARIABLES
    flock,      \* holder of /tmp/mobile_lotw_digest.lock
    pc, conf,   \* per runner: where it is, the flags its process started with
    queue,      \* per runner: batch_ids selected and not yet dispatched
    tx,         \* per runner: the open dispatch transaction
    batch,      \* qsl_count of each row of qsl_digest_batches, or Absent
    before,     \* <<a, b>>: generated_at of a is before that of b
    old,        \* batches whose digest_date is before the retention cutoff
    row,        \* notification_deliveries, by batch and channel
    sub,        \* web_push_subscriptions, by endpoint
    pref,       \* notification_preferences and user email, by user
    told,       \* history: transactions in which a message for b really left
    lost,       \* history: those of them that ended without a "sent" row
    backed,     \* history: channels by which a message for b really left
    missed,     \* history: those by which one left in a transaction that
                \* ended without recording it
    faults, jobs    \* bound counters

runVars  == <<flock, pc, conf, queue, tx>>
dbVars   == <<batch, before, old, row>>
userVars == <<sub, pref>>
history  == <<told, lost, backed, missed>>
bounds   == <<faults, jobs>>
vars     == <<runVars, dbVars, userVars, history, bounds>>

-----------------------------------------------------------------------------
RowSent(b, c) == row[b][c] # NoRow /\ row[b][c].status = "sent"
Sent(b)       == \E c \in Channels : RowSent(b, c)
(* Mutants are what the code would be after a plausible slip; each one must *)
(* break a property.  Here the dispatcher looks at web push rows only, or   *)
(* at none.                                                                 *)
PendingByPush(b)  == batch[b] # Absent /\ batch[b] > 0 /\ ~RowSent(b, "web_push")
PendingAlways(b)  == batch[b] # Absent /\ batch[b] > 0
(* dispatch_pending_digest_notifications: qsl_count > 0 and no "sent" row. *)
Pending(b)    == batch[b] # Absent /\ batch[b] > 0 /\ ~Sent(b)

(* Mutant: the limit is off by one.                                         *)
OldestButOne(S, n) == {b \in S : Cardinality({a \in S : <<a, b>> \in before}) < n - 1}
Oldest(S, n) == {b \in S : Cardinality({a \in S : <<a, b>> \in before}) < n}
Limit(r)     == IF r \in Cron THEN CronLimit ELSE JobLimit

ActiveSubs(u) == {e \in Endpoints : sub[e].owner = u /\ sub[e].status = "active"}

(* _notification_recipient_email, then `recipient_email or user.email` of  *)
(* send_qsl_digest_email: a custom address if set, else the account's.     *)
Mailable(u) == pref[u].address = "custom" \/ u \in HasEmail

Skipped(code) == [status |-> "skipped", code |-> code]

(* The chain of conditions that decides what web push does.                *)
PushPlan(c, b) ==
    IF RowSent(b, "web_push")           THEN "already"
    ELSE IF ~c.push                     THEN "web_push_disabled"
    ELSE IF c.dry                       THEN "dry_run"
    ELSE IF ActiveSubs(Owner[b]) # {}   THEN "send"
    ELSE "no_active_subscriptions"

(* Mutant: a tried push counts as sent.                                     *)
PushRowTried(t) == IF t.push = "send" THEN [status |-> "sent", code |-> "none"]
                                      ELSE Skipped(t.push)
PushRow(t) == IF t.push = "send"
              THEN IF t.ok THEN [status |-> "sent", code |-> "none"]
                           ELSE [status |-> "failed", code |-> "push_failed"]
              ELSE Skipped(t.push)

(* Mutant: the fallback does not ask whether push succeeded.                *)
EmailAlways(t) == t.fallback
EmailNeeded(t) == t.fallback /\ ~t.ok

(* The row to read when the same upsert finds none loaded yet: an object   *)
(* the session already holds is not read again.                            *)
Base(loaded, b, c) == IF loaded # NoRow THEN loaded ELSE row[b][c]

(* A flushed change waits for whoever holds the row; it then fails if its  *)
(* INSERT meets a row (unique index) or no batch (foreign key), or its     *)
(* UPDATE meets no row.                                                    *)
Clash(base, new, b, c) ==
    \/ new # NoRow /\ base = NoRow /\ (row[b][c] # NoRow \/ batch[b] = Absent)
    \/ base # NoRow /\ new # base /\ row[b][c] = NoRow

(* The columns an UPDATE writes are those that differ from what was read.  *)
Merge(base, new, cur) ==
    IF new = NoRow \/ new = base THEN cur
    ELSE IF base = NoRow          THEN new
    ELSE [column \in {"status", "code"} |->
            IF new[column] # base[column] THEN new[column] ELSE cur[column]]

(* The rows a runner has flushed and keeps locked until its commit.        *)
Flushed(r)     == pc[r] \in {"email", "commit"}
HoldsPush(r, b) == /\ Flushed(r) /\ tx[r].batch = b
                   /\ tx[r].pushNew # NoRow /\ tx[r].pushNew # tx[r].pushBase
HeldSubs(r)    == IF Flushed(r) THEN tx[r].attempted ELSE {}
Locked(e)      == \E r \in Runners : e \in HeldSubs(r)
Others(r)      == Runners \ {r}

-----------------------------------------------------------------------------
TypeOk ==
    /\ flock \in Cron \union {NoProc}
    /\ pc \in [Runners -> {"idle", "generate", "purge", "select", "next",
                           "push", "flush", "email", "commit"}]
    /\ conf \in [Runners -> Config]
    /\ queue \in [Runners -> SUBSET Batches]
    /\ tx \in [Runners -> Tx \union {NoTx}]
    /\ batch \in [Batches -> 0..MaxCount \union {Absent}]
    /\ before \in SUBSET (Batches \X Batches)
    /\ old \in SUBSET Batches
    /\ row \in [Batches -> [Channels -> Row \union {NoRow}]]
    /\ sub \in [Endpoints -> Sub]
    /\ pref \in [Users -> Pref]
    /\ told \in [Batches -> Nat] /\ lost \in [Batches -> Nat]
    /\ backed \in [Batches -> SUBSET Channels] /\ missed \in [Batches -> SUBSET Channels]
    /\ faults \in 0..MaxFaults /\ jobs \in 0..MaxJobs

StrictOrders == {o \in SUBSET (Batches \X Batches) :
                   /\ \A a, b \in Batches : a # b => (<<a, b>> \in o <=> <<b, a>> \notin o)
                   /\ \A a \in Batches : <<a, a>> \notin o
                   /\ \A a, b, c \in Batches : <<a, b>> \in o /\ <<b, c>> \in o => <<a, c>> \in o}

Init ==
    /\ flock = NoProc
    /\ pc = [r \in Runners |-> "idle"]
    /\ conf = [r \in Runners |-> DefaultConfig]
    /\ queue = [r \in Runners |-> {}]
    /\ tx = [r \in Runners |-> NoTx]
    /\ batch = [b \in Batches |-> Absent]
    /\ before \in StrictOrders
    /\ old = {}
    /\ row = [b \in Batches |-> [c \in Channels |-> NoRow]]
    /\ \E u \in Users : sub = [e \in Endpoints |-> [owner |-> u, status |-> "none"]]
    /\ pref = [u \in Users |-> [fallback |-> TRUE, address |-> "account"]]
    /\ told = [b \in Batches |-> 0] /\ lost = [b \in Batches |-> 0]
    /\ backed = [b \in Batches |-> {}] /\ missed = [b \in Batches |-> {}]
    /\ faults = 0 /\ jobs = 0

-----------------------------------------------------------------------------
(* Mutant: cron without flock.                                              *)
StartUnlocked(r) ==
    /\ r \in Cron /\ pc[r] = "idle"
    /\ flock' = r
    /\ pc' = [pc EXCEPT ![r] = "generate"]
    /\ \E c \in Configs : conf' = [conf EXCEPT ![r] = c]
    /\ UNCHANGED <<queue, tx, dbVars, userVars, history, bounds>>

(* The start of a process or job: create_app reads the flags; flock -n lets *)
(* a cron process go on only when nobody holds the lock file.  With         *)
(* DIGEST_NOTIFICATIONS_ENABLED=0 both halves return at once: no step.      *)
StartCron(r) ==
    /\ r \in Cron /\ pc[r] = "idle"
    /\ flock = NoProc
    /\ flock' = r
    /\ pc' = [pc EXCEPT ![r] = "generate"]
    /\ \E c \in Configs : conf' = [conf EXCEPT ![r] = c]
    /\ UNCHANGED <<queue, tx, dbVars, userVars, history, bounds>>

StartJob(r) ==
    /\ r \in Jobs /\ pc[r] = "idle"
    /\ pc' = [pc EXCEPT ![r] = "purge"]
    /\ \E c \in Configs : conf' = [conf EXCEPT ![r] = c]
    /\ jobs < MaxJobs /\ jobs' = jobs + 1
    /\ UNCHANGED <<flock, queue, tx, dbVars, userVars, history, faults>>

(* run_due_qsl_digest_generation, in one transaction: every user due gets   *)
(* one batch created or overwritten, whatever was dispatched before.  What  *)
(* goes into it is the matter of DigestGeneration.                          *)
Generate(r) ==
    /\ pc[r] = "generate"
    /\ pc' = [pc EXCEPT ![r] = "purge"]
    /\ \E R \in SUBSET (Batches \ old) :
         /\ \A a, b \in R : Owner[a] = Owner[b] => a = b
         /\ \E count \in [R -> 0..MaxCount] :
              batch' = [b \in Batches |-> IF b \in R THEN count[b] ELSE batch[b]]
         /\ before' = {p \in before : p[1] \in R => p[2] \in R} \union ((Batches \ R) \X R)
    /\ UNCHANGED <<flock, conf, queue, tx, old, row, userVars, history, bounds>>

Expired == {b \in old : batch[b] # Absent}

(* Mutant: the purge deletes the deliveries and leaves the batches.         *)
PurgeRows(r) ==
    /\ pc[r] = "purge"
    /\ pc' = [pc EXCEPT ![r] = "select"]
    /\ row' = [b \in Batches |-> IF b \in Expired THEN [c \in Channels |-> NoRow] ELSE row[b]]
    /\ UNCHANGED <<flock, conf, queue, tx, batch, before, old, userVars, history, bounds>>

(* purge_old_digest_data: the deliveries, then the batches, of old dates.   *)
(* Its DELETEs wait for the rows another transaction has flushed.           *)
Purge(r) ==
    /\ pc[r] = "purge"
    /\ \A o \in Others(r), b \in Expired : ~HoldsPush(o, b)
    /\ pc' = [pc EXCEPT ![r] = "select"]
    /\ batch' = [b \in Batches |-> IF b \in Expired THEN Absent ELSE batch[b]]
    /\ row' = [b \in Batches |-> IF b \in Expired THEN [c \in Channels |-> NoRow] ELSE row[b]]
    /\ UNCHANGED <<flock, conf, queue, tx, before, old, userVars, history, bounds>>

Select(r) ==
    /\ pc[r] = "select"
    /\ pc' = [pc EXCEPT ![r] = "next"]
    /\ queue' = [queue EXCEPT ![r] = Oldest({b \in Batches : Pending(b)}, Limit(r))]
    /\ UNCHANGED <<flock, conf, tx, dbVars, userVars, history, bounds>>

-----------------------------------------------------------------------------
(* dispatch_digest_notifications_for_batch, one transaction per batch.      *)

NewTx(r, b) ==
    LET plan == PushPlan(conf[r], b)
        subs == IF plan = "send" THEN ActiveSubs(Owner[b]) ELSE {}
    IN [batch |-> b, count |-> batch[b],
        fallback |-> pref[Owner[b]].fallback, mailable |-> Mailable(Owner[b]),
        push |-> plan, todo |-> subs, attempted |-> subs, gone |-> {},
        ok |-> plan = "already",
        pushBase |-> row[b]["web_push"], pushNew |-> NoRow,
        emailBase |-> NoRow, emailNew |-> NoRow, left |-> {}]

(* Mutant: the loop does not move on to the next batch.                     *)
LoadAgain(r, b) ==
    /\ pc[r] = "next" /\ b \in queue[r]
    /\ batch[b] # Absent /\ batch[b] > 0
    /\ tx' = [tx EXCEPT ![r] = NewTx(r, b)]
    /\ pc' = [pc EXCEPT ![r] = "push"]
    /\ UNCHANGED <<flock, conf, queue, dbVars, userVars, history, bounds>>

(* The reads that open the transaction: batch, owner, preference, active    *)
(* subscriptions, the web push row.                                         *)
Load(r, b) ==
    /\ pc[r] = "next" /\ b \in queue[r]
    /\ batch[b] # Absent /\ batch[b] > 0
    /\ queue' = [queue EXCEPT ![r] = @ \ {b}]
    /\ tx' = [tx EXCEPT ![r] = NewTx(r, b)]
    /\ pc' = [pc EXCEPT ![r] = "push"]
    /\ UNCHANGED <<flock, conf, dbVars, userVars, history, bounds>>

(* A batch found empty: both rows become skipped / empty_digest.            *)
LoadEmpty(r, b) ==
    /\ pc[r] = "next" /\ b \in queue[r]
    /\ batch[b] = 0
    /\ \A o \in Others(r) : ~HoldsPush(o, b)
    /\ queue' = [queue EXCEPT ![r] = @ \ {b}]
    /\ tx' = [tx EXCEPT ![r] =
                [NewTx(r, b) EXCEPT !.push = "empty_digest", !.ok = FALSE,
                    !.todo = {}, !.attempted = {},
                    !.pushNew = Skipped("empty_digest"),
                    !.emailBase = row[b]["email"],
                    !.emailNew = Skipped("empty_digest")]]
    /\ pc' = [pc EXCEPT ![r] = "commit"]
    /\ UNCHANGED <<flock, conf, dbVars, userVars, history, bounds>>

(* Mutant: a missing batch is tried again.                                  *)
LoadMissingAgain(r, b) ==
    /\ pc[r] = "next" /\ b \in queue[r]
    /\ batch[b] = Absent
    /\ UNCHANGED vars

(* ValueError: purged since it was selected.  Counted as failed.            *)
LoadMissing(r, b) ==
    /\ pc[r] = "next" /\ b \in queue[r]
    /\ batch[b] = Absent
    /\ queue' = [queue EXCEPT ![r] = @ \ {b}]
    /\ UNCHANGED <<flock, pc, conf, tx, dbVars, userVars, history, bounds>>

(* A message for the batch of r leaves by channel c.                        *)
Leaves(r, c) ==
    LET b == tx[r].batch IN
    /\ told' = IF tx[r].left = {} THEN [told EXCEPT ![b] = @ + 1] ELSE told
    /\ backed' = [backed EXCEPT ![b] = @ \union {c}]
    /\ UNCHANGED <<lost, missed>>
Fault == faults < MaxFaults /\ faults' = faults + 1 /\ UNCHANGED jobs

(* One turn of the loop of send_qsl_digest_web_push.                        *)
PushOk(r, e) ==
    /\ pc[r] = "push" /\ e \in tx[r].todo
    /\ Leaves(r, "web_push")
    /\ tx' = [tx EXCEPT ![r] = [tx[r] EXCEPT !.todo = tx[r].todo \ {e}, !.ok = TRUE,
                                         !.left = tx[r].left \union {"web_push"}]]
    /\ UNCHANGED <<flock, pc, conf, queue, dbVars, userVars, bounds>>

(* 404 or 410 from the push service: WebPushPermanentError.                 *)
PushGone(r, e) ==
    /\ pc[r] = "push" /\ e \in tx[r].todo
    /\ tx' = [tx EXCEPT ![r] = [tx[r] EXCEPT !.todo = tx[r].todo \ {e}, !.gone = tx[r].gone \union {e}]]
    /\ UNCHANGED <<flock, pc, conf, queue, dbVars, userVars, history, bounds>>

PushError(r, e) ==
    /\ pc[r] = "push" /\ e \in tx[r].todo
    /\ tx' = [tx EXCEPT ![r] = [tx[r] EXCEPT !.todo = tx[r].todo \ {e}]]
    /\ UNCHANGED <<flock, pc, conf, queue, dbVars, userVars, history, bounds>>

(* The service took the message but the call raised (the reply was lost).   *)
PushMisreported(r, e) ==
    /\ pc[r] = "push" /\ e \in tx[r].todo
    /\ Fault
    /\ Leaves(r, "web_push")
    /\ tx' = [tx EXCEPT ![r] = [tx[r] EXCEPT !.todo = tx[r].todo \ {e},
                                         !.left = tx[r].left \union {"web_push"}]]
    /\ UNCHANGED <<flock, pc, conf, queue, dbVars, userVars>>

(* _upsert_delivery for web push; no upsert when a sent row was found.      *)
RecordPush(r) ==
    /\ pc[r] = "push" /\ tx[r].todo = {}
    /\ tx' = IF tx[r].push = "already" THEN tx
             ELSE [tx EXCEPT ![r] =
                     [tx[r] EXCEPT !.pushBase = Base(tx[r].pushBase, tx[r].batch, "web_push"),
                               !.pushNew = PushRow(tx[r])]]
    /\ pc' = [pc EXCEPT ![r] = "flush"]
    /\ UNCHANGED <<flock, conf, queue, dbVars, userVars, history, bounds>>

PushClash(r) == LET t == tx[r] IN
    IF t.pushNew = NoRow THEN FALSE ELSE Clash(t.pushBase, t.pushNew, t.batch, "web_push")
EmailClash(r) == LET t == tx[r] IN
    IF t.emailNew = NoRow THEN FALSE ELSE Clash(t.emailBase, t.emailNew, t.batch, "email")

(* Which branch email takes once the email row has been read.               *)
EmailPlan(c, t) ==
    IF RowSent(t.batch, "email") THEN "already"
    ELSE IF ~EmailNeeded(t)      THEN "push_succeeded"
    ELSE IF ~c.email             THEN "email_disabled"
    ELSE IF c.dry                THEN "dry_run"
    ELSE "send"

(* The SELECT of the email row flushes the push row and the subscriptions.  *)
ReadEmail(r) ==
    LET t == tx[r]
        plan == EmailPlan(conf[r], t) IN
    /\ pc[r] = "flush"
    /\ \A o \in Others(r) : ~HoldsPush(o, t.batch) /\ HeldSubs(o) \intersect t.attempted = {}
    /\ ~PushClash(r)
    /\ tx' = [tx EXCEPT ![r] =
                [t EXCEPT !.emailBase = row[t.batch]["email"],
                          !.emailNew = IF plan \in {"already", "send"} THEN NoRow
                                       ELSE Skipped(plan)]]
    /\ pc' = [pc EXCEPT ![r] = IF plan = "send" THEN "email" ELSE "commit"]
    /\ UNCHANGED <<flock, conf, queue, dbVars, userVars, history, bounds>>

(* _upsert_delivery for email, in a transaction from which more has left.   *)
RecordEmail(r, new, leaving) ==
    /\ tx' = [tx EXCEPT ![r] =
                [tx[r] EXCEPT !.emailBase = Base(tx[r].emailBase, tx[r].batch, "email"),
                          !.emailNew = new,
                          !.left = tx[r].left \union leaving]]
    /\ pc' = [pc EXCEPT ![r] = "commit"]

EmailOk(r) ==
    /\ pc[r] = "email" /\ tx[r].mailable
    /\ Leaves(r, "email")
    /\ RecordEmail(r, [status |-> "sent", code |-> "none"], {"email"})
    /\ UNCHANGED <<flock, conf, queue, dbVars, userVars, bounds>>

EmailError(r) ==
    /\ pc[r] = "email"
    /\ RecordEmail(r, [status |-> "failed", code |-> "email_failed"], {})
    /\ UNCHANGED <<flock, conf, queue, dbVars, userVars, history, bounds>>

(* The server took the message and the session failed after that.           *)
EmailMisreported(r) ==
    /\ pc[r] = "email" /\ tx[r].mailable
    /\ Fault
    /\ Leaves(r, "email")
    /\ RecordEmail(r, [status |-> "failed", code |-> "email_failed"], {"email"})
    /\ UNCHANGED <<flock, conf, queue, dbVars, userVars>>

(* What the rows of a transaction record as sent.                           *)
Recorded(t) == {c \in Channels : LET new == IF c = "web_push" THEN t.pushNew ELSE t.emailNew
                                 IN  new # NoRow /\ new.status = "sent"}

(* History of a transaction that ends: it is lost when a message left and   *)
(* no "sent" row for it is committed.                                       *)
Ends(r, committed) ==
    /\ lost' = IF tx[r] # NoTx /\ tx[r].left # {} /\ ~committed
               THEN [lost EXCEPT ![tx[r].batch] = @ + 1] ELSE lost
    /\ missed' = IF tx[r] # NoTx
                 THEN [missed EXCEPT ![tx[r].batch] = @ \union
                         (tx[r].left \ (IF committed THEN Recorded(tx[r]) ELSE {}))]
                 ELSE missed
    /\ UNCHANGED <<told, backed>>

Announces(t) == Recorded(t) # {}

Commit(r) ==
    LET t == tx[r] IN
    /\ pc[r] = "commit"
    /\ ~EmailClash(r)
    /\ row' = [row EXCEPT ![t.batch] =
                 [web_push |-> Merge(t.pushBase, t.pushNew, row[t.batch]["web_push"]),
                  email    |-> Merge(t.emailBase, t.emailNew, row[t.batch]["email"])]]
    /\ sub' = [e \in Endpoints |-> IF e \in t.gone THEN [sub[e] EXCEPT !.status = "invalid"]
                                                   ELSE sub[e]]
    /\ Ends(r, Announces(t))
    /\ tx' = [tx EXCEPT ![r] = NoTx]
    /\ pc' = [pc EXCEPT ![r] = "next"]
    /\ UNCHANGED <<flock, conf, queue, batch, before, old, pref, bounds>>

Rollback(r) ==
    /\ Ends(r, FALSE)
    /\ tx' = [tx EXCEPT ![r] = NoTx]
    /\ UNCHANGED <<flock, conf, dbVars, userVars>>

(* A purge and a dispatch that each hold a row the other wants: the DELETE  *)
(* has taken the email row and waits for the push row, which the dispatch   *)
(* holds while its UPDATE waits for the email row.  PostgreSQL fails one.   *)
Crossed(p, o) ==
    /\ pc[p] = "purge" /\ pc[o] = "commit"
    /\ tx[o].batch \in Expired /\ HoldsPush(o, tx[o].batch)
    /\ NoRow \notin {tx[o].emailBase, tx[o].emailNew} /\ tx[o].emailNew # tx[o].emailBase

(* IntegrityError, StaleDataError or a deadlock at a flush: the loop over   *)
(* the batches catches it and goes on.                                      *)
FlushFails(r) ==
    /\ \/ /\ pc[r] = "flush" /\ PushClash(r)
          /\ \A o \in Others(r) : ~HoldsPush(o, tx[r].batch)
       \/ pc[r] = "commit" /\ (EmailClash(r) \/ \E p \in Others(r) : Crossed(p, r))
    /\ Rollback(r)
    /\ pc' = [pc EXCEPT ![r] = "next"]
    /\ UNCHANGED <<queue, bounds>>

(* The database connection is lost inside a dispatch: caught the same way.  *)
DispatchFails(r) ==
    /\ tx[r] # NoTx
    /\ Fault
    /\ Rollback(r)
    /\ pc' = [pc EXCEPT ![r] = "next"]
    /\ UNCHANGED queue

(* The process ends: after the last batch, killed at any point, or by an    *)
(* exception of the purge, which nothing catches.  flock is released.       *)
Stop(r) ==
    /\ pc' = [pc EXCEPT ![r] = "idle"]
    /\ conf' = [conf EXCEPT ![r] = DefaultConfig]
    /\ queue' = [queue EXCEPT ![r] = {}]
    /\ tx' = [tx EXCEPT ![r] = NoTx]
    /\ flock' = IF r = flock THEN NoProc ELSE flock
    /\ UNCHANGED <<dbVars, userVars>>

Finish(r) ==
    /\ pc[r] = "next" /\ queue[r] = {}
    /\ Stop(r)
    /\ UNCHANGED <<history, bounds>>

Crash(r) ==
    /\ pc[r] # "idle"
    /\ Fault
    /\ Ends(r, FALSE)
    /\ Stop(r)

(* The purge meets a delivery inserted between its two DELETEs, or is the   *)
(* one that PostgreSQL fails in a deadlock.  Nothing catches it.            *)
PurgeFails(r) ==
    /\ pc[r] = "purge"
    /\ \E o \in Others(r) :
          \/ \E b \in Expired : HoldsPush(o, b) /\ tx[o].pushBase = NoRow
          \/ Crossed(r, o)
    /\ Stop(r)
    /\ UNCHANGED <<history, bounds>>

-----------------------------------------------------------------------------
(* What happens around the runners.                                         *)

(* A batch's digest_date falls behind the retention cutoff.                 *)
AgeOut(b) ==
    /\ b \notin old /\ batch[b] # Absent
    /\ old' = old \union {b}
    /\ UNCHANGED <<runVars, batch, before, row, userVars, history, bounds>>

(* web_push_subscribe: creates the endpoint, or takes it over and revives   *)
(* it.  The UPDATE waits for a dispatch that has flushed the row.           *)
Subscribe(e, u) ==
    /\ ~Locked(e)
    /\ sub' = [sub EXCEPT ![e] = [owner |-> u, status |-> "active"]]
    /\ UNCHANGED <<runVars, dbVars, pref, history, bounds>>

Unsubscribe(e) ==
    /\ sub[e].status # "none" /\ ~Locked(e)
    /\ sub' = [sub EXCEPT ![e].status = "unsubscribed"]
    /\ UNCHANGED <<runVars, dbVars, pref, history, bounds>>

(* notification_settings, POST: choosing the account address clears the     *)
(* custom one.                                                              *)
SaveSettings(u) ==
    /\ \E p \in Prefs : pref' = [pref EXCEPT ![u] = p]
    /\ UNCHANGED <<runVars, dbVars, sub, history, bounds>>

Dispatch(r) ==
    \/ \E b \in Batches : Load(r, b) \/ LoadEmpty(r, b) \/ LoadMissing(r, b)
    \/ \E e \in Endpoints : PushOk(r, e) \/ PushGone(r, e) \/ PushError(r, e)
    \/ RecordPush(r) \/ ReadEmail(r) \/ EmailOk(r) \/ EmailError(r)
    \/ Commit(r) \/ FlushFails(r) \/ Finish(r)
Cycle(r)  == Generate(r) \/ Purge(r) \/ PurgeFails(r) \/ Select(r) \/ Dispatch(r)
Start(r)  == StartCron(r) \/ StartJob(r)
Faults(r) == \/ Crash(r) \/ DispatchFails(r) \/ EmailMisreported(r)
             \/ \E e \in Endpoints : PushMisreported(r, e)
Outside   == \/ \E b \in Batches : AgeOut(b)
             \/ \E e \in Endpoints : Unsubscribe(e) \/ \E u \in Users : Subscribe(e, u)
             \/ \E u \in Users : SaveSettings(u)

Next == (\E r \in Runners : Start(r) \/ Cycle(r) \/ Faults(r)) \/ Outside

Spec == Init /\ [][Next]_vars

(* webpush() is called without a timeout: a runner may wait for the answer  *)
(* of a push service for ever.  The mail session has one, of 30 s.          *)
Awaits(r) == pc[r] = "push" /\ tx[r].todo # {}

(* The operating system runs a started process on unless it waits for a     *)
(* push service, and cron starts one again whenever the lock is free.       *)
(* PostgreSQL serves the waiters of a row in the order they came, so a step *)
(* that waits for a row is not passed by for ever: strong fairness.  Jobs   *)
(* need not be started, and nothing is assumed of the users, of the push    *)
(* service or of the outcome of a mail.                                     *)
Fairness == /\ \A r \in Runners : SF_vars(~Awaits(r) /\ Cycle(r))
            /\ WF_vars(\E r \in Cron : StartCron(r))
FairSpec == Spec /\ Fairness

-----------------------------------------------------------------------------
(* Properties.  Those that say "one dispatcher" hold when Jobs = {}: flock  *)
(* is what they rest on.                                                    *)

Dispatching(r, b) == tx[r] # NoTx /\ tx[r].batch = b

(* A row says "sent" only if a message for that batch really left by that   *)
(* channel, whatever runners interleave or fail.                            *)
SentIsBacked == \A b \in Batches, c \in Channels : RowSent(b, c) => c \in backed[b]

(* One dispatcher: a user is told of a batch twice only if a transaction    *)
(* that had sent ended without recording it (crash, lost connection, lost   *)
(* reply).                                                                  *)
AtMostOnceRecorded == \A b \in Batches : told[b] <= lost[b] + 1

(* A push for the batch left in the transaction under way, and every answer *)
(* of a push service says or will say that it did not.                      *)
Unheard(r, b) == Dispatching(r, b) /\ "web_push" \in tx[r].left /\ ~tx[r].ok

(* One dispatcher: over all retries a user is told of a batch by push or by *)
(* email and not by both, unless a message left and its record did not say  *)
(* so: the answer was lost, or the transaction.  What is recorded as sent   *)
(* is one channel even then.                                                *)
OneChannel == \A b \in Batches :
    /\ ~(RowSent(b, "web_push") /\ RowSent(b, "email"))
    /\ backed[b] = Channels => missed[b] # {} \/ \E r \in Runners : Unheard(r, b)

(* One dispatcher: the batch whose messages are being sent still is the     *)
(* batch that was read; it is neither regenerated, nor purged, nor recorded *)
(* as sent before this transaction ends.                                    *)
SnapshotHolds == \A r \in Runners, b \in Batches :
    Dispatching(r, b) => batch[b] = tx[r].count /\ (tx[r].count > 0 => ~Sent(b))

(* One dispatcher: "sent" is final until retention deletes the batch.       *)
SentIsFinal == [][\A b \in Batches, c \in Channels :
                    RowSent(b, c) /\ batch'[b] # Absent => RowSent(b, c)']_vars

(* No call of a push service hangs for ever.                                *)
Answered == \A r \in Runners : []<>~Awaits(r)

(* As long as push services answer, every batch that waits to be announced  *)
(* is dispatched, or recorded as sent, emptied or purged: however many      *)
(* older ones fail every time, none waits for ever.  Needs a CronLimit not  *)
(* below the batches that wait at one time.                                 *)
PendingIsDispatched == Answered => \A b \in Batches :
    Pending(b) ~> ((\E r \in Runners : Dispatching(r, b)) \/ ~Pending(b))

(* As long as push services answer, a cycle that started ends: no runner    *)
(* waits for ever on another's rows, or goes round on one batch.            *)
CycleEnds == Answered => \A r \in Runners : pc[r] # "idle" ~> pc[r] = "idle"

-----------------------------------------------------------------------------
(* What all this amounts to: the stage of each batch for its user.          *)
Stage(b) ==
    IF batch[b] = Absent THEN (IF b \in old THEN "gone" ELSE "nothing")
    ELSE IF RowSent(b, "web_push") THEN "web_push"
    ELSE IF RowSent(b, "email") THEN "email"
    ELSE IF \E r \in Runners : Dispatching(r, b) THEN "attempt"
    ELSE IF batch[b] = 0 THEN "nothing" ELSE "due"

AllStages == [b \in Batches |-> Stage(b)]
Said      == UNION {tx[r].left : r \in {o \in Runners : tx[o] # NoTx}}

Promise == INSTANCE Announcements WITH stage <- AllStages, said <- Said, aged <- old

(* One dispatcher: the digest keeps its promise.  No step of cron, of a     *)
(* crash, of a lost connection or reply, or of a user does anything else to *)
(* a batch than Announcements allows.                                       *)
KeepsPromise == Promise!Spec
=============================================================================
