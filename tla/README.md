# Models of Mobile LoTW

Mobile LoTW (`app/`) is a Flask application, run by several web processes, through which a radio
amateur reads his confirmations (QSLs) from ARRL's Logbook of the World (LoTW), keeps a copy of
them in PostgreSQL, and is told each day, by push or email, of the QSLs that came in. This
directory holds TLA+ modules of the parts with logic of their own, configurations for TLC, and
proofs for TLAPS.

## The system

| part | code | state | operations | talks to |
|---|---|---|---|---|
| Digest delivery | `services/digest_notifications.py`, `web_push.py`, `digest_email.py`, `background_jobs.py`, `scripts/run_digest_cycle.py` | `qsl_digest_batches`, `notification_deliveries`, `web_push_subscriptions`, preferences, `flock` | dispatch a batch (push, then email), select pending batches, purge; subscribe, unsubscribe, settings | push service, mail server, generation (batches) |
| Digest generation | `services/qsl_digest.py`, `queries/notifications.py` | cursor in the preferences, batches with their payload | generate all due digests in one transaction | eligibility, imported rows, delivery |
| QSO import | `services/qso_import.py`, `background_jobs.py`, `blueprints/api/import_qsos_data.py`, `blueprints/awards/qsls.py` | `qso_reports`, the user's cursor and `qso_sync_status`, `_running_ops` per process | import by job or by request, pages that start one and reload | LoTW |
| LoTW session | `lotw.py`, `blueprints/auth/*`, `services/digest_eligibility.py`, error handlers of `__init__.py` | browser sessions, stored cookies, `lotw_auth_state`, fail count and times | get/post to LoTW, record of success and failure, login, logout, eligibility | LoTW, generation |
| Billing | `blueprints/billing/overview.py` | Stripe columns of `users`, `stripe_events` | open a checkout, handle a webhook | Stripe, eligibility |
| Map, page of recent QSLs | `api/get_map_data.py`, `awards/qsls.py`, `queries/map.py`, `queries/qso_page.py`, `queries/functional.py` | the stored picture and its count in `users`, `seen` in `qso_reports` | serve or draw the map; list the recent QSLs, mark open slots, mark as seen | imported rows |
| Migrations and start | `alembic/versions/*`, `alembic/env.py`, `database/__init__.py` | the schema, `alembic_version` | upgrade, downgrade, `create_all` of each start | the database; cron starts the application |
| Awards, search | `parser/*`, `cache.py`, `queries/search.py` | TTL cache per process | read | LoTW |
| Deployment, templates | `api/deploy.py`, `templates/`, `static/` | none | – | – |

Nothing coordinates these parts but the database (READ COMMITTED, no explicit row locks), `flock`
around the cron script, and one set per web process of the users with a running import. The hard
behaviours all come from that: transactions that stay open while slow services answer, sends that
cannot be rolled back, several processes that read before either writes, kills between two
transactions, events that come twice or out of order, cursors that must pass over nothing, and
status columns that outlive the process that set them. `PROJECT.json` lists each at its line.

What makes each part correct:

* delivery: a digest is announced once, by one channel, by whichever process gets to it; a record
  "sent" is true and final; no process waits for ever; nothing stays pending for ever;
* generation: a QSL imported in time is in a digest, and with one date in one only; regeneration
  changes nothing; retention deletes nothing that is still due; every eligible user gets the day's
  digest;
* import: one row per QSO, no QSL skipped by the cursor, a status that is true, pages that stop
  reloading;
* LoTW session: refusals stop digests until a new login, outages only delay them and log nobody
  out, and no interleaving damages the record for good;
* billing: an event takes effect at most once and, if marked processed, did; what the user can pay
  is what the webhook recognises; Stripe has one customer for a user; the plan follows the
  subscription; every event is answered;
* map and page: a served map has every QSO that was there when it was asked for; the page shows the
  latest QSLs, each new once;
* migrations: the version does not lie, the head is complete, a run that nothing overlaps does not
  fail on what earlier ones left, and the head is reached.

## Modules

| module | of |
|---|---|
| `Announcements` | abstract: what the digest promises, without processes or transactions |
| `DigestDelivery` | cron processes and delivery jobs over the delivery tables; implements `Announcements` |
| `DigestGeneration` | the cycle, the clock, timezones, cursor and windows |
| `QsoImport` | importers, LoTW's report, the browser's page |
| `LotwSession` | requests to LoTW, the health record, login and eligibility |
| `StripeBilling` | checkout and webhook requests, Stripe's deliveries |
| `Logbook` | the map and the page of recent QSLs over rows that imports add |
| `Schema` | migrations and `create_all` over one PostgreSQL database |
| `MC<module>` | its instances for TLC: owners, sets of settings, symmetry |
| `<module>Proofs`, `DigestPromiseProofs` | theorems and their proofs |

Each concurrent process has a program counter and a record of what it has read. An action is what
happens between two points at which others can get in: a read of the database, the commit of a
transaction, an answer of a service. A killed process loses its record and its open transaction.
Definitions commented "Mutant" are slips that a property must notice; `Next` uses none of them.

### DigestDelivery

`batch`, `row`, `sub`, `pref` are the tables (a batch is its QSL count, a delivery its status
and code); `tx` is the transaction of each runner with what it has read and flushed; `flock` is the
lock of the script and `queue` the batches each runner selected. `Load` reads all that
`dispatch_digest_notifications_for_batch` reads before it sends; the
push actions, `ReadEmail` and the email actions follow its chain of branches;
`Commit` writes. Rows flushed by one transaction and wanted by another make that one wait
(`HoldsPush`, `Locked`), or fail where PostgreSQL would raise (`PushClash`, `EmailClash`). A send
leaves at once, whatever becomes of the transaction: `told` counts what the user received, `lost`
the transactions that had sent and ended without a "sent" row, `backed` the channels by which a
message left, `missed` those whose record does not say so.
`PushMisreported` and `EmailMisreported` are messages taken by a service whose reply is lost. A call
of a push service may also never return (`Awaits`), for `webpush()` has no timeout.
Generation is one action here (`Generate`: any count for any batch within retention), since it is
one transaction.

`Announcements` is what all this is for, in five variables and seven actions: a batch becomes due,
is announced in one attempt at a time, the attempt is recorded under a channel by which a message
left or fails as a whole, and retention takes the batch away. `KeepsPromise` is the refinement:
`Stage` maps the tables and the open transactions to the stage of each batch, `Said` what has left
in the open transaction; `told`, `lost` and `old` (as `aged`) are shared. It rests on `flock`
(`Jobs = {}`): with a delivery job beside cron two attempts overlap.

### DigestGeneration

Time is a number of ticks, a day `Day` of them; a timezone is an offset. `Schedule` is
`compute_digest_schedule`, `Visit` one user of the loop, `Commit` the one transaction of all. The
cursor moves with the batch. A batch holds entries: a QSL with the date it had when it was drawn,
which an import may rewrite later (`Import`). `told`, `origin`, `late` and `shed` are histories: what
was announced under which digest date, where a user's windows began, the QSLs imported or dated anew
when the digest of their date had been drawn, and those that an unannounced batch lost when it was
overwritten with another window or deleted. Delivery is one action (`Announce`), which may not come.

### QsoImport

`qsl` is LoTW's side: when it received the QSL of a QSO. `rows` is `qso_reports` with one date per
row. An import is `Begin` (status), `Read` (cursor and has_imported), `Download`, `StoreGroup` for
each group of 200 rows, `Commit`, `Settle`; failures and kills anywhere. `since` is the user's cursor,
a day, compared by LoTW with the day of a QSL. `added` counts the rows of a QSO that an import will insert,
`fixed` are those it found with another date than LoTW's and will update at its commit. An import
that fails records it in a transaction of its own, which may fail too (`StatusFails`): `orphaned`
tells that "syncing" was left behind so, or by a kill. `overtaken` are the imports that another
committed beside. `slipped` is
a history of what `CaughtUp` excepts, two things the code does lose: a QSL that comes in between the
download and the midnight after which the import ends, for the cursor becomes the day of the end; and
a newer date over which an import that began earlier puts the older one it had downloaded. The page is
one browser's: the "Importing data" page, the redirect, the QSL page with or without its reload.

### LotwSession

A LoTW login is a number, `jar` the one in `users`. Request: `ReadCookies`, `Ask` (LoTW's answer
and the checks in their order, with `requests.Response` false from status 400 on), `LoadHealth`,
`WriteHealth` (only changed columns, as SQLAlchemy writes), and for a failure the error handler,
`Raise`. `Eligible` is the LoTW part of `evaluate_digest_eligibility`. Time is counted in units of
the first backoff, up to the cap. Three histories are about refusals: `refused` (the last answer of
consequence was one), `barred` (the browsers that were refused and have not logged in since) and
`outlived` (a transient failure of a job or of another browser was recorded over it).

### StripeBilling

Stripe's events are a sequence, of which it sends any again until a 2xx, and perhaps after it, in
any order. A checkout request is one transaction with two calls of Stripe in it (`ReadUser`,
`CreateCustomer`, `CreateSession`, `CommitCheckout`; an error of Stripe still commits), the webhook
four (`Look`/`Insert`, `LoadUser`/`Apply`, `Mark`, `MarkFailed`). Histories name what the code does
not order: `rivals` (two checkouts were open that had both found no customer), `strays` (customers
whose checkout was killed before it saved them), `latest` (the event that was applied last), `mixed`
(the user changed between the load and the write of that application).

### Logbook

`rows` is `qso_reports` of one user, in the order of the ids; `picture` and `count` are the columns
`map_data` and `map_data_count`. A map request is four steps, as its statements see different rows:
`OpenMap` (the user), `CountRows`, `DrawMap`, `WriteMap`, which writes only the column that differs
from what was loaded. A page is `OpenPage` (`get_25_most_recent_rxqsls`, and which of those are
new), `MarkUnique` (`check_unique_qsos_bulk`), `CommitPage`. A picture is the set of located rows in the order of their QSLs. `Import` is what
`QsoImport` does to the rows, in one action.

### Schema

The schema is a set of pairs of a table and a part (the table, a group of columns, a group of
indexes). Each migration is the sequence of its statements (`Upgrade1` .. `Upgrade4` and down), with
the `inspect` of each place where the code makes a new inspector: an inspector remembers table names
and reads columns and indexes when asked. `Look` evaluates the condition of a statement, `Act` runs
it, `Stamp` writes the version, `Commit` ends the one transaction of all due migrations. Locks are
by table, held to the end, granted in order (`ahead`: who asked before), and a cycle of waiters
loses a member (`Victim`). `create_all` is the same kind of sequence, of all declared tables.

## Runs

| run | instance | shows |
|---|---|---|
| `delivery_solo` | two cron processes, one batch, one browser, all flags and settings, two faults | `AtMostOnceRecorded`, `OneChannel`, `SnapshotHolds`, `SentIsFinal`, and the refinement `KeepsPromise` |
| `delivery_jobs` | a cron process and a delivery job, two batches of one user, the job taking one at a time, a fault, fair | `SentIsBacked`, `CycleEnds`, `PendingIsDispatched` |
| `generation_fixed` | 7 ticks of a 2-tick day, one QSL, one change (of its date or of eligibility), one crash, fair | `NoRepeat`, `OneDayWindowKept`, `DueIsGenerated` |
| `generation_moving` | the same with two timezones, two digest times, and a change of these as well | `NothingSkipped`, `PurgeSparesDue` |
| `import_one` | one process, two QSOs, three days of one tick, one fault, fair | `ReloadEnds` |
| `import_many` | a job and a request at once, one QSO, repeated rows, one midnight, one fault | `CaughtUp`, `SyncingIsTrue`, `OneRowPerQso`, types |
| `session` | two threads, two browsers and jobs, two failures counted, fair clock | `ExpiredNeedsLogin`, `DeferredHasRetry`, `HealsAlone`, `RetryComes`, types |
| `billing` | two checkout and two webhook requests at once, three events, a fault, fair | `AppliedAtMostOnce`, `ProcessedIsApplied`, `PayableIsRecorded`, `OneCustomer`, `MirrorsStripe`, `EventsDrain`, types |
| `schema` | two administrators, one start, an empty database or one left at version 0 or 3, one downgrade or kill, fair | `VersionIsTrue`, `HeadIsComplete`, `LoneRunSucceeds`, `HeadIsReached`, types |
| `logbook` | two map requests or a page, three QSOs, up to four rows of which a page reads three and shows two | `MapIsComplete`, `PageShowsRecent`, `NewOnce`, types |
| `billing_lost` | two faults | a violation of `CheckoutRefreshesPlan` |
| `session_outage` | one thread | a violation of `OutageKeepsLogin` |

The bounds are small because the hazards are: two of whatever may interleave, one or two faults
(kills, lost connections, errors of a service, a status that cannot be written: `MaxFaults`,
`MaxCrashes`, `MaxUpsets`), two rows where rows can differ. Two faults are needed for a batch to be
lost twice, two events for an order, three for a checkout (two events) and what follows, two days and
a bit for a window, its successor and a missed day, a retention of two days for the purge to meet it.
`MaxCount` bounds the QSLs of a batch (only zero and more differ), `MaxJobs` the delivery jobs,
`MaxClicks`, `MaxEvents`, `MaxChanges` (of settings, eligibility, or the date of a stored QSL),
`FirstTick`, `LastTick`, `MaxFails` and `MaxBackoff` counters of the same kind; `Dates` are the digest
dates these ticks can give, as an assumption of the module says. `MaxBackoff` and `MaxFails` keep the
shape of the backoff, which doubles once before its cap; `Jars` are names that are used again when
nobody refers to them.

Four runs leave out combinations, by a constraint that their MC module states:

* `delivery_jobs`, `OneMatter`: there is either a second batch, for the older to starve it, or a
  delivery job or a fault beside cron, and with these two the browser does not unsubscribe; only the
  first batch grows old. Each of the hazards (a
  younger batch behind one that always fails, a purge across a dispatch, two dispatchers of a batch)
  needs one of these.
* `billing`, `Budget`: two checkouts and the payment of one, or one checkout and three events.
* `session`, `OverlapOfOne`: requests overlap while only the first browser is in use; with two
  browsers they come one after the other, which is what `ExpiredNeedsLogin` is about.
* `logbook`, `OneAtATime`: the map and the page are explored one after the other, for neither reads
  what the other writes; and each with the rows that tell its answers apart (`NoPageYet`,
  `FewCredits`). A page of two that reads three rows is cut off by the LIMIT and by duplicates; with
  four rows there is one beyond the LIMIT; dates of rows change beside the map, while the page meets
  rows of any dates. An import adds one QSO (`MaxBatch`), larger ones are
  several; at most one changes a date (`MaxFixes`).

`import_many`: a date put back by an overlapping import needs a third date, so days of two ticks, and
does not occur at its bounds; `CaughtUp` was corrected for it with the help of a larger instance
(`DayLength` 2, `LastTick` 4), and its theorem covers every length.

`schema`: two migrations at once and a start are what a deployment can have beside cron; databases
left at version 0 and at 3 differ in whether `users` has the columns of the middle migrations, and
an empty one is where `create_all` comes first.

The types of `DigestDelivery` and `DigestGeneration` are proved for every instance and therefore
not checked again.

Billing runs do not check deadlock, for the user may stop clicking and paying, and then nothing
remains to do.

### Fairness

* Delivery: cron starts the script whenever the lock is free (weak fairness of `StartCron`), and a
  process that runs goes on. PostgreSQL queues the waiters of a row, so a runner that waits is
  served: strong fairness of each runner's steps, but not of a call of a push service, which nothing
  ends if the service does not. `CycleEnds` and `PendingIsDispatched` therefore have a premise,
  `Answered`: no runner waits for a push service for ever. Without it both are false of the code. No
  fairness of users, mail server or jobs.
* Generation: weak fairness of the cycle.
* Import: weak fairness of a running import, of the reload of an open page that has a timer, and
  of the hour after which data counts as old. `ReloadEnds` is said of one process (`Quiet`: no request
  imports beside it from some time on).
* LoTW session: only the clock.
* Schema: whoever deploys runs `alembic upgrade head` until it succeeds, cron starts the application
  every quarter of an hour (weak fairness of both), and PostgreSQL serves waiters in their order, so
  a run that can go on again and again does (strong fairness of each run).
* Billing: weak fairness of a running webhook request; strong fairness of the delivery of each
  unanswered event, which Stripe promises (retries for days).

## Findings

`billing_lost`: a webhook whose application fails leaves a record, and Stripe's retry is answered
"duplicate" because of that record. `session_outage`: `if not response` comes before the check for
429 and 5xx and is true for them, so an outage logs the user out.

Further disagreements between documents and code that the models reach. Each is allowed for in the
property next to it, by name where a history tells of it, and noted with its hazard:

* delivery: a crash between a send and its commit repeats the announcement (`lost`); a push that left
  and is reported as failed is followed by the email, so the user is told by both (`missed`); an email
  row says `push_succeeded` when push failed and fallback is off; a push service that does not answer
  holds the cycle and the lock file, and no later cycle runs. Two dispatchers would announce a batch
  twice; nothing in the repository calls `enqueue_qsl_digest_delivery` (`background_jobs.py:111`), so
  today there is one;
* generation: a catch-up batch of several days shrinks when the next cycle of the day regenerates it,
  and if it has not been announced by then, the QSLs of the days before are in no digest (`shed`);
  a QSL that an import dates anew is announced anew; a retention of one day (`DIGEST_RETENTION_DAYS`,
  90 unless set, `app/__init__.py:102`) purges, west of UTC, the batch that is still due;
* import: a first import stores a QSO twice if the download repeats it in another group of 200; two
  imports at once store QSOs twice, and the one that began earlier may put an older date back; the
  handler of a failed import writes the status to the database that may just have failed, and "syncing"
  then stays (`orphaned`) until an import starts anew;
* session: a transient failure of a job, or of another browser, overwrites `auth_expired`, and digests
  resume after the backoff although no one has logged in (`outlived`), against
  `docs/qsl_digest_notifications_plan.md:156`; two threads can leave `transient_error` with no failure
  counted;
* billing: two checkouts at once make two customers, one of which is forgotten with whatever is paid
  by it (`rivals`); an event that comes late overwrites the plan of a newer one (`latest`); two webhook
  requests at once may leave the status of one and the plan of the other (`mixed`), say "canceled" with
  "plus";
* map: a request with `force_reload` beside another may store its picture under the count of the
  other, and the map then lacks QSOs until a lone drawing (`mixed`);
* migrations: the one that creates `stripe_events` lets a table that appeared meanwhile pass ("Allow
  concurrent/previous creation to pass safely", `20260213_02_billing_sync_indexes.py:53`), but
  PostgreSQL has spoilt the transaction by then, so the run fails at its next statement and must be
  repeated.

## Proofs

All are for every value of the constants, from the named assumptions of the modules (constants are
sets, numbers or distinct model values of the stated kind) and, where one is named below, a
hypothesis of the theorem: what the comment of the property, or the code, restricts it to.

* `DigestDeliveryProofs`, any number of cron processes and jobs: `TypeCorrect` (`TypeOk`) and
  `SentBacked`, the truth of "sent". A row can be written for a batch only by a transaction that has
  read the batch; the invariant says which rows it holds and that what it will write as "sent" has
  left (`LockedRows`, `BackedTx`). The second half is for `Jobs = {}`: at-most-once up to lost
  records, one channel up to missed ones, snapshot and finality. The strengthening `SoloInv` adds
  that at most one process is past the lock (`Mutex`), that what it has queued is pending still
  (`QueuePending`), that what it has read is what the tables hold (`TxHolds`), that one channel at
  most is recorded (`OneRecord`), and two accounts: how often the user was told against how many
  records were lost (`Ledger`), and, of a batch of which no message was missed, that all that left
  while it is unrecorded left in the transaction under way (`Account`).
* `DigestPromiseProofs`, `Jobs = {}`: `PromiseKept`, the refinement of `Announcements`. `SoloInv`
  says that at most one transaction is open and that its batch is still due, so its opening is an
  attempt on a due batch with no other under way; `LeftTx` adds that what it is about to record as
  sent has left in it, so a commit is a record under a channel that was used, or a failure. One lemma
  per action of `Announcements` (`LoadAttempts`, `MessageSays`, `CommitEnds`, `FailureFails`,
  `GenerateGenerates`, `PurgeRetires`, `OutsideAges`), one for the steps that map to none (`OwnSteps`).
* `DigestGenerationProofs`: types and `NothingSkipped`. Inductive because a window drawn by the
  open transaction starts at or before the cursor, which nobody else moves (`DrawnFromCursor`), and
  has every QSL of its dates that was imported in time (`DrawnComplete`); a batch that is overwritten
  or deleted loses only what was announced or is then in `shed`.
  `NoRepeat` and `OneDayWindowKept` are for users who leave timezone and digest time alone
  (`[][Settled]_vars`; each may have other ones), over dates that imports rewrite: the cursor is then
  the end of some date's window and not ahead of the clock, what the transaction has drawn ends with
  its date and not before the cursor, no date is known beyond the cursor, and an entry of a digest
  came after the end of every known date before it (`SettledInv`). `PurgeSparesDue` is an action
  property and needs no invariant but types; it assumes timezones within a day of UTC and
  `Retention # 1` (`Earthly`), without which it is false.
* `QsoImportProofs`, any number of processes and requests at once, any repetition of rows: types,
  `CaughtUp`, `SyncingIsTrue` and `OneRowPerQso`. What makes `CaughtUp` inductive is `DownloadCovers`:
  a QSL that was there at the download of an open import, and not before the day it asked for, is in
  the download, and is still to be stored by it, stored, or slipped; so when the cursor moves at the
  commit it passes over nothing. `OneRowPerQso` is about steps and rests on what an import knows that
  none has overtaken (`RowsInv`): whether anything is stored, and of each row it will insert that its
  QSO has none.
* `StripeBillingProofs`, any number of requests of both kinds at once, checkouts, faults and events in
  any order: types and all five safety properties. The unique key lets one webhook request own an
  event between insert and mark (`OneOwner`), before which it is not applied (`NotYet`); a customer
  that a request created and has not committed is known to nobody else (`Private`), so no event refers
  to it; a request about to mark "processed" has applied its event if it found the user (`Marking`).
  `PayableIsRecorded` and `OneCustomer`: until two checkouts have both found no customer, one at most
  is making one, all others know the one on record, and of all customers that Stripe made one at most
  is neither saved nor lost with a killed process (`OneMaker`, `OnRecord`, `Counted`).
  `MirrorsStripe`: the last event tells the status of its subscription (`LastIsSub`), and the plan is
  that of the event applied last if its columns were not mixed with another's (`PlanIsLatest`).
* `LotwSessionProofs`, any number of threads, browsers, jobs and LoTW sessions: types, `HealsAlone`,
  `DeferredHasRetry` and `ExpiredNeedsLogin`. The histories carry the argument: who is alone overlaps
  nobody (`AloneIsAlone`), while the history is clean whoever runs is alone (`CleanIsAlone`), so what
  it has loaded is what is stored (`LoadedIsStored`). A browser that was refused is logged out
  (`BarredIsOut`) before anything else asks for it (`BarredAsksNothing`), so the record of a refusal
  stays unless another's failure takes its place (`RefusalHolds`).
* `LogbookProofs`, any number of requests, QSOs and rows: types (with at most `PageSize` rows on a
  page), `MapIsComplete`, `NewOnce`. Rows are never taken away and keep their QSO
  (`Grows`). A picture and its count are written as one although each is compared for itself, for an
  unforced request draws only because there are more rows than it loaded (`DrawnForMore`), and a lone
  one has loaded what is stored (`LoneIsCurrent`). What was shown as new is seen or has a second row
  (`NewsIsSeen`). `PageShowsRecent` is counted: of some rows, those with fewer than n before
  them are at least n unless they are all (`TakesMany`), so if the page leaves a QSO out, either it is
  full or the rows that were read are; and these hold enough QSOs to fill the page (`TopIsSmall`,
  `PagesFit`) unless some QSO has so many rows that one fewer QSOs than a page shows, with as many
  each, take up all that are read (`Crowds`: eleven rows of one QSO, in the code), which the property
  excepts.
* `SchemaProofs`, any number of administrators and starts, every set of old versions: types,
  `VersionIsTrue`, `HeadIsComplete`, `LoneRunSucceeds`. The version a migration stamps stays locked
  until its commit, so of the upgrades that began with the stored version (`Live`) at most one will
  commit, and until then only starts of the application do, each of which leaves whole tables. What
  such an upgrade looks for and does not find in its list of tables is therefore created by it or
  whole (`Looked`), and what is behind it in its plan is provided (`Behind`). A downgrade runs beside
  no other migration (`Exclusive`) and takes nothing that the version it goes to promises (`Spares`).
  Each plan is checked against what a step of it may be (`UpStep`, `DownStep`, `AppStep`).
  For a run that nothing overlaps `LoneInv` says that the inspector's list is true of the tables that
  the steps before the next inspection are about (`Span`), because in each plan a table is created or
  removed once between two inspections, after those it refers to are created or those that refer to
  it are removed (`LonePlan`); so a statement fails at most for want of `users`.

Every invariant and action property of the passing runs is the property of a theorem. Only
model-checked are the liveness properties `CycleEnds`, `PendingIsDispatched`, `DueIsGenerated`,
`ReloadEnds`, `RetryComes`, `EventsDrain` and `HeadIsReached`: fairness and ENABLED are beyond the
prover. The invariants that the proofs rest on were model-checked first, on the instances of the runs.

## Not modelled

The award pages and their cache (HTML parsing; a TTL cache per process), search, the deployment
endpoint, templates beyond the requests they start, `get_multiple` and `is_unique_qso` (no caller),
the billing portal and `paid_required` (no state), CSRF tokens and signatures. Of the columns of a
subscription, `StripeBilling` has status and plan; the webhook writes the period columns with them,
and `entitlement_expires_at` lets a user whose subscription ended keep his digests until then
(`user.py:108-115`, `get_enabled_digest_users`). Eligibility by payment is one flag that may turn at
any time in `DigestGeneration` (`able`), whatever the reason, and is left out of `LotwSession`.
 `LotwSession` has one user, whose row appears at the first login in one
step; two first logins of one callsign at once would insert two rows, as `op` is not unique. Columns
of `qso_reports` that an import writes once and no property reads are data. What a marker of the map
looks like is left out. `Schema` claims nothing for SQLite, whose DDL is not transactional; an
administrator does not upgrade and downgrade at once.

## Plan

Written, in the order of what matters most: delivery, generation, import, session, billing, then
migrations, map and page, and the abstract specification of the digest with its refinement; the
proofs above, of all that is not liveness. To come:

1. The composition of generation, eligibility and import: a QSL imported before its window is
   generated is announced once.
2. `AtMostOnceRecorded` beside delivery jobs of other users, should anything come to start them.
