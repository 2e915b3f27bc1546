--------------------------- MODULE StripeBilling ----------------------------
(***************************************************************************)
(* How one user comes to a paid plan (app/blueprints/billing/overview.py): *)
(* requests that open a Stripe checkout, and the webhook, by which Stripe  *)
(* tells of checkouts and subscriptions and which writes the users row.    *)
(*                                                                         *)
(* Stripe sends an event until it gets a 2xx answer, perhaps again after   *)
(* it, and in any order.  A webhook request is up to four transactions:    *)
(* look the event up and insert it as "received"; apply it to the user;    *)
(* mark it "processed", or "failed" after an exception.  The database is   *)
(* PostgreSQL at READ COMMITTED: a row that is read is not locked.         *)
(***************************************************************************)
EXTENDS Integers, Sequences

CONSTANTS
    Clickers,    \* requests of the user that open a checkout, at once
    Hooks,       \* webhook requests at once
    MaxClicks,   \* bound: checkouts asked for
    MaxEvents,   \* bound: events of Stripe
    MaxFaults    \* bound: processes killed, database and Stripe errors

ASSUME ProcessAssumption == Clickers \intersect Hooks = {}
ASSUME BoundAssumption   == MaxClicks \in Nat /\ MaxEvents \in Nat /\ MaxFaults \in Nat

VARIABLES
    user,        \* users row: stripe_customer_id, subscription_status, plan_tier
    records,     \* stripe_events: the status of each event, "none" without row
    customers,   \* Stripe: number of customers it said it created for the user
    subs,        \* Stripe: checkouts shown to the user, each with its customer
                 \* and what became of it
    events,      \* Stripe: the events, as a sequence
    acked,       \* Stripe: events that got a 2xx answer
    pc, work,    \* per request: where it is, what it knows
    applied,     \* history: how often each event was applied to the user
    latest,      \* history: the event that was applied last, 0 for none
    mixed,       \* history: that request had loaded what another then changed
    rivals,      \* history: two checkouts were open that both found no customer
    strays,      \* history: customers whose checkout died before it saved them
    clicks, faults  \* bound counters

stripeVars == <<customers, subs, events, acked>>
applyVars  == <<applied, latest, mixed>>
history    == <<applyVars, rivals, strays>>
vars       == <<user, records, stripeVars, pc, work, history, clicks, faults>>

-----------------------------------------------------------------------------
Requests == Clickers \union Hooks
Ids      == 1..Len(events)
Shown    == 1..Len(subs)

Statuses == {"inactive", "active", "past_due", "canceled"}

NoWork == [event |-> 0, customer |-> 0, shown |-> FALSE,
           loaded |-> [customer |-> 0, status |-> "inactive", plan |-> "free"]]

(* Only columns that differ from what was loaded are written.               *)
Column(loaded, new, stored) == IF new = loaded THEN stored ELSE new

Goes(r, place) == pc' = [pc EXCEPT ![r] = place]
Ends(r)        == Goes(r, "idle") /\ work' = [work EXCEPT ![r] = NoWork]
Fault          == faults < MaxFaults /\ faults' = faults + 1

-----------------------------------------------------------------------------
User  == [customer: Nat, status: Statuses, plan: {"free", "plus"}]
Sub   == [customer: Nat, status: {"open", "active", "past_due", "canceled"}]
Event == [sub: Nat \ {0}, customer: Nat, status: Statuses]
Work  == [event: Nat, customer: Nat, shown: BOOLEAN, loaded: User]

TypeOk ==
    /\ user \in User
    /\ records \in [1..MaxEvents -> {"none", "received", "processed", "failed"}]
    /\ customers \in Nat /\ subs \in Seq(Sub)
    /\ events \in Seq(Event) /\ Len(events) <= MaxEvents /\ acked \subseteq Ids
    /\ pc \in [Requests -> {"idle", "read", "customer", "session", "commit",
                            "look", "insert", "load", "apply", "mark", "failed"}]
    /\ work \in [Requests -> Work]
    /\ \A h \in Hooks : pc[h] # "idle" => work[h].event \in Ids
    /\ applied \in [1..MaxEvents -> Nat] /\ latest \in {0} \union Ids
    /\ mixed \in BOOLEAN /\ rivals \in BOOLEAN /\ strays \in Nat
    /\ clicks \in 0..MaxClicks /\ faults \in 0..MaxFaults

Init ==
    /\ user = [customer |-> 0, status |-> "inactive", plan |-> "free"]
    /\ records = [e \in 1..MaxEvents |-> "none"]
    /\ customers = 0 /\ subs = <<>> /\ events = <<>> /\ acked = {}
    /\ pc = [r \in Requests |-> "idle"] /\ work = [r \in Requests |-> NoWork]
    /\ applied = [e \in 1..MaxEvents |-> 0] /\ latest = 0
    /\ mixed = FALSE /\ rivals = FALSE /\ strays = 0
    /\ clicks = 0 /\ faults = 0

-----------------------------------------------------------------------------
(* create_checkout_session.                                                 *)

Click(r) ==
    /\ pc[r] = "idle" /\ clicks < MaxClicks /\ clicks' = clicks + 1
    /\ Goes(r, "read")
    /\ UNCHANGED <<user, records, stripeVars, work, history, faults>>

(* A checkout that has found no customer, and will save one.                *)
Making(r) == pc[r] \in {"customer", "session", "commit"} /\ work[r].loaded.customer = 0

ReadUser(r) ==
    /\ pc[r] = "read"
    /\ rivals' = (rivals \/ (user.customer = 0 /\ \E o \in Clickers \ {r} : Making(o)))
    /\ work' = [work EXCEPT ![r].loaded.customer = user.customer, ![r].customer = user.customer]
    /\ Goes(r, IF user.customer = 0 THEN "customer" ELSE "session")
    /\ UNCHANGED <<user, records, stripeVars, applyVars, strays, clicks, faults>>

CreateCustomer(r) ==
    /\ pc[r] = "customer"
    /\ customers' = customers + 1
    /\ work' = [work EXCEPT ![r].customer = customers']
    /\ Goes(r, "session")
    /\ UNCHANGED <<user, records, subs, events, acked, history, clicks, faults>>

CreateSession(r) ==
    /\ pc[r] = "session"
    /\ work' = [work EXCEPT ![r].shown = TRUE]
    /\ Goes(r, "commit")
    /\ UNCHANGED <<user, records, stripeVars, history, clicks, faults>>

(* Mutant: the failure rolls the transaction back.                          *)
StripeUndoes(r) ==
    /\ pc[r] \in {"customer", "session"} /\ Fault
    /\ Ends(r)
    /\ UNCHANGED <<user, records, stripeVars, history, clicks>>

(* Stripe fails.  The 502 is returned from within the transaction, which    *)
(* therefore commits.                                                       *)
StripeFails(r) ==
    /\ pc[r] \in {"customer", "session"} /\ Fault
    /\ Goes(r, "commit")
    /\ UNCHANGED <<user, records, stripeVars, work, history, clicks>>

(* Mutants are what the code would be after a plausible slip; each one must *)
(* break a property.  Here the customer is not saved with the user.         *)
CommitAnonymous(r) ==
    /\ pc[r] = "commit"
    /\ subs' = IF work[r].shown THEN Append(subs, [customer |-> work[r].customer, status |-> "open"])
                                ELSE subs
    /\ Ends(r)
    /\ UNCHANGED <<user, records, customers, events, acked, history, clicks, faults>>

(* The transaction ends; the user gets the address of the checkout.         *)
CommitCheckout(r) ==
    /\ pc[r] = "commit"
    /\ user' = [user EXCEPT !.customer = Column(work[r].loaded.customer, work[r].customer, @)]
    /\ subs' = IF work[r].shown THEN Append(subs, [customer |-> work[r].customer, status |-> "open"])
                                ELSE subs
    /\ Ends(r)
    /\ UNCHANGED <<records, customers, events, acked, history, clicks, faults>>

-----------------------------------------------------------------------------
(* Stripe.                                                                  *)

Emits(k, status) == [sub |-> k, customer |-> subs[k].customer, status |-> status]

(* The user pays: customer.subscription.created, and                        *)
(* checkout.session.completed, which the webhook takes for "active" too.    *)
Pay(k) ==
    /\ subs[k].status = "open" /\ Len(events) + 2 <= MaxEvents
    /\ subs' = [subs EXCEPT ![k].status = "active"]
    /\ events' = Append(Append(events, Emits(k, "active")), Emits(k, "active"))
    /\ UNCHANGED <<user, records, customers, acked, pc, work, history, clicks, faults>>

(* customer.subscription.updated or .deleted.                               *)
Change(k, status) ==
    /\ subs[k].status \in {"active", "past_due"} /\ subs[k].status # status
    /\ Len(events) < MaxEvents
    /\ subs' = [subs EXCEPT ![k].status = status]
    /\ events' = Append(events, Emits(k, status))
    /\ UNCHANGED <<user, records, customers, acked, pc, work, history, clicks, faults>>

Send(h, e) ==
    /\ pc[h] = "idle"
    /\ Goes(h, "look") /\ work' = [work EXCEPT ![h].event = e]
    /\ UNCHANGED <<user, records, stripeVars, history, clicks, faults>>

-----------------------------------------------------------------------------
(* stripe_webhook.                                                          *)

Answer200(h) == acked' = acked \union {work[h].event} /\ Ends(h)

(* Mutant: an event that is there already is an error.                      *)
LookNever(h) ==
    /\ pc[h] = "look"
    /\ Goes(h, "insert")
    /\ UNCHANGED <<user, records, stripeVars, work, history, clicks, faults>>

(* An event with a record, whatever its status, is a "duplicate".           *)
Look(h) ==
    /\ pc[h] = "look"
    /\ IF records[work[h].event] # "none" THEN Answer200(h)
       ELSE Goes(h, "insert") /\ UNCHANGED <<acked, work>>
    /\ UNCHANGED <<user, records, customers, subs, events, history, clicks, faults>>

(* Mutant: event_id is not unique.                                          *)
InsertAnyway(h) ==
    /\ pc[h] = "insert"
    /\ records' = [records EXCEPT ![work[h].event] = "received"]
    /\ Goes(h, "load")
    /\ UNCHANGED <<user, stripeVars, work, history, clicks, faults>>

(* event_id is unique: the second of two inserts fails, with a 500.         *)
Insert(h) ==
    /\ pc[h] = "insert"
    /\ IF records[work[h].event] # "none" THEN Ends(h) /\ UNCHANGED records
       ELSE /\ records' = [records EXCEPT ![work[h].event] = "received"]
            /\ Goes(h, "load") /\ UNCHANGED work
    /\ UNCHANGED <<user, stripeVars, history, clicks, faults>>

(* _apply_subscription_to_user: events of a customer that no user has are   *)
(* passed over, ...                                                         *)
LoadUser(h) ==
    LET mine == user.customer = events[work[h].event].customer IN
    /\ pc[h] = "load"
    /\ work' = [work EXCEPT ![h].loaded = user]
    /\ Goes(h, IF mine THEN "apply" ELSE "mark")
    /\ UNCHANGED <<user, records, stripeVars, history, clicks, faults>>

(* Mutant: a tier that nobody knows.                                        *)
PlanPaid(status) == IF status \in {"active", "trialing"} THEN "paid" ELSE "free"

Plan(status) == IF status \in {"active", "trialing"} THEN "plus" ELSE "free"

(* Mutant: the plan only ever rises.                                        *)
ApplyUpwards(h) ==
    LET e == work[h].event IN
    /\ pc[h] = "apply"
    /\ user' = IF Plan(events[e].status) = "free" THEN user
               ELSE [user EXCEPT !.status = events[e].status, !.plan = "plus"]
    /\ applied' = [applied EXCEPT ![e] = @ + 1] /\ latest' = e /\ mixed' = FALSE
    /\ Goes(h, "mark")
    /\ UNCHANGED <<records, stripeVars, work, rivals, strays, clicks, faults>>

(* ... others change the columns.                                           *)
Apply(h) ==
    LET e    == work[h].event
        base == work[h].loaded
    IN
    /\ pc[h] = "apply"
    /\ user' = [user EXCEPT !.status = Column(base.status, events[e].status, @),
                            !.plan   = Column(base.plan, Plan(events[e].status), @)]
    /\ applied' = [applied EXCEPT ![e] = @ + 1] /\ latest' = e
    /\ mixed' = (base.status # user.status \/ base.plan # user.plan)
    /\ Goes(h, "mark")
    /\ UNCHANGED <<records, stripeVars, work, rivals, strays, clicks, faults>>

Mark(h) ==
    /\ pc[h] = "mark"
    /\ records' = [records EXCEPT ![work[h].event] = "processed"]
    /\ Answer200(h)
    /\ UNCHANGED <<user, customers, subs, events, history, clicks, faults>>

(* The database fails while the event is applied or marked.                 *)
HookFails(h) ==
    /\ pc[h] \in {"load", "apply", "mark"} /\ Fault
    /\ Goes(h, "failed")
    /\ UNCHANGED <<user, records, stripeVars, work, history, clicks>>

(* Mutant: the status is set before, not after, what may fail.              *)
MarkFailedAsProcessed(h) ==
    /\ pc[h] = "failed"
    /\ records' = [records EXCEPT ![work[h].event] = "processed"]
    /\ Ends(h)
    /\ UNCHANGED <<user, stripeVars, history, clicks, faults>>

(* The except clause: a 500.                                                *)
MarkFailed(h) ==
    /\ pc[h] = "failed"
    /\ records' = [records EXCEPT ![work[h].event] = "failed"]
    /\ Ends(h)
    /\ UNCHANGED <<user, stripeVars, history, clicks, faults>>

(* The process is killed, or an exception that nobody catches ends it.      *)
Die(r) ==
    /\ pc[r] # "idle" /\ Fault
    /\ strays' = IF work[r].loaded.customer = 0 /\ work[r].customer # 0 THEN strays + 1 ELSE strays
    /\ Ends(r)
    /\ UNCHANGED <<user, records, stripeVars, applyVars, rivals, clicks>>

-----------------------------------------------------------------------------
Checkout(r) == ReadUser(r) \/ CreateCustomer(r) \/ CreateSession(r) \/ CommitCheckout(r)
Hook(h)     == \/ Look(h) \/ Insert(h) \/ LoadUser(h) \/ Apply(h) \/ Mark(h)
               \/ MarkFailed(h)

(* Deliveries that Stripe owes, and repeated ones.                          *)
Deliver(e) == e \notin acked /\ \E h \in Hooks : Send(h, e)
Repeat(e)  == e \in acked /\ \E h \in Hooks : Send(h, e)

Next == \/ \E r \in Clickers : Click(r) \/ Checkout(r) \/ StripeFails(r)
        \/ \E h \in Hooks : Hook(h) \/ HookFails(h)
        \/ \E r \in Requests : Die(r)
        \/ \E k \in Shown : Pay(k) \/ \E s \in Statuses \ {"inactive"} : Change(k, s)
        \/ \E e \in Ids : Deliver(e) \/ Repeat(e)

Spec == Init /\ [][Next]_vars

(* A webhook request that runs goes on; Stripe sends an event again and     *)
(* again while it gets no 2xx.  Nothing makes users click or pay.           *)
FairSpec == /\ Spec
            /\ \A h \in Hooks : WF_vars(Hook(h))
            /\ \A e \in 1..MaxEvents : SF_vars(e \in Ids /\ Deliver(e))

-----------------------------------------------------------------------------
(* Properties.                                                              *)

Subscribed(k) == k \in Shown /\ subs[k].status = "active"

(* However often and however many at once Stripe sends an event, it changes *)
(* the user once at most.                                                   *)
AppliedAtMostOnce == \A e \in 1..MaxEvents : applied[e] <= 1

(* An event of the user's customer marked "processed" has been applied.     *)
(* (One marked "failed" or left "received" may have been or not, and is     *)
(* never looked at again.)                                                  *)
ProcessedIsApplied == \A e \in Ids :
    records[e] = "processed" /\ events[e].customer = user.customer => applied[e] = 1

(* Whichever checkout the user pays, its customer is the one by which the   *)
(* webhook finds the user, over errors of Stripe, killed processes and      *)
(* checkouts open at once, unless two of these had both found no customer.  *)
PayableIsRecorded == (\E k \in Shown : subs[k].customer # user.customer) => rivals

(* Stripe is asked for one customer per user: a checkout that fails keeps   *)
(* the customer it created for the next one.  A second is created only      *)
(* after a process that was killed with the first in its hands, or by the   *)
(* second of two checkouts that had both found none.                        *)
OneCustomer == customers <= 1 + strays \/ rivals

(* The plan is that of the subscription that changed last once its event    *)
(* has been applied: over events that come twice, late or in any order, it  *)
(* is another only while an older event was applied after the newest, or    *)
(* the request that applied it mixed its columns with another's.            *)
MirrorsStripe ==
    latest # 0 /\ latest = Len(events) /\ ~mixed =>
        (user.plan = "plus" <=> Subscribed(events[latest].sub))

(* Every event gets its 2xx in the end, over failures and duplicates, so    *)
(* that Stripe does not switch the webhook off.                             *)
EventsDrain == \A e \in 1..MaxEvents : e \in Ids ~> e \in acked

(* app/blueprints/billing/notifications.py:63: "Subscription checkout       *)
(* completed. Refreshing plan status may take a moment."                    *)
CheckoutRefreshesPlan == \A k \in 1..MaxClicks :
    Subscribed(k) ~> user.plan = "plus" \/ ~Subscribed(k)
=============================================================================
