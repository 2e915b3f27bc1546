------------------------- MODULE StripeBillingProofs -------------------------
(***************************************************************************)
(* Proofs about StripeBilling, for any number of requests, checkouts,      *)
(* events and faults, in whatever order Stripe sends.                      *)
(***************************************************************************)
EXTENDS StripeBilling, TLAPS

(* Where each kind of request can be.                                       *)
Places ==
    /\ \A r \in Clickers : pc[r] \in {"idle", "read", "customer", "session", "commit"}
    /\ \A h \in Hooks : pc[h] \in {"idle", "look", "insert", "load", "apply", "mark", "failed"}

(* A webhook request that has inserted the record of an event owns the      *)
(* event until it marks the record, and applies it once at most.            *)
Owns(h) == pc[h] \in {"load", "apply", "mark", "failed"}
OneOwner == \A h \in Hooks : Owns(h) =>
    /\ records[work[h].event] = "received"
    /\ \A g \in Hooks : Owns(g) /\ work[g].event = work[h].event => g = h
NotYet == \A h \in Hooks : pc[h] \in {"load", "apply"} => applied[work[h].event] = 0
NoRecord == \A e \in 1..MaxEvents : records[e] = "none" => applied[e] = 0

Inv == TypeOk /\ Places /\ OneOwner /\ NotYet /\ NoRecord /\ AppliedAtMostOnce

-----------------------------------------------------------------------------
(* What a step of a checkout request, and of its end, leaves alone.         *)
LEMMA ClickerStep ==
    ASSUME TypeOk, NEW r \in Clickers, Click(r) \/ Checkout(r) \/ StripeFails(r) \/ Die(r)
    PROVE  /\ UNCHANGED <<records, applyVars, applied, latest, mixed, events, acked>>
           /\ \A o \in Requests \ {r} : pc'[o] = pc[o] /\ work'[o] = work[o]
  <1> r \in Requests  BY DEF Requests
  <1> QED
    BY DEF TypeOk, Click, Checkout, ReadUser, CreateCustomer, CreateSession, CommitCheckout,
           StripeFails, Die, Ends, Goes, stripeVars, history, applyVars

(* What a step of a webhook request, its start and its end leave alone.     *)
LEMMA HookStep ==
    ASSUME TypeOk, NEW h \in Hooks,
           Hook(h) \/ HookFails(h) \/ Die(h) \/ \E e \in Ids : Send(h, e)
    PROVE  /\ UNCHANGED <<customers, subs, events, rivals>> /\ user'.customer = user.customer
           /\ \A o \in Requests \ {h} : pc'[o] = pc[o] /\ work'[o] = work[o]
  <1> h \in Requests  BY DEF Requests
  <1>1. CASE Apply(h)
    <2>1. user'.customer = user.customer  BY <1>1 DEF Apply, TypeOk, User
    <2> QED  BY <1>1, <2>1 DEF Apply, TypeOk, Goes, stripeVars
  <1>2. CASE Look(h) \/ Insert(h) \/ LoadUser(h)
    BY <1>2 DEF TypeOk, Look, Insert, LoadUser, Answer200, Ends, Goes, stripeVars, history
  <1>3. CASE Mark(h) \/ MarkFailed(h) \/ HookFails(h) \/ Die(h)
    BY <1>3 DEF TypeOk, Mark, MarkFailed, HookFails, Die, Answer200, Ends, Goes, stripeVars, history
  <1>4. CASE \E e \in Ids : Send(h, e)
    BY <1>4 DEF TypeOk, Send, Goes, stripeVars, history
  <1> QED  BY <1>1, <1>2, <1>3, <1>4 DEF Hook

(* A subscription changes its status and nothing else.                      *)
LEMMA SubChanged ==
    ASSUME subs \in Seq(Sub), NEW k \in Shown, NEW t \in {"active", "past_due", "canceled"},
           subs' = [subs EXCEPT ![k].status = t]
    PROVE  /\ subs' \in Seq(Sub) /\ Len(subs') = Len(subs)
           /\ \A i \in Shown : subs'[i].customer = subs[i].customer
  <1> DEFINE new == [subs[k] EXCEPT !.status = t]
  <1>1. subs[k] \in Sub  BY DEF Shown
  <1>2. new \in Sub /\ new.customer = subs[k].customer  BY <1>1 DEF Sub
  <1>3. subs' = [subs EXCEPT ![k] = new]  OBVIOUS
  <1> HIDE DEF new
  <1> QED  BY <1>2, <1>3 DEF Shown

(* What Stripe's own steps do: one or two events more, of the customer of   *)
(* the subscription.                                                        *)
LEMMA StripeStep ==
    ASSUME TypeOk, NEW k \in Shown, Pay(k) \/ \E s \in Statuses \ {"inactive"} : Change(k, s)
    PROVE  /\ UNCHANGED <<user, records, customers, acked, pc, work, applied, latest, mixed, rivals, strays, clicks, faults>>
           /\ subs' \in Seq(Sub) /\ Len(subs') = Len(subs)
           /\ \A i \in Shown : subs'[i].customer = subs[i].customer
           /\ events' \in Seq(Event) /\ Len(events) <= Len(events') /\ Len(events') <= MaxEvents
           /\ \A e \in Ids : events'[e] = events[e]
           /\ \A e \in 1..Len(events') : e \notin Ids => events'[e].customer = subs[k].customer
  <1>1. subs \in Seq(Sub) /\ subs[k] \in Sub /\ events \in Seq(Event) /\ MaxEvents \in Nat
    BY BoundAssumption DEF TypeOk, Shown
  <1>2. \A t \in Statuses : Emits(k, t) \in Event /\ Emits(k, t).customer = subs[k].customer
    BY <1>1 DEF Emits, Event, Sub, Shown
  <1>3. CASE Pay(k)
    <2> DEFINE ev == Emits(k, "active")
               one == Append(events, ev)
    <2>1. ev \in Event  BY <1>2 DEF Statuses
    <2>2. one \in Seq(Event) /\ Len(one) = Len(events) + 1
          /\ (\A e \in Ids : one[e] = events[e]) /\ one[Len(events) + 1] = ev
      BY <1>1, <2>1 DEF Ids
    <2>3. Append(one, ev) \in Seq(Event) /\ Len(Append(one, ev)) = Len(one) + 1
          /\ (\A e \in 1..Len(one) : Append(one, ev)[e] = one[e]) /\ Append(one, ev)[Len(one) + 1] = ev
      <3> HIDE DEF one, ev
      <3> QED  BY <2>1, <2>2
    <2>4. events' = Append(one, ev)  BY <1>3 DEF Pay
    <2>5. subs' \in Seq(Sub) /\ Len(subs') = Len(subs)
          /\ \A i \in Shown : subs'[i].customer = subs[i].customer
      BY <1>1, <1>3, SubChanged DEF Pay
    <2>6. ev.customer = subs[k].customer  BY <1>2 DEF Statuses
    <2>7. Len(events) \in Nat /\ Len(events) + 2 <= MaxEvents  BY <1>1, <1>3 DEF Pay
    <2>8. UNCHANGED <<user, records, customers, acked, pc, work, applied, latest, mixed, rivals, strays, clicks, faults>>
      BY <1>3 DEF Pay, history, applyVars
    <2> HIDE DEF one, ev
    <2> QED  BY <2>2, <2>3, <2>4, <2>5, <2>6, <2>7, <2>8 DEF Ids
  <1>4. ASSUME NEW s \in Statuses \ {"inactive"}, Change(k, s)
        PROVE  /\ UNCHANGED <<user, records, customers, acked, pc, work, applied, latest, mixed, rivals, strays, clicks, faults>>
               /\ subs' \in Seq(Sub) /\ Len(subs') = Len(subs)
               /\ \A i \in Shown : subs'[i].customer = subs[i].customer
               /\ events' \in Seq(Event) /\ Len(events) <= Len(events') /\ Len(events') <= MaxEvents
               /\ \A e \in Ids : events'[e] = events[e]
               /\ \A e \in 1..Len(events') : e \notin Ids => events'[e].customer = subs[k].customer
    <2> DEFINE ev == Emits(k, s)
    <2>1. ev \in Event /\ ev.customer = subs[k].customer  BY <1>2
    <2>2. events' = Append(events, ev) /\ Len(events) < MaxEvents  BY <1>4 DEF Change
    <2>3. events' \in Seq(Event) /\ Len(events') = Len(events) + 1
          /\ (\A e \in Ids : events'[e] = events[e]) /\ events'[Len(events) + 1] = ev
      <3> HIDE DEF ev
      <3> QED  BY <1>1, <2>1, <2>2 DEF Ids
    <2>5. subs' \in Seq(Sub) /\ Len(subs') = Len(subs)
          /\ \A i \in Shown : subs'[i].customer = subs[i].customer
      <3>1. s \in {"active", "past_due", "canceled"}  BY DEF Statuses
      <3>2. subs' = [subs EXCEPT ![k].status = s]  BY <1>4 DEF Change
      <3> QED  BY <1>1, <3>1, <3>2, SubChanged
    <2>6. UNCHANGED <<user, records, customers, acked, pc, work, applied, latest, mixed, rivals, strays, clicks, faults>>
      BY <1>4 DEF Change, history, applyVars
    <2> HIDE DEF ev
    <2> QED  BY <1>1, <2>1, <2>2, <2>3, <2>5, <2>6 DEF Ids
  <1> QED  BY <1>3, <1>4
-----------------------------------------------------------------------------
(* Types.                                                                   *)
Place == {"idle", "read", "customer", "session", "commit",
          "look", "insert", "load", "apply", "mark", "failed"}
RunOk ==
    /\ pc \in [Requests -> Place]
    /\ work \in [Requests -> Work]
    /\ \A h \in Hooks : pc[h] # "idle" => work[h].event \in Ids
DataOk ==
    /\ user \in User
    /\ records \in [1..MaxEvents -> {"none", "received", "processed", "failed"}]
    /\ customers \in Nat /\ subs \in Seq(Sub)
    /\ events \in Seq(Event) /\ Len(events) <= MaxEvents /\ acked \subseteq Ids
    /\ applied \in [1..MaxEvents -> Nat] /\ latest \in {0} \union Ids
    /\ mixed \in BOOLEAN /\ rivals \in BOOLEAN /\ strays \in Nat
    /\ clicks \in 0..MaxClicks /\ faults \in 0..MaxFaults

(* Type correctness in two parts: the requests', and the data's.            *)
LEMMA TypeParts == TypeOk <=> RunOk /\ DataOk
  BY DEF TypeOk, RunOk, DataOk, Place

(* The initial state satisfies the whole invariant.                         *)
LEMMA InitInv == Init => Inv
  <1> SUFFICES ASSUME Init PROVE Inv  OBVIOUS
  <1>1. NoWork \in Work  BY DEF NoWork, Work, User, Statuses
  <1>2. RunOk  BY <1>1 DEF Init, RunOk, Place, Requests
  <1>3. user \in User  BY DEF Init, User, Statuses
  <1>4. <<>> \in Seq(Sub) /\ <<>> \in Seq(Event) /\ Len(<<>>) = 0  OBVIOUS
  <1>5. DataOk
    <2>1. subs \in Seq(Sub) /\ events \in Seq(Event) /\ Len(events) <= MaxEvents
      BY <1>4, BoundAssumption DEF Init
    <2>2. acked \subseteq Ids /\ latest \in {0} \union Ids  BY DEF Init
    <2>3. clicks \in 0..MaxClicks /\ faults \in 0..MaxFaults  BY BoundAssumption DEF Init
    <2> QED  BY <1>3, <2>1, <2>2, <2>3 DEF Init, DataOk
  <1>6. Places /\ OneOwner /\ NotYet /\ NoRecord /\ AppliedAtMostOnce
    BY DEF Init, Places, OneOwner, Owns, NotYet, NoRecord, AppliedAtMostOnce, Requests
  <1> QED  BY <1>2, <1>5, <1>6, TypeParts DEF Inv

(* What a request knows stays well typed as it learns more.                 *)
LEMMA WorkWith ==
    ASSUME NEW w \in Work, NEW u \in User, NEW n \in Nat, NEW b \in BOOLEAN
    PROVE  /\ [w EXCEPT !.loaded = u] \in Work /\ [w EXCEPT !.loaded = u].event = w.event
           /\ [w EXCEPT !.customer = n] \in Work /\ [w EXCEPT !.customer = n].event = w.event
           /\ [w EXCEPT !.shown = b] \in Work /\ [w EXCEPT !.shown = b].event = w.event
           /\ [w EXCEPT !.event = n] \in Work /\ [w EXCEPT !.event = n].event = n
           /\ [w EXCEPT !.loaded.customer = n, !.customer = n] \in Work
  BY DEF Work, User

(* A request goes to a place, with what it knows; the others stay.          *)
LEMMA RequestStep ==
    ASSUME RunOk, NEW r \in Requests, NEW p \in Place, NEW w \in Work,
           r \in Hooks /\ p # "idle" => w.event \in Ids,
           Goes(r, p), work' = [work EXCEPT ![r] = w], events' = events
    PROVE  RunOk'
  <1>1. pc' \in [Requests -> Place] /\ work' \in [Requests -> Work]
    BY DEF RunOk, Goes
  <1>2. Ids' = Ids  BY DEF Ids
  <1>3. ASSUME NEW h \in Hooks, pc'[h] # "idle" PROVE work'[h].event \in Ids'
    <2>1. CASE h = r  BY <2>1, <1>2, <1>3 DEF RunOk, Goes
    <2>2. CASE h # r
      <3>1. h \in Requests  BY DEF Requests
      <3> QED  BY <2>2, <3>1, <1>2, <1>3 DEF RunOk, Goes
    <2> QED  BY <2>1, <2>2
  <1> QED  BY <1>1, <1>3 DEF RunOk

(* The same when what it knows stays.                                       *)
LEMMA RequestMoves ==
    ASSUME RunOk, NEW r \in Requests, NEW p \in Place, r \in Hooks => pc[r] # "idle",
           Goes(r, p), UNCHANGED <<work, events>>
    PROVE  RunOk'
  <1>1. work[r] \in Work /\ work' = [work EXCEPT ![r] = work[r]]  BY DEF RunOk
  <1>2. r \in Hooks => work[r].event \in Ids  BY DEF RunOk
  <1> QED  BY <1>1, <1>2, RequestStep

(* A request that ends is idle and forgets what it knew.                    *)
LEMMA RequestEnds ==
    ASSUME RunOk, NEW r \in Requests, Ends(r), events' = events
    PROVE  RunOk'
  <1>1. NoWork \in Work  BY DEF NoWork, Work, User, Statuses
  <1>2. "idle" \in Place  BY DEF Place
  <1> QED  BY <1>1, <1>2, RequestStep DEF Ends

(* Every step keeps the requests' places and knowledge well typed.          *)
LEMMA NextRun == ASSUME TypeOk, [Next]_vars PROVE RunOk'
  <1>a. RunOk /\ DataOk  BY TypeParts
  <1>b. Place = {"idle", "read", "customer", "session", "commit",
                 "look", "insert", "load", "apply", "mark", "failed"}  BY DEF Place
  <1>1. ASSUME NEW r \in Clickers, Click(r) \/ Checkout(r) \/ StripeFails(r) PROVE RunOk'
    <2>1. r \in Requests /\ r \notin Hooks /\ work[r] \in Work /\ user \in User /\ user.customer \in Nat
      BY <1>a, ProcessAssumption DEF Requests, RunOk, DataOk, User
    <2>2. CASE Click(r) \/ StripeFails(r)
      BY <1>a, <1>b, <2>1, <2>2, RequestMoves DEF Click, StripeFails, stripeVars
    <2>3. CASE ReadUser(r)
      <3> DEFINE w == [work[r] EXCEPT !.loaded.customer = user.customer, !.customer = user.customer]
      <3>1. w \in Work  BY <2>1, WorkWith
      <3>2. work' = [work EXCEPT ![r] = w]  BY <2>3, <1>a DEF ReadUser, RunOk, Work, User
      <3>3. \E p \in Place : Goes(r, p)  BY <2>3, <1>b DEF ReadUser
      <3>4. events' = events  BY <2>3 DEF ReadUser, stripeVars
      <3> HIDE DEF w
      <3> QED  BY <1>a, <2>1, <3>1, <3>2, <3>3, <3>4, RequestStep
    <2>4. CASE CreateCustomer(r)
      <3> DEFINE w == [work[r] EXCEPT !.customer = customers']
      <3>1. customers' \in Nat  BY <2>4, <1>a DEF CreateCustomer, DataOk
      <3>2. w \in Work  BY <2>1, <3>1, WorkWith
      <3>3. work' = [work EXCEPT ![r] = w]  BY <2>4, <1>a DEF CreateCustomer, RunOk, Work
      <3>4. Goes(r, "session") /\ events' = events  BY <2>4 DEF CreateCustomer
      <3> HIDE DEF w
      <3> QED  BY <1>a, <1>b, <2>1, <3>2, <3>3, <3>4, RequestStep
    <2>5. CASE CreateSession(r)
      <3> DEFINE w == [work[r] EXCEPT !.shown = TRUE]
      <3>1. w \in Work  BY <2>1, WorkWith
      <3>2. work' = [work EXCEPT ![r] = w]  BY <2>5, <1>a DEF CreateSession, RunOk, Work
      <3>3. Goes(r, "commit") /\ events' = events  BY <2>5 DEF CreateSession, stripeVars
      <3> HIDE DEF w
      <3> QED  BY <1>a, <1>b, <2>1, <3>1, <3>2, <3>3, RequestStep
    <2>6. CASE CommitCheckout(r)
      BY <1>a, <2>1, <2>6, RequestEnds DEF CommitCheckout
    <2> QED  BY <1>1, <2>2, <2>3, <2>4, <2>5, <2>6 DEF Checkout
  <1>2. ASSUME NEW h \in Hooks, Hook(h) \/ HookFails(h) PROVE RunOk'
    <2>1. h \in Requests /\ work[h] \in Work /\ user \in User
      BY <1>a DEF Requests, RunOk, DataOk
    <2>2. CASE Look(h)
      BY <1>a, <1>b, <2>1, <2>2, RequestMoves, RequestEnds DEF Look, Answer200
    <2>3. CASE Insert(h)
      BY <1>a, <1>b, <2>1, <2>3, RequestMoves, RequestEnds DEF Insert, stripeVars
    <2>4. CASE LoadUser(h)
      <3> DEFINE w == [work[h] EXCEPT !.loaded = user]
      <3>1. w \in Work /\ w.event = work[h].event  BY <2>1, WorkWith
      <3>2. work' = [work EXCEPT ![h] = w]  BY <2>4, <1>a DEF LoadUser, RunOk, Work
      <3>3. \E p \in Place : Goes(h, p)  BY <2>4, <1>b DEF LoadUser
      <3>4. events' = events /\ pc[h] # "idle"  BY <2>4 DEF LoadUser, stripeVars
      <3>5. w.event \in Ids  BY <1>a, <3>1, <3>4 DEF RunOk
      <3> HIDE DEF w
      <3> QED  BY <1>a, <2>1, <3>1, <3>2, <3>3, <3>4, <3>5, RequestStep
    <2>5. CASE Apply(h) \/ HookFails(h)
      BY <1>a, <1>b, <2>1, <2>5, RequestMoves DEF Apply, HookFails, stripeVars
    <2>6. CASE Mark(h) \/ MarkFailed(h)
      BY <1>a, <2>1, <2>6, RequestEnds DEF Mark, MarkFailed, Answer200, stripeVars
    <2> QED  BY <1>2, <2>2, <2>3, <2>4, <2>5, <2>6 DEF Hook
  <1>3. ASSUME NEW r \in Requests, Die(r) PROVE RunOk'
    BY <1>3, <1>a, RequestEnds DEF Die, stripeVars
  <1>4. ASSUME NEW k \in Shown, Pay(k) \/ \E s \in Statuses \ {"inactive"} : Change(k, s) PROVE RunOk'
    <2>1. UNCHANGED <<pc, work>> /\ Len(events) <= Len(events')  BY <1>4, StripeStep
    <2>2. Len(events) \in Nat /\ Len(events') \in Nat
      BY <1>a, <1>4, StripeStep DEF DataOk
    <2> QED  BY <1>a, <2>1, <2>2 DEF RunOk, Ids
  <1>5. ASSUME NEW h \in Hooks, NEW e \in Ids, Send(h, e) PROVE RunOk'
    <2> DEFINE w == [work[h] EXCEPT !.event = e]
    <2>1. h \in Requests /\ work[h] \in Work /\ e \in Nat /\ user \in User
      BY <1>a DEF Requests, RunOk, DataOk, Ids
    <2>2. w \in Work /\ w.event = e  BY <2>1, WorkWith
    <2>3. work' = [work EXCEPT ![h] = w]  BY <1>5, <1>a DEF Send, RunOk, Work
    <2>4. Goes(h, "look") /\ events' = events  BY <1>5 DEF Send, stripeVars
    <2> HIDE DEF w
    <2> QED  BY <1>a, <1>b, <2>1, <2>2, <2>3, <2>4, RequestStep
  <1>6. CASE UNCHANGED vars
    BY <1>6, <1>a DEF vars, stripeVars, RunOk, Ids
  <1> QED  BY <1>1, <1>2, <1>3, <1>4, <1>5, <1>6 DEF Next, Deliver, Repeat

(* Every step keeps the tables, Stripe's side and the counts well typed.    *)
LEMMA NextData == ASSUME TypeOk, [Next]_vars PROVE DataOk'
  <1>a. RunOk /\ DataOk  BY TypeParts
  <1>1. ASSUME NEW r \in Clickers, Click(r) \/ Checkout(r) \/ StripeFails(r) PROVE DataOk'
    <2>1. r \in Requests /\ work[r] \in Work  BY <1>a DEF Requests, RunOk
    <2>0. CASE ReadUser(r)
      <3>1. rivals' \in BOOLEAN  BY <2>0 DEF ReadUser
      <3> QED  BY <1>a, <2>0, <3>1 DEF DataOk, ReadUser, stripeVars, applyVars, Ids
    <2>2. CASE Click(r) \/ StripeFails(r) \/ CreateSession(r)
      BY <1>a, <2>2, BoundAssumption
      DEF DataOk, Click, StripeFails, CreateSession, Fault, stripeVars, history, applyVars, Ids
    <2>3. CASE CreateCustomer(r)
      BY <1>a, <2>3 DEF DataOk, CreateCustomer, history, applyVars, Ids
    <2>4. CASE CommitCheckout(r)
      <3> DEFINE new == [customer |-> work[r].customer, status |-> "open"]
      <3>1. new \in Sub  BY <2>1 DEF Work, Sub
      <3>2. Append(subs, new) \in Seq(Sub)
        <4> HIDE DEF new
        <4> QED  BY <1>a, <3>1 DEF DataOk
      <3>3. subs' \in Seq(Sub)  BY <1>a, <2>4, <3>2 DEF CommitCheckout, DataOk
      <3>4. user' \in User  BY <1>a, <2>1, <2>4 DEF CommitCheckout, DataOk, User, Work, Column
      <3> QED  BY <1>a, <2>4, <3>3, <3>4 DEF CommitCheckout, DataOk, history, applyVars, Ids
    <2> QED  BY <1>1, <2>0, <2>2, <2>3, <2>4 DEF Checkout
  <1>2. ASSUME NEW h \in Hooks, Hook(h) \/ HookFails(h) PROVE DataOk'
    <2>1. h \in Requests /\ work[h] \in Work  BY <1>a DEF Requests, RunOk
    <2>2. pc[h] # "idle" => /\ work[h].event \in Ids /\ work[h].event \in 1..MaxEvents
                            /\ events[work[h].event] \in Event
      BY <1>a, BoundAssumption DEF RunOk, DataOk, Ids
    <2>3. CASE Look(h) \/ Mark(h)
      BY <1>a, <2>2, <2>3 DEF DataOk, Look, Mark, Answer200, history, applyVars, Ids
    <2>4. CASE Insert(h) \/ MarkFailed(h)
      BY <1>a, <2>2, <2>4 DEF DataOk, Insert, MarkFailed, stripeVars, history, applyVars, Ids
    <2>6. CASE LoadUser(h) \/ HookFails(h)
      BY <1>a, <2>6, BoundAssumption DEF DataOk, LoadUser, HookFails, Fault, stripeVars, history, applyVars, Ids
    <2>5. CASE Apply(h)
      <3>1. user' \in User
        <4>1. events[work[h].event].status \in Statuses  BY <2>2, <2>5 DEF Apply, Event
        <4>2. Plan(events[work[h].event].status) \in {"free", "plus"}  BY DEF Plan
        <4> QED  BY <1>a, <4>1, <4>2, <2>5 DEF Apply, DataOk, User, Column
      <3>2. applied' \in [1..MaxEvents -> Nat]  BY <1>a, <2>2, <2>5 DEF Apply, DataOk
      <3>3. latest' \in Ids' /\ mixed' \in BOOLEAN
        BY <2>2, <2>5 DEF Apply, stripeVars, Ids
      <3> QED  BY <1>a, <3>1, <3>2, <3>3, <2>5 DEF Apply, DataOk, stripeVars, Ids
    <2> QED  BY <1>2, <2>3, <2>4, <2>5, <2>6 DEF Hook
  <1>3. ASSUME NEW r \in Requests, Die(r) PROVE DataOk'
    BY <1>3, <1>a, BoundAssumption DEF Die, Fault, DataOk, stripeVars, history, applyVars, Ids
  <1>4. ASSUME NEW k \in Shown, Pay(k) \/ \E s \in Statuses \ {"inactive"} : Change(k, s) PROVE DataOk'
    <2>1. Len(events) \in Nat /\ Len(events') \in Nat  BY <1>a, <1>4, StripeStep DEF DataOk
    <2>2. acked' = acked /\ Len(events) <= Len(events')  BY <1>4, StripeStep
    <2>3. acked' \subseteq Ids' /\ latest' \in {0} \union Ids'
      BY <1>a, <1>4, <2>1, <2>2, StripeStep DEF DataOk, Ids
    <2> QED  BY <1>a, <1>4, <2>3, StripeStep DEF DataOk
  <1>5. ASSUME NEW h \in Hooks, NEW e \in Ids, Send(h, e) PROVE DataOk'
    BY <1>5, <1>a DEF Send, DataOk, stripeVars, history, applyVars, Ids
  <1>6. CASE UNCHANGED vars
    BY <1>6, <1>a DEF vars, stripeVars, history, applyVars, DataOk, Ids
  <1> QED  BY <1>1, <1>2, <1>3, <1>4, <1>5, <1>6 DEF Next, Deliver, Repeat

-----------------------------------------------------------------------------
(* Each kind of request stays in its places.                                *)
LEMMA NextPlaces == ASSUME TypeOk, Places, [Next]_vars PROVE Places'
  <1>1. ASSUME NEW r \in Clickers, Click(r) \/ Checkout(r) \/ StripeFails(r) PROVE Places'
    <2>1. pc'[r] \in {"idle", "read", "customer", "session", "commit"}
      BY <1>1 DEF Requests, TypeOk, Click, Checkout, ReadUser, CreateCustomer, CreateSession,
                  CommitCheckout, StripeFails, Ends, Goes
    <2> QED  BY <1>1, <2>1, ClickerStep, ProcessAssumption DEF Places, Requests
  <1>2. ASSUME NEW h \in Hooks, Hook(h) \/ HookFails(h) \/ \E e \in Ids : Send(h, e) PROVE Places'
    <2>1. pc'[h] \in {"idle", "look", "insert", "load", "apply", "mark", "failed"}
      BY <1>2 DEF Requests, TypeOk, Hook, Look, Insert, LoadUser, Apply, Mark, MarkFailed,
                  HookFails, Send, Answer200, Ends, Goes
    <2> QED  BY <1>2, <2>1, HookStep, ProcessAssumption DEF Places, Requests
  <1>3. ASSUME NEW r \in Requests, Die(r) PROVE Places'
    BY <1>3, ProcessAssumption DEF Die, Ends, Goes, Places, Requests, TypeOk
  <1>4. ASSUME NEW k \in Shown, Pay(k) \/ \E s \in Statuses \ {"inactive"} : Change(k, s) PROVE Places'
    BY <1>4 DEF Pay, Change, Places
  <1>5. CASE UNCHANGED vars
    BY <1>5 DEF vars, Places
  <1> QED  BY <1>1, <1>2, <1>3, <1>4, <1>5 DEF Next, Deliver, Repeat

-----------------------------------------------------------------------------
(* Events and their owners.                                                 *)
Owners == OneOwner /\ NotYet /\ NoRecord /\ AppliedAtMostOnce

(* They are untouched where records, counts and webhook requests are.       *)
LEMMA OwnersStay ==
    ASSUME Owners, UNCHANGED <<records, applied>>,
           \A h \in Hooks : pc'[h] = pc[h] /\ work'[h].event = work[h].event
    PROVE  Owners'
  BY DEF Owners, OneOwner, Owns, NotYet, NoRecord, AppliedAtMostOnce

(* A request that stops owning, or goes on to no other place where it is    *)
(* one that applies, disturbs nobody.                                       *)
LEMMA OwnersLeave ==
    ASSUME Owners, Places, UNCHANGED <<records, applied>>, NEW h \in Hooks,
           \A o \in Hooks \ {h} : pc'[o] = pc[o] /\ work'[o].event = work[o].event,
           \/ pc'[h] \in {"idle", "look", "insert"}
           \/ Owns(h) /\ work'[h].event = work[h].event /\ pc'[h] \in {"mark", "failed"}
           \/ pc[h] = "load" /\ work'[h].event = work[h].event /\ pc'[h] = "apply"
    PROVE  Owners'
  BY DEF Owners, OneOwner, Owns, NotYet, NoRecord, AppliedAtMostOnce

(* Every step keeps one owner for an event that is not marked yet.          *)
LEMMA NextOwners == ASSUME TypeOk, Places, Owners, [Next]_vars PROVE Owners'
  <1>1. ASSUME NEW r \in Clickers, Click(r) \/ Checkout(r) \/ StripeFails(r) PROVE Owners'
    BY <1>1, ClickerStep, OwnersStay, ProcessAssumption DEF Requests
  <1>2. ASSUME NEW h \in Hooks, Hook(h) \/ HookFails(h) PROVE Owners'
    <2> DEFINE e == work[h].event
    <2>1. /\ h \in Requests /\ pc[h] \in Place
          /\ \A o \in Hooks \ {h} : pc'[o] = pc[o] /\ work'[o] = work[o]
      BY <1>2, HookStep, TypeParts DEF Requests, RunOk
    <2>2. pc[h] # "idle" => e \in 1..MaxEvents
      BY BoundAssumption, TypeParts DEF RunOk, DataOk, Ids
    <2>3. CASE Look(h)
      <3>1. UNCHANGED <<records, applied>>  BY <2>3 DEF Look, history, applyVars
      <3>2. pc'[h] \in {"idle", "insert"}  BY <2>1, <2>3 DEF Look, Answer200, Ends, Goes, TypeOk
      <3> QED  BY <2>1, <3>1, <3>2, OwnersLeave
    <2>4. CASE Insert(h)
      <3>1. CASE records[e] # "none"
        <4>1. UNCHANGED <<records, applied>> /\ pc'[h] = "idle"
          BY <2>1, <2>4, <3>1 DEF Insert, Ends, Goes, TypeOk, history, applyVars
        <4> QED  BY <2>1, <4>1, OwnersLeave
      <3>2. CASE records[e] = "none"
        <4>1. /\ records' = [records EXCEPT ![e] = "received"] /\ applied' = applied
              /\ pc'[h] = "load" /\ work' = work
          BY <2>1, <2>4, <3>2 DEF Insert, Goes, TypeOk, history, applyVars
        <4>2. \A g \in Hooks : Owns(g) => work[g].event # e
          BY <3>2 DEF Owners, OneOwner
        <4>3. applied[e] = 0  BY <2>2, <2>4, <3>2 DEF Insert, Owners, NoRecord
        <4>4. records \in [1..MaxEvents -> {"none", "received", "processed", "failed"}]  BY DEF TypeOk
        <4>5. e \in 1..MaxEvents  BY <2>2, <2>4 DEF Insert
        <4> HIDE DEF e
        <4>6. OneOwner'
          <5>1. work[h].event = e  BY DEF e
          <5> QED  BY <2>1, <4>1, <4>2, <4>4, <4>5, <5>1 DEF Owners, OneOwner, Owns
        <4>7. NotYet'
          <5>1. work[h].event = e  BY DEF e
          <5> QED  BY <2>1, <4>1, <4>3, <5>1 DEF Owners, NotYet
        <4>8. NoRecord' /\ AppliedAtMostOnce'
          BY <4>1, <4>3, <4>4, <4>5 DEF Owners, NoRecord, AppliedAtMostOnce
        <4> QED  BY <4>6, <4>7, <4>8 DEF Owners
      <3> QED  BY <3>1, <3>2
    <2>5. CASE LoadUser(h) \/ HookFails(h)
      <3>1. UNCHANGED <<records, applied>>  BY <2>5 DEF LoadUser, HookFails, history, applyVars
      <3>2. work'[h].event = work[h].event
        <4>1. work[h] \in Work /\ user \in User  BY <2>1 DEF TypeOk
        <4> QED  BY <2>1, <2>5, <4>1 DEF LoadUser, HookFails, TypeOk, Work
      <3>3. \/ Owns(h) /\ pc'[h] \in {"mark", "failed"}
            \/ pc[h] = "load" /\ pc'[h] = "apply"
        BY <2>1, <2>5 DEF LoadUser, HookFails, Goes, Owns, TypeOk
      <3> QED  BY <2>1, <3>1, <3>2, <3>3, OwnersLeave
    <2>6. CASE Apply(h)
      <3>1. /\ records' = records /\ work' = work /\ pc[h] = "apply" /\ pc'[h] = "mark"
            /\ applied' = [applied EXCEPT ![e] = applied[e] + 1]
        BY <2>1, <2>2, <2>6 DEF Apply, Goes, TypeOk
      <3>2. applied[e] = 0 /\ records[e] = "received" /\ e \in 1..MaxEvents
        BY <2>2, <3>1 DEF Owners, NotYet, OneOwner, Owns
      <3>3. \A g \in Hooks \ {h} : Owns(g) => work[g].event # e
        BY <3>1 DEF Owners, OneOwner, Owns
      <3>4. applied \in [1..MaxEvents -> Nat]  BY DEF TypeOk
      <3>5. OneOwner'  BY <2>1, <3>1, <3>2, <3>3 DEF Owners, OneOwner, Owns
      <3>6. NotYet'
        <4> SUFFICES ASSUME NEW g \in Hooks, pc'[g] \in {"load", "apply"}
                     PROVE  applied'[work'[g].event] = 0
          BY DEF NotYet
        <4>1. g # h /\ pc[g] = pc'[g] /\ work'[g] = work[g]  BY <2>1, <3>1
        <4>2. work[g].event # e  BY <3>3, <4>1 DEF Owns
        <4>3. applied[work[g].event] = 0  BY <4>1 DEF Owners, NotYet
        <4>4. applied'[work[g].event] = applied[work[g].event]
          <5> HIDE DEF e
          <5>1. work[g].event \in 1..MaxEvents
            BY <4>1, BoundAssumption, TypeParts DEF RunOk, DataOk, Ids
          <5> QED  BY <3>1, <3>4, <4>2, <5>1
        <4> QED  BY <4>1, <4>3, <4>4
      <3>7. NoRecord' /\ AppliedAtMostOnce'
        <4> HIDE DEF e
        <4> QED  BY <3>1, <3>2, <3>4 DEF Owners, NoRecord, AppliedAtMostOnce
      <3> QED  BY <3>5, <3>6, <3>7 DEF Owners
    <2>7. CASE Mark(h) \/ MarkFailed(h)
      <3>1. PICK s \in {"processed", "failed"} : records' = [records EXCEPT ![e] = s]
        BY <2>7 DEF Mark, MarkFailed
      <3>2. applied' = applied /\ pc'[h] = "idle"
        BY <2>1, <2>7 DEF Mark, MarkFailed, Answer200, Ends, Goes, TypeOk, history, applyVars
      <3>3. \A g \in Hooks \ {h} : Owns(g) => work[g].event # e
        BY <2>7 DEF Owners, OneOwner, Owns, Mark, MarkFailed
      <3>4. records \in [1..MaxEvents -> {"none", "received", "processed", "failed"}]  BY DEF TypeOk
      <3> HIDE DEF e
      <3>5. OneOwner'  BY <2>1, <3>1, <3>2, <3>3, <3>4 DEF Owners, OneOwner, Owns
      <3>6. NotYet'  BY <2>1, <3>2 DEF Owners, NotYet
      <3>7. NoRecord' /\ AppliedAtMostOnce'
        BY <3>1, <3>2, <3>4 DEF Owners, NoRecord, AppliedAtMostOnce
      <3> QED  BY <3>5, <3>6, <3>7 DEF Owners
    <2> QED  BY <1>2, <2>3, <2>4, <2>5, <2>6, <2>7 DEF Hook
  <1>3. ASSUME NEW r \in Requests, Die(r) PROVE Owners'
    <2>1. CASE r \in Clickers
      BY <2>1, <1>3, ClickerStep, OwnersStay, ProcessAssumption DEF Requests
    <2>2. CASE r \in Hooks
      <3>1. UNCHANGED <<records, applied>> /\ pc'[r] = "idle"
        BY <1>3 DEF Die, Ends, Goes, TypeOk, applyVars
      <3>2. \A o \in Hooks \ {r} : pc'[o] = pc[o] /\ work'[o].event = work[o].event
        BY <2>2, <1>3, HookStep DEF Requests
      <3> QED  BY <2>2, <3>1, <3>2, OwnersLeave
    <2> QED  BY <2>1, <2>2 DEF Requests
  <1>4. ASSUME NEW k \in Shown, Pay(k) \/ \E s \in Statuses \ {"inactive"} : Change(k, s) PROVE Owners'
    BY <1>4, StripeStep, OwnersStay
  <1>5. ASSUME NEW h \in Hooks, NEW e \in Ids, Send(h, e) PROVE Owners'
    <2>1. UNCHANGED <<records, applied>> /\ pc'[h] = "look"
      BY <1>5 DEF Send, Goes, TypeOk, Requests, history, applyVars
    <2>2. \A o \in Hooks \ {h} : pc'[o] = pc[o] /\ work'[o].event = work[o].event
      BY <1>5, HookStep DEF Requests
    <2> QED  BY <2>1, <2>2, OwnersLeave
  <1>6. CASE UNCHANGED vars
    BY <1>6, OwnersStay DEF vars, history, applyVars
  <1> QED  BY <1>1, <1>2, <1>3, <1>4, <1>5, <1>6 DEF Next, Deliver, Repeat

(* Every reachable state satisfies the invariant.                           *)
THEOREM Invariance == Spec => []Inv
  <1>1. Inv /\ [Next]_vars => Inv'
    <2> SUFFICES ASSUME Inv, [Next]_vars PROVE Inv'  OBVIOUS
    <2>1. TypeOk'  BY NextRun, NextData DEF Inv, TypeOk, RunOk, DataOk, Place
    <2>2. Places' /\ Owners'  BY NextPlaces, NextOwners DEF Inv, Owners
    <2> QED  BY <2>1, <2>2 DEF Inv, Owners
  <1> QED  BY InitInv, <1>1, PTL DEF Spec

-----------------------------------------------------------------------------
(* Customers.  One that a checkout has created is its own until it commits: *)
(* the user, the shown checkouts, the events and the other requests have    *)
(* different ones.                                                          *)
New(r) == pc[r] \in {"session", "commit"} /\ work[r].loaded.customer = 0 /\ work[r].customer # 0
Private == \A r \in Clickers : New(r) =>
    /\ user.customer # work[r].customer
    /\ \A k \in Shown : subs[k].customer # work[r].customer
    /\ \A e \in Ids : events[e].customer # work[r].customer
    /\ \A s \in Clickers \ {r} : work[s].customer # work[r].customer
Numbered ==
    /\ user.customer <= customers
    /\ \A k \in Shown : subs[k].customer <= customers
    /\ \A e \in Ids : events[e].customer <= customers
    /\ \A r \in Clickers : work[r].customer <= customers
Known == \A r \in Clickers :
    /\ pc[r] = "customer" => work[r].loaded.customer = 0 /\ work[r].customer = 0
    /\ pc[r] \in {"session", "commit"} /\ work[r].loaded.customer # 0
         => work[r].customer = work[r].loaded.customer
Customers == Private /\ Numbered /\ Known

(* They are untouched where the user's customer, the checkouts, the events  *)
(* and the checkout requests are.                                           *)
LEMMA CustomersStay ==
    ASSUME Customers, UNCHANGED <<customers, subs, events>>, user'.customer = user.customer,
           \A r \in Clickers : pc'[r] = pc[r] /\ work'[r] = work[r]
    PROVE  Customers'
  BY DEF Customers, Private, Numbered, Known, New, Shown, Ids

(* A checkout that reads the user's customer learns a known one.            *)
LEMMA ReadCustomer ==
    ASSUME TypeOk, Customers, NEW r \in Clickers, ReadUser(r)
    PROVE  Customers'
  <1>1. r \in Requests /\ \A s \in Clickers \ {r} : pc'[s] = pc[s] /\ work'[s] = work[s]
    BY ClickerStep DEF Requests, Checkout
  <1>2. /\ pc'[r] = IF user.customer = 0 THEN "customer" ELSE "session"
        /\ work'[r].customer = user.customer /\ work'[r].loaded.customer = user.customer
    BY <1>1 DEF ReadUser, Goes, TypeOk, Work, User
  <1>3. UNCHANGED <<user, customers, subs, events>>  BY DEF ReadUser, stripeVars
  <1>4. Private'
    <2> SUFFICES ASSUME NEW s \in Clickers, New(s)'
                 PROVE  /\ user.customer # work'[s].customer
                        /\ \A k \in Shown : subs[k].customer # work'[s].customer
                        /\ \A e \in Ids : events[e].customer # work'[s].customer
                        /\ \A t \in Clickers \ {s} : work'[t].customer # work'[s].customer
      BY <1>3 DEF Private, Shown, Ids
    <2>1. s # r  BY <1>2 DEF New
    <2>2. New(s)  BY <1>1, <2>1 DEF New
    <2> QED  BY <1>1, <1>2, <2>1, <2>2 DEF Customers, Private
  <1>5. Numbered'  BY <1>1, <1>2, <1>3 DEF Customers, Numbered, Shown, Ids
  <1>6. Known'  BY <1>1, <1>2 DEF Customers, Known
  <1> QED  BY <1>4, <1>5, <1>6 DEF Customers

(* A customer that Stripe creates is one no other request holds.            *)
LEMMA NewCustomer ==
    ASSUME TypeOk, Customers, NEW r \in Clickers, CreateCustomer(r)
    PROVE  Customers'
  <1>1. r \in Requests /\ \A s \in Clickers \ {r} : pc'[s] = pc[s] /\ work'[s] = work[s]
    BY ClickerStep DEF Requests, Checkout
  <1>2. /\ pc'[r] = "session" /\ work'[r].customer = customers + 1
        /\ work'[r].loaded.customer = 0 /\ customers' = customers + 1
    BY <1>1 DEF CreateCustomer, Goes, TypeOk, Work, Customers, Known
  <1>3. UNCHANGED <<user, subs, events>>  BY DEF CreateCustomer
  <1>4. /\ customers \in Nat /\ user.customer \in Nat
        /\ \A k \in Shown : subs[k].customer \in Nat
        /\ \A e \in Ids : events[e].customer \in Nat
        /\ \A s \in Clickers : work[s].customer \in Nat
    <2>1. user \in User /\ subs \in Seq(Sub) /\ events \in Seq(Event) /\ customers \in Nat
      BY DEF TypeOk
    <2>2. \A s \in Clickers : work[s] \in Work  BY DEF TypeOk, Requests
    <2>3. \A k \in Shown : subs[k] \in Sub  BY <2>1 DEF Shown
    <2>4. \A e \in Ids : events[e] \in Event  BY <2>1 DEF Ids
    <2> QED  BY <2>1, <2>2, <2>3, <2>4 DEF User, Sub, Event, Work
  <1>5. Private'
    <2> SUFFICES ASSUME NEW s \in Clickers, New(s)'
                 PROVE  /\ user.customer # work'[s].customer
                        /\ \A k \in Shown : subs[k].customer # work'[s].customer
                        /\ \A e \in Ids : events[e].customer # work'[s].customer
                        /\ \A t \in Clickers \ {s} : work'[t].customer # work'[s].customer
      BY <1>3 DEF Private, Shown, Ids
    <2>1. CASE s = r
      BY <2>1, <1>1, <1>2, <1>4 DEF Customers, Numbered
    <2>2. CASE s # r
      <3>1. New(s)  BY <1>1, <2>2 DEF New
      <3>2. work'[s].customer # customers + 1  BY <1>1, <1>4, <2>2 DEF Customers, Numbered
      <3> QED  BY <1>1, <1>2, <2>2, <3>1, <3>2 DEF Customers, Private
    <2> QED  BY <2>1, <2>2
  <1>6. Numbered'  BY <1>1, <1>2, <1>3, <1>4 DEF Customers, Numbered, Shown, Ids
  <1>7. Known'  BY <1>1, <1>2 DEF Customers, Known
  <1> QED  BY <1>5, <1>6, <1>7 DEF Customers

(* What the end of a checkout does to the user and the checkouts.           *)
LEMMA Committed ==
    ASSUME TypeOk, Customers, NEW r \in Clickers, CommitCheckout(r)
    PROVE  /\ user'.customer = IF New(r) THEN work[r].customer ELSE user.customer
           /\ Len(subs) <= Len(subs')
           /\ \A k \in Shown' : subs'[k].customer = IF k \in Shown THEN subs[k].customer
                                                   ELSE work[r].customer
           /\ ~work[r].shown => subs' = subs
           /\ pc'[r] = "idle" /\ work'[r] = NoWork /\ UNCHANGED <<customers, events>>
  <1>1. r \in Requests /\ work[r] \in Work /\ user \in User /\ pc[r] = "commit"
    BY DEF CommitCheckout, TypeOk, Requests
  <1>2. user'.customer = Column(work[r].loaded.customer, work[r].customer, user.customer)
    BY <1>1 DEF CommitCheckout, User
  <1>3. user'.customer = IF New(r) THEN work[r].customer ELSE user.customer
    BY <1>1, <1>2 DEF Column, New, Customers, Known
  <1>4. pc'[r] = "idle" /\ work'[r] = NoWork /\ UNCHANGED <<customers, events>>
    BY <1>1 DEF CommitCheckout, Ends, Goes, TypeOk
  <1>5. CASE work[r].shown
    <2> DEFINE new == [customer |-> work[r].customer, status |-> "open"]
    <2>1. new \in Sub /\ new.customer = work[r].customer  BY <1>1 DEF Work, Sub
    <2>2. subs' = Append(subs, new) /\ subs \in Seq(Sub)  BY <1>5 DEF CommitCheckout, TypeOk
    <2> HIDE DEF new
    <2> QED  BY <1>3, <1>4, <1>5, <2>1, <2>2 DEF Shown
  <1>6. CASE ~work[r].shown
    <2>1. subs' = subs /\ Len(subs) \in Nat  BY <1>6 DEF CommitCheckout, TypeOk
    <2> QED  BY <1>3, <1>4, <2>1 DEF Shown
  <1> QED  BY <1>5, <1>6

(* The commit of a checkout puts a known customer on record.                *)
LEMMA CommitCustomer ==
    ASSUME TypeOk, Customers, NEW r \in Clickers, CommitCheckout(r)
    PROVE  Customers'
  <1>1. r \in Requests /\ \A s \in Clickers \ {r} : pc'[s] = pc[s] /\ work'[s] = work[s]
    BY ClickerStep DEF Requests, Checkout
  <1>2. NoWork.customer = 0  BY DEF NoWork
  <1>3. Private'
    <2> SUFFICES ASSUME NEW s \in Clickers, New(s)'
                 PROVE  /\ user'.customer # work'[s].customer
                        /\ \A k \in Shown' : subs'[k].customer # work'[s].customer
                        /\ \A e \in Ids' : events'[e].customer # work'[s].customer
                        /\ \A t \in Clickers \ {s} : work'[t].customer # work'[s].customer
      BY DEF Private
    <2>1. s # r  BY Committed DEF New
    <2>2. New(s) /\ work'[s] = work[s] /\ work[s].customer # 0  BY <1>1, <2>1 DEF New
    <2>3. user'.customer # work[s].customer
      BY Committed, <2>1, <2>2 DEF Customers, Private
    <2>4. \A k \in Shown' : subs'[k].customer # work[s].customer
      BY Committed, <2>1, <2>2 DEF Customers, Private
    <2>5. \A e \in Ids' : events'[e].customer # work[s].customer
      BY Committed, <2>2 DEF Customers, Private, Ids
    <2>6. \A t \in Clickers \ {s} : work'[t].customer # work[s].customer
      BY Committed, <1>1, <1>2, <2>2 DEF Customers, Private
    <2> QED  BY <2>2, <2>3, <2>4, <2>5, <2>6
  <1>4. Numbered'
    <2>1. customers \in Nat  BY DEF TypeOk
    <2> QED  BY <1>1, <1>2, <2>1, Committed DEF Customers, Numbered, Ids
  <1>5. Known'  BY <1>1, Committed DEF Customers, Known
  <1> QED  BY <1>3, <1>4, <1>5 DEF Customers

(* Every step keeps the customers private, numbered and known.              *)
LEMMA NextCustomers == ASSUME TypeOk, Customers, [Next]_vars PROVE Customers'
  <1>1. ASSUME NEW r \in Clickers, Click(r) \/ Checkout(r) \/ StripeFails(r) \/ Die(r) PROVE Customers'
    <2>1. r \in Requests /\ \A s \in Clickers \ {r} : pc'[s] = pc[s] /\ work'[s] = work[s]
      BY <1>1, ClickerStep DEF Requests
    <2>2. CASE Click(r) \/ CreateSession(r) \/ StripeFails(r) \/ Die(r)
      <3>1. UNCHANGED <<user, customers, subs, events>>
        BY <2>2 DEF Click, CreateSession, StripeFails, Die, stripeVars
      <3>2. /\ pc'[r] \in {"idle", "read", "commit"}
            /\ pc'[r] = "commit" =>
                 /\ pc[r] \in {"customer", "session"}
                 /\ work'[r].loaded = work[r].loaded /\ work'[r].customer = work[r].customer
            /\ work'[r].customer \in {work[r].customer, 0}
        <4>1. work[r] \in Work  BY <2>1 DEF TypeOk
        <4>2. NoWork.customer = 0  BY DEF NoWork
        <4> QED
          BY <2>1, <2>2, <4>1, <4>2
          DEF Click, CreateSession, StripeFails, Die, Ends, Goes, TypeOk, Work
      <3>3. customers \in Nat  BY DEF TypeOk
      <3>4. Private'
        <4> SUFFICES ASSUME NEW s \in Clickers, New(s)'
                     PROVE  /\ user.customer # work'[s].customer
                            /\ \A k \in Shown : subs[k].customer # work'[s].customer
                            /\ \A e \in Ids : events[e].customer # work'[s].customer
                            /\ \A t \in Clickers \ {s} : work'[t].customer # work'[s].customer
          BY <3>1 DEF Private, Shown, Ids
        <4>1. New(s) /\ work'[s].customer = work[s].customer
          BY <2>1, <3>2 DEF New, Customers, Known
        <4> QED  BY <2>1, <3>2, <4>1 DEF Customers, Private, New
      <3>5. Numbered'  BY <2>1, <3>1, <3>2, <3>3 DEF Customers, Numbered, Shown, Ids
      <3>6. Known'  BY <2>1, <3>2 DEF Customers, Known
      <3> QED  BY <3>4, <3>5, <3>6 DEF Customers
    <2> QED  BY <1>1, <2>2, ReadCustomer, NewCustomer, CommitCustomer DEF Checkout
  <1>2. ASSUME NEW h \in Hooks, \/ Hook(h) \/ HookFails(h) \/ Die(h)
                                \/ \E e \in Ids : Send(h, e)
        PROVE Customers'
    BY <1>2, HookStep, CustomersStay, ProcessAssumption DEF Requests
  <1>3. ASSUME NEW k \in Shown, Pay(k) \/ \E s \in Statuses \ {"inactive"} : Change(k, s) PROVE Customers'
    <2>1. /\ UNCHANGED <<user, customers, pc, work>>
          /\ Shown' = Shown /\ \A i \in Shown : subs'[i].customer = subs[i].customer
      BY <1>3, StripeStep DEF Shown
    <2>2. \A e \in Ids' : events'[e].customer = IF e \in Ids THEN events[e].customer
                                                 ELSE subs[k].customer
      BY <1>3, StripeStep DEF Ids
    <2>3. Private'  BY <2>1, <2>2 DEF Customers, Private, New
    <2>4. Numbered'  BY <2>1, <2>2 DEF Customers, Numbered
    <2>5. Known'  BY <2>1 DEF Customers, Known
    <2> QED  BY <2>3, <2>4, <2>5 DEF Customers
  <1>4. CASE UNCHANGED vars
    BY <1>4, CustomersStay DEF vars, stripeVars
  <1> QED  BY <1>1, <1>2, <1>3, <1>4 DEF Next, Deliver, Repeat, Requests

-----------------------------------------------------------------------------
(* What is marked "processed" has been applied.                             *)
Unsent == \A e \in 1..MaxEvents : e \notin Ids => records[e] = "none"
Marking == \A h \in Hooks :
    pc[h] = "mark" /\ events[work[h].event].customer = user.customer => applied[work[h].event] = 1
Effects == Unsent /\ Marking /\ ProcessedIsApplied

(* A change of the user's customer makes it one of no event.                *)
LEMMA EffectsStay ==
    ASSUME TypeOk, Effects, UNCHANGED <<records, applied, events>>,
           \/ user'.customer = user.customer
           \/ \A e \in Ids : events[e].customer # user'.customer,
           \A h \in Hooks : pc'[h] = "mark" => pc[h] = "mark" /\ work'[h].event = work[h].event
    PROVE  Effects'
  <1>1. \A h \in Hooks : pc'[h] = "mark" => work[h].event \in Ids  BY TypeParts DEF RunOk
  <1>2. Unsent'  BY DEF Effects, Unsent, Ids
  <1>3. Marking'  BY <1>1 DEF Effects, Marking
  <1>4. ProcessedIsApplied'  BY DEF Effects, ProcessedIsApplied, Ids
  <1> QED  BY <1>2, <1>3, <1>4 DEF Effects

(* Every step keeps applied events of the user's customer applied.          *)
LEMMA NextEffects ==
    ASSUME TypeOk, Owners, Customers, Effects, [Next]_vars
    PROVE  Effects'
  <1>1. ASSUME NEW r \in Clickers, Click(r) \/ Checkout(r) \/ StripeFails(r) \/ Die(r) PROVE Effects'
    <2>1. /\ UNCHANGED <<records, applied, events>>
          /\ \A h \in Hooks : pc'[h] = pc[h] /\ work'[h] = work[h]
      BY <1>1, ClickerStep, ProcessAssumption DEF Requests
    <2>2. CASE CommitCheckout(r)
      <3>1. \/ user'.customer = user.customer
            \/ \A e \in Ids : events[e].customer # user'.customer
        BY <2>2, Committed DEF Customers, Private
      <3> QED  BY <2>1, <3>1, EffectsStay
    <2>3. CASE user' = user
      BY <2>1, <2>3, EffectsStay
    <2> QED
      BY <1>1, <2>2, <2>3 DEF Click, Checkout, ReadUser, CreateCustomer, CreateSession, StripeFails, Die
  <1>2. ASSUME NEW h \in Hooks, Hook(h) \/ HookFails(h) \/ Die(h) \/ \E e \in Ids : Send(h, e)
        PROVE Effects'
    <2> DEFINE e == work[h].event
    <2>1. /\ h \in Requests /\ pc[h] \in Place /\ user'.customer = user.customer /\ events' = events
          /\ \A o \in Hooks \ {h} : pc'[o] = pc[o] /\ work'[o] = work[o]
      BY <1>2, HookStep, TypeParts DEF Requests, RunOk
    <2>2. pc[h] # "idle" => e \in Ids /\ e \in 1..MaxEvents
      BY BoundAssumption, TypeParts DEF RunOk, DataOk, Ids
    <2>3. /\ records \in [1..MaxEvents -> {"none", "received", "processed", "failed"}]
          /\ applied \in [1..MaxEvents -> Nat]
      BY DEF TypeOk
    <2>4. CASE Look(h) \/ HookFails(h) \/ Die(h) \/ \E d \in Ids : Send(h, d)
      <3>1. UNCHANGED <<records, applied>>  BY <2>4 DEF Look, HookFails, Die, Send, history, applyVars
      <3>2. pc'[h] # "mark"
        BY <2>1, <2>4 DEF Look, HookFails, Die, Send, Answer200, Ends, Goes, TypeOk
      <3> QED  BY <2>1, <3>1, <3>2, EffectsStay
    <2>5. CASE LoadUser(h)
      <3>1. UNCHANGED <<records, applied>>  BY <2>5 DEF LoadUser, history, applyVars
      <3>2. work'[h].event = e
        <4>1. work[h] \in Work /\ user \in User  BY <2>1 DEF TypeOk
        <4> QED  BY <2>1, <2>5, <4>1 DEF LoadUser, TypeOk, Work
      <3>3. pc'[h] = "mark" => events[e].customer # user.customer
        BY <2>1, <2>5 DEF LoadUser, Goes, TypeOk
      <3>4. Unsent' /\ ProcessedIsApplied'
        BY <2>1, <3>1 DEF Effects, Unsent, ProcessedIsApplied, Ids
      <3>5. Marking'  BY <2>1, <3>1, <3>2, <3>3 DEF Effects, Marking
      <3> QED  BY <3>4, <3>5 DEF Effects
    <2>6. CASE Insert(h) \/ MarkFailed(h)
      <3>1. applied' = applied /\ pc'[h] # "mark"
        BY <2>1, <2>6 DEF Insert, MarkFailed, Ends, Goes, TypeOk, history, applyVars
      <3>2. records' = records \/ \E s \in {"received", "failed"} : records' = [records EXCEPT ![e] = s]
        BY <2>6 DEF Insert, MarkFailed
      <3>3. e \in Ids /\ e \in 1..MaxEvents  BY <2>2, <2>6 DEF Insert, MarkFailed
      <3> HIDE DEF e
      <3>4. Unsent'  BY <2>1, <2>3, <3>2, <3>3 DEF Effects, Unsent, Ids
      <3>5. Marking'  BY <2>1, <3>1 DEF Effects, Marking
      <3>6. ProcessedIsApplied'
        <4>1. Ids \subseteq 1..MaxEvents  BY BoundAssumption, TypeParts DEF DataOk, Ids
        <4> QED  BY <2>1, <2>3, <3>1, <3>2, <3>3, <4>1 DEF Effects, ProcessedIsApplied, Ids
      <3> QED  BY <3>4, <3>5, <3>6 DEF Effects
    <2>7. CASE Apply(h)
      <3>1. /\ records' = records /\ work' = work /\ pc[h] = "apply"
            /\ applied' = [applied EXCEPT ![e] = applied[e] + 1]
        BY <2>1, <2>2, <2>7 DEF Apply, TypeOk
      <3>2. applied[e] = 0 /\ records[e] = "received" /\ e \in Ids /\ e \in 1..MaxEvents
        BY <2>2, <3>1 DEF Owners, NotYet, OneOwner, Owns
      <3>3. \A g \in Hooks \ {h} : pc[g] = "mark" => work[g].event # e
        BY <3>1 DEF Owners, OneOwner, Owns
      <3>4. \A g \in Hooks : pc[g] = "mark" => work[g].event \in 1..MaxEvents
        BY BoundAssumption, TypeParts DEF RunOk, DataOk, Ids
      <3>5. work[h].event = e  OBVIOUS
      <3> HIDE DEF e
      <3>6. Unsent'  BY <2>1, <3>1 DEF Effects, Unsent, Ids
      <3>7. Marking'  BY <2>1, <2>3, <3>1, <3>2, <3>3, <3>4, <3>5 DEF Effects, Marking
      <3>8. ProcessedIsApplied'
        <4>1. Ids \subseteq 1..MaxEvents  BY BoundAssumption, TypeParts DEF DataOk, Ids
        <4> QED  BY <2>1, <2>3, <3>1, <3>2, <4>1 DEF Effects, ProcessedIsApplied, Ids
      <3> QED  BY <3>6, <3>7, <3>8 DEF Effects
    <2>8. CASE Mark(h)
      <3>1. /\ records' = [records EXCEPT ![e] = "processed"] /\ applied' = applied
            /\ pc[h] = "mark" /\ pc'[h] = "idle"
        BY <2>1, <2>8 DEF Mark, Answer200, Ends, Goes, TypeOk, history, applyVars
      <3>2. events[e].customer = user.customer => applied[e] = 1
        BY <3>1 DEF Effects, Marking
      <3>3. e \in Ids /\ e \in 1..MaxEvents  BY <2>2, <3>1
      <3> HIDE DEF e
      <3>4. Unsent'  BY <2>1, <2>3, <3>1, <3>3 DEF Effects, Unsent, Ids
      <3>5. Marking'  BY <2>1, <3>1 DEF Effects, Marking
      <3>6. ProcessedIsApplied'
        <4>1. Ids \subseteq 1..MaxEvents  BY BoundAssumption, TypeParts DEF DataOk, Ids
        <4> QED  BY <2>1, <2>3, <3>1, <3>2, <3>3, <4>1 DEF Effects, ProcessedIsApplied, Ids
      <3> QED  BY <3>4, <3>5, <3>6 DEF Effects
    <2> QED  BY <1>2, <2>4, <2>5, <2>6, <2>7, <2>8 DEF Hook
  <1>3. ASSUME NEW k \in Shown, Pay(k) \/ \E s \in Statuses \ {"inactive"} : Change(k, s) PROVE Effects'
    <2>1. /\ UNCHANGED <<user, records, applied, pc, work>>
          /\ Ids \subseteq Ids' /\ (\A e \in Ids : events'[e] = events[e]) /\ Ids' \subseteq 1..MaxEvents
      <3>1. Len(events) \in Nat /\ Len(events') \in Nat /\ MaxEvents \in Nat
        BY <1>3, StripeStep, BoundAssumption DEF TypeOk
      <3>2. Len(events) <= Len(events') /\ Len(events') <= MaxEvents  BY <1>3, StripeStep
      <3> QED  BY <1>3, <3>1, <3>2, StripeStep DEF Ids
    <2>2. \A h \in Hooks : pc[h] = "mark" => work[h].event \in Ids  BY TypeParts DEF RunOk
    <2>3. Unsent'  BY <2>1 DEF Effects, Unsent
    <2>4. Marking'  BY <2>1, <2>2 DEF Effects, Marking
    <2>5. ProcessedIsApplied'  BY <2>1 DEF Effects, ProcessedIsApplied, Unsent
    <2> QED  BY <2>3, <2>4, <2>5 DEF Effects
  <1>4. CASE UNCHANGED vars
    BY <1>4, EffectsStay DEF vars, stripeVars, history, applyVars
  <1> QED  BY <1>1, <1>2, <1>3, <1>4 DEF Next, Deliver, Repeat, Requests

-----------------------------------------------------------------------------
(* Checkouts.  One shows an open subscription only when it has a customer.  *)
Ready == \A r \in Clickers :
    /\ pc[r] \in {"idle", "read"} => ~work[r].shown
    /\ pc[r] = "session" => work[r].customer # 0
    /\ work[r].shown => pc[r] = "commit" /\ work[r].customer # 0

(* Unless two checkouts were open that both found no customer, one at most  *)
(* is making one, and then no other customer is on record: ...              *)
OneMaker == \A r \in Clickers : Making(r) =>
    /\ user.customer = 0
    /\ \A s \in Clickers : Making(s) => s = r

(* ... what a checkout has read is still on record, and so is the customer  *)
(* of everything shown; ...                                                 *)
OnRecord ==
    /\ \A r \in Clickers : pc[r] \in {"session", "commit"} /\ work[r].loaded.customer # 0
                             => work[r].loaded.customer = user.customer
    /\ \A k \in Shown : subs[k].customer = user.customer /\ user.customer # 0

(* ... and one customer at most is neither lost with a killed process nor   *)
(* saved with the user.                                                     *)
Counted ==
    /\ customers <= 1 + strays
    /\ user.customer = 0 /\ (\A r \in Clickers : Making(r) => work[r].customer = 0)
         => customers <= strays

Alone == ~rivals => OneMaker /\ OnRecord /\ Counted

(* Every step lets a checkout show a subscription with a customer only.     *)
LEMMA NextReady == ASSUME TypeOk, Ready, [Next]_vars PROVE Ready'
  <1>1. ASSUME NEW r \in Clickers, Click(r) \/ Checkout(r) \/ StripeFails(r) \/ Die(r) PROVE Ready'
    <2>1. /\ r \in Requests /\ work[r] \in Work /\ user \in User /\ customers \in Nat
          /\ NoWork.shown = FALSE /\ pc \in [Requests -> Place] /\ work \in [Requests -> Work]
      BY TypeParts DEF Requests, TypeOk, NoWork, RunOk
    <2>2. \A s \in Clickers \ {r} : pc'[s] = pc[s] /\ work'[s] = work[s]
      BY <1>1, ClickerStep DEF Requests
    <2>3. /\ pc'[r] \in {"idle", "read"} => work'[r].shown = FALSE
          /\ pc'[r] = "session" => work'[r].customer # 0
          /\ work'[r].shown = TRUE => pc'[r] = "commit" /\ work'[r].customer # 0
      <3>1. CASE Click(r) \/ StripeFails(r)
        BY <2>1, <3>1 DEF Click, StripeFails, Goes, Ready, Work
      <3>2. CASE ReadUser(r)
        BY <2>1, <3>2 DEF ReadUser, Goes, Ready, Work, User
      <3>3. CASE CreateCustomer(r) \/ CreateSession(r)
        BY <2>1, <3>3 DEF CreateCustomer, CreateSession, Goes, Ready, Work
      <3>4. CASE CommitCheckout(r) \/ Die(r)
        BY <2>1, <3>4 DEF CommitCheckout, Die, Ends, Goes
      <3> QED  BY <1>1, <3>1, <3>2, <3>3, <3>4 DEF Checkout
    <2>4. work'[r].shown \in BOOLEAN  BY NextRun, <1>1, <2>1 DEF RunOk, Work, Next, Requests
    <2> QED  BY <2>2, <2>3, <2>4 DEF Ready
  <1>2. ASSUME NEW h \in Hooks, Hook(h) \/ HookFails(h) \/ Die(h) \/ \E e \in Ids : Send(h, e)
        PROVE Ready'
    BY <1>2, HookStep, ProcessAssumption DEF Ready, Requests
  <1>3. ASSUME NEW k \in Shown, Pay(k) \/ \E s \in Statuses \ {"inactive"} : Change(k, s) PROVE Ready'
    BY <1>3, StripeStep DEF Ready
  <1>4. CASE UNCHANGED vars
    BY <1>4 DEF vars, Ready
  <1> QED  BY <1>1, <1>2, <1>3, <1>4 DEF Next, Deliver, Repeat, Requests

(* Nothing changes for the checkouts where their requests, the customer on  *)
(* record and those of the subscriptions stay.                              *)
LEMMA AloneStays ==
    ASSUME TypeOk, Alone, rivals' = rivals, customers' = customers, strays' \in Nat, strays <= strays',
           user'.customer = user.customer,
           Shown' = Shown, \A k \in Shown : subs'[k].customer = subs[k].customer,
           \A r \in Clickers : pc'[r] = pc[r] /\ work'[r] = work[r]
    PROVE  Alone'
  <1>1. customers \in Nat /\ strays \in Nat  BY DEF TypeOk
  <1>2. \A r \in Clickers : Making(r)' <=> Making(r)  BY DEF Making
  <1> SUFFICES ASSUME ~rivals PROVE OneMaker' /\ OnRecord' /\ Counted'  BY DEF Alone
  <1>3. OneMaker'  BY <1>2 DEF Alone, OneMaker
  <1>4. OnRecord'  BY DEF Alone, OnRecord
  <1>5. Counted'
    <2>1. customers <= 1 + strays  BY DEF Alone, Counted
    <2>2. ASSUME user.customer = 0, \A r \in Clickers : Making(r)' => work'[r].customer = 0
          PROVE  customers <= strays
      BY <1>2, <2>2 DEF Alone, Counted
    <2> QED  BY <1>1, <2>1, <2>2 DEF Counted
  <1> QED  BY <1>3, <1>4, <1>5

(* A checkout reads which customer is on record.                            *)
LEMMA ReadAlone ==
    ASSUME TypeOk, Alone, NEW r \in Clickers, ReadUser(r)
    PROVE  Alone'
  <1>1. /\ r \in Requests /\ \A s \in Clickers \ {r} : pc'[s] = pc[s] /\ work'[s] = work[s]
    BY ClickerStep DEF Requests, Checkout
  <1>2. /\ pc[r] = "read" /\ pc'[r] = IF user.customer = 0 THEN "customer" ELSE "session"
        /\ work'[r].customer = user.customer /\ work'[r].loaded.customer = user.customer
    BY <1>1 DEF ReadUser, Goes, TypeOk, Work, User
  <1>3. UNCHANGED <<user, customers, subs, strays>>  BY DEF ReadUser, stripeVars
  <1>4. ~Making(r) /\ (Making(r)' <=> user.customer = 0)  BY <1>2 DEF Making
  <1>5. \A s \in Clickers \ {r} : Making(s)' <=> Making(s)  BY <1>1 DEF Making
  <1> SUFFICES ASSUME ~rivals' PROVE OneMaker' /\ OnRecord' /\ Counted'  BY DEF Alone
  <1>6. ~rivals /\ (user.customer = 0 => \A s \in Clickers \ {r} : ~Making(s))  BY DEF ReadUser
  <1>7. OneMaker'  BY <1>3, <1>4, <1>5, <1>6 DEF Alone, OneMaker
  <1>8. OnRecord'  BY <1>1, <1>2, <1>3, <1>6 DEF Alone, OnRecord, Shown
  <1>9. Counted'
    <2>1. user.customer = 0 => \A s \in Clickers : ~Making(s)  BY <1>4, <1>6
    <2>2. user.customer = 0 => customers <= strays  BY <1>6, <2>1 DEF Alone, Counted
    <2>3. customers <= 1 + strays  BY <1>6 DEF Alone, Counted
    <2> QED  BY <1>3, <2>2, <2>3 DEF Counted
  <1> QED  BY <1>7, <1>8, <1>9

(* Stripe creates the one customer.                                         *)
LEMMA CreateAlone ==
    ASSUME TypeOk, Customers, Alone, NEW r \in Clickers, CreateCustomer(r)
    PROVE  Alone'
  <1>1. r \in Requests /\ \A s \in Clickers \ {r} : pc'[s] = pc[s] /\ work'[s] = work[s]
    BY ClickerStep DEF Requests, Checkout
  <1>2. /\ pc[r] = "customer" /\ pc'[r] = "session" /\ work'[r].customer = customers + 1
        /\ work[r].loaded.customer = 0 /\ work[r].customer = 0
        /\ work'[r].loaded.customer = 0 /\ customers' = customers + 1
    BY <1>1 DEF CreateCustomer, Goes, TypeOk, Work, Customers, Known
  <1>3. UNCHANGED <<user, subs, rivals, strays>> /\ customers \in Nat /\ strays \in Nat
    BY DEF CreateCustomer, history, TypeOk
  <1>4. Making(r) /\ Making(r)'  BY <1>2 DEF Making
  <1>5. \A s \in Clickers \ {r} : Making(s)' <=> Making(s)  BY <1>1 DEF Making
  <1> SUFFICES ASSUME ~rivals PROVE OneMaker' /\ OnRecord' /\ Counted'  BY <1>3 DEF Alone
  <1>6. OneMaker'  BY <1>3, <1>4, <1>5 DEF Alone, OneMaker
  <1>7. OnRecord'  BY <1>1, <1>2, <1>3 DEF Alone, OnRecord, Shown
  <1>8. Counted'
    <2>1. user.customer = 0 /\ \A s \in Clickers : Making(s) => work[s].customer = 0
      BY <1>2, <1>4 DEF Alone, OneMaker
    <2>2. customers <= strays  BY <2>1 DEF Alone, Counted
    <2>3. customers' <= 1 + strays  BY <1>2, <1>3, <2>2
    <2>4. ~(Making(r)' => work'[r].customer = 0)  BY <1>2, <1>3, <1>4
    <2> QED  BY <1>3, <2>3, <2>4 DEF Counted
  <1> QED  BY <1>6, <1>7, <1>8

(* A checkout that opens, that gets the page or that Stripe refuses.        *)
LEMMA GoOnAlone ==
    ASSUME TypeOk, Customers, Alone, NEW r \in Clickers,
           Click(r) \/ CreateSession(r) \/ StripeFails(r)
    PROVE  Alone'
  <1>1. r \in Requests /\ \A s \in Clickers \ {r} : pc'[s] = pc[s] /\ work'[s] = work[s]
    BY ClickerStep DEF Requests, Checkout
  <1>2. /\ UNCHANGED <<user, subs, customers, rivals, strays>>
        /\ work'[r].customer = work[r].customer /\ work'[r].loaded = work[r].loaded
    <2>1. work[r] \in Work /\ work \in [Requests -> Work]  BY <1>1 DEF TypeOk
    <2> QED  BY <1>1, <2>1 DEF Click, CreateSession, StripeFails, stripeVars, history, Work
  <1>3. \/ pc[r] = "idle" /\ pc'[r] = "read"
        \/ pc[r] = "customer" /\ pc'[r] = "commit" /\ work[r].loaded.customer = 0
        \/ pc[r] = "session" /\ pc'[r] = "commit"
    BY <1>1 DEF Click, CreateSession, StripeFails, Goes, TypeOk, Customers, Known
  <1>4. \A s \in Clickers : Making(s)' <=> Making(s)  BY <1>1, <1>2, <1>3 DEF Making
  <1> SUFFICES ASSUME ~rivals PROVE OneMaker' /\ OnRecord' /\ Counted'  BY <1>2 DEF Alone
  <1>5. OneMaker'  BY <1>2, <1>4 DEF Alone, OneMaker
  <1>6. OnRecord'  BY <1>1, <1>2, <1>3 DEF Alone, OnRecord, Shown
  <1>7. Counted'  BY <1>1, <1>2, <1>4 DEF Alone, Counted
  <1> QED  BY <1>5, <1>6, <1>7

(* The commit saves the one customer.                                       *)
LEMMA CommitAlone ==
    ASSUME TypeOk, Customers, Ready, Alone, NEW r \in Clickers, CommitCheckout(r)
    PROVE  Alone'
  <1>1. r \in Requests /\ \A s \in Clickers \ {r} : pc'[s] = pc[s] /\ work'[s] = work[s]
    BY ClickerStep DEF Requests, Checkout
  <1>2. pc[r] = "commit" /\ pc'[r] = "idle" /\ UNCHANGED <<customers, rivals, strays>>
    BY Committed DEF CommitCheckout, history
  <1>3. user'.customer = IF New(r) THEN work[r].customer ELSE user.customer  BY Committed
  <1>4. ~Making(r)' /\ (Making(r) <=> work[r].loaded.customer = 0)  BY <1>2 DEF Making
  <1>5. \A s \in Clickers \ {r} : Making(s)' <=> Making(s)  BY <1>1 DEF Making
  <1>6. New(r) <=> Making(r) /\ work[r].customer # 0  BY <1>2 DEF New, Making
  <1> SUFFICES ASSUME ~rivals PROVE OneMaker' /\ OnRecord' /\ Counted'  BY <1>2 DEF Alone
  <1>7. Making(r) => user.customer = 0 /\ \A s \in Clickers \ {r} : ~Making(s)
    BY DEF Alone, OneMaker
  <1>8. ~Making(r) => work[r].customer = user.customer /\ user.customer # 0
    BY <1>2, <1>4 DEF Alone, OnRecord, Customers, Known
  <1>9. OneMaker'  BY <1>3, <1>4, <1>5, <1>6, <1>7 DEF Alone, OneMaker
  <1>10. OnRecord'
    <2>1. ASSUME NEW s \in Clickers, pc'[s] \in {"session", "commit"}, work'[s].loaded.customer # 0
          PROVE  work'[s].loaded.customer = user'.customer
      <3>1. s # r /\ work'[s] = work[s]  BY <1>1, <1>2, <2>1
      <3>2. work[s].loaded.customer = user.customer /\ user.customer # 0
        BY <1>1, <2>1, <3>1 DEF Alone, OnRecord
      <3> QED  BY <1>3, <1>6, <1>7, <3>1, <3>2
    <2>2. ASSUME NEW k \in Shown' PROVE subs'[k].customer = user'.customer /\ user'.customer # 0
      <3>1. CASE k \in Shown
        <4>1. subs'[k].customer = subs[k].customer  BY <2>2, <3>1, Committed
        <4>2. subs[k].customer = user.customer /\ user.customer # 0  BY <3>1 DEF Alone, OnRecord
        <4> QED  BY <1>3, <1>6, <1>7, <4>1, <4>2
      <3>2. CASE k \notin Shown
        <4>1. work[r].shown
          BY <2>2, <3>2, Committed DEF Shown
        <4>2. subs'[k].customer = work[r].customer /\ work[r].customer # 0
          BY <2>2, <3>2, <4>1, Committed DEF Ready
        <4> QED  BY <1>3, <1>6, <1>8, <4>2
      <3> QED  BY <3>1, <3>2
    <2> QED  BY <2>1, <2>2 DEF OnRecord
  <1>11. Counted'
    <2>1. customers <= 1 + strays  BY DEF Alone, Counted
    <2>2. ASSUME user'.customer = 0 PROVE customers <= strays
      <3>1. Making(r) /\ work[r].customer = 0  BY <1>3, <1>6, <1>8, <2>2
      <3>2. user.customer = 0 /\ \A s \in Clickers : Making(s) => work[s].customer = 0
        BY <1>7, <3>1
      <3> QED  BY <3>2 DEF Alone, Counted
    <2> QED  BY <1>2, <2>1, <2>2 DEF Counted
  <1> QED  BY <1>9, <1>10, <1>11

(* A checkout that is killed loses the customer it has not saved.           *)
LEMMA DieAlone ==
    ASSUME TypeOk, Alone, NEW r \in Clickers, Die(r)
    PROVE  Alone'
  <1>1. r \in Requests /\ \A s \in Clickers \ {r} : pc'[s] = pc[s] /\ work'[s] = work[s]
    BY ClickerStep DEF Requests
  <1>2. UNCHANGED <<user, subs, customers, rivals>> /\ pc'[r] = "idle"
    BY <1>1 DEF Die, Ends, Goes, TypeOk, stripeVars
  <1>3. /\ customers \in Nat /\ strays \in Nat
        /\ strays' = IF work[r].loaded.customer = 0 /\ work[r].customer # 0 THEN strays + 1 ELSE strays
    BY DEF Die, TypeOk
  <1>4. ~Making(r)' /\ (Making(r) => work[r].loaded.customer = 0)  BY <1>2 DEF Making
  <1>5. \A s \in Clickers \ {r} : Making(s)' <=> Making(s)  BY <1>1 DEF Making
  <1> SUFFICES ASSUME ~rivals PROVE OneMaker' /\ OnRecord' /\ Counted'  BY <1>2 DEF Alone
  <1>6. OneMaker'  BY <1>2, <1>4, <1>5 DEF Alone, OneMaker
  <1>7. OnRecord'  BY <1>1, <1>2 DEF Alone, OnRecord, Shown
  <1>8. Counted'
    <2>1. customers <= 1 + strays  BY DEF Alone, Counted
    <2>2. ASSUME user.customer = 0, \A s \in Clickers : Making(s)' => work'[s].customer = 0
          PROVE  customers <= strays'
      <3>1. CASE Making(r) /\ work[r].customer # 0
        BY <1>3, <1>4, <2>1, <3>1
      <3>2. CASE ~(Making(r) /\ work[r].customer # 0)
        <4>1. \A s \in Clickers : Making(s) => work[s].customer = 0
          BY <1>1, <1>5, <2>2, <3>2
        <4>2. customers <= strays  BY <2>2, <4>1 DEF Alone, Counted
        <4> QED  BY <1>3, <4>2
      <3> QED  BY <3>1, <3>2
    <2>3. customers <= 1 + strays'  BY <1>3, <2>1
    <2> QED  BY <1>2, <2>2, <2>3 DEF Counted
  <1> QED  BY <1>6, <1>7, <1>8

(* Every step keeps the checkouts' agreement.                               *)
LEMMA NextAlone ==
    ASSUME TypeOk, Customers, Ready, Alone, [Next]_vars
    PROVE  Alone'
  <1>a. strays \in Nat  BY DEF TypeOk
  <1>1. ASSUME NEW r \in Clickers, Click(r) \/ Checkout(r) \/ StripeFails(r) \/ Die(r) PROVE Alone'
    BY <1>1, ReadAlone, CreateAlone, GoOnAlone, CommitAlone, DieAlone DEF Checkout
  <1>2. ASSUME NEW h \in Hooks, Hook(h) \/ HookFails(h) \/ Die(h) \/ \E e \in Ids : Send(h, e)
        PROVE  Alone'
    <2>1. strays' \in Nat /\ strays <= strays'
      <3>1. CASE Die(h)  BY <1>a, <3>1 DEF Die
      <3>2. CASE Look(h) \/ Insert(h) \/ LoadUser(h) \/ Apply(h) \/ Mark(h) \/ MarkFailed(h)
        BY <1>a, <3>2 DEF Look, Insert, LoadUser, Apply, Mark, MarkFailed, history
      <3>3. CASE HookFails(h) \/ \E e \in Ids : Send(h, e)
        BY <1>a, <3>3 DEF HookFails, Send, history
      <3> QED  BY <1>2, <3>1, <3>2, <3>3 DEF Hook
    <2>2. /\ customers' = customers /\ rivals' = rivals /\ user'.customer = user.customer
          /\ Shown' = Shown /\ \A k \in Shown : subs'[k].customer = subs[k].customer
      BY <1>2, HookStep DEF Shown
    <2>3. \A r \in Clickers : pc'[r] = pc[r] /\ work'[r] = work[r]
      BY <1>2, HookStep, ProcessAssumption DEF Requests
    <2> QED  BY <2>1, <2>2, <2>3, AloneStays
  <1>3. ASSUME NEW k \in Shown, Pay(k) \/ \E s \in Statuses \ {"inactive"} : Change(k, s) PROVE Alone'
    <2>1. /\ UNCHANGED <<user, customers, rivals, strays, pc, work>>
          /\ Shown' = Shown /\ \A i \in Shown : subs'[i].customer = subs[i].customer
      BY <1>3, StripeStep DEF Shown
    <2> QED  BY <1>a, <2>1, AloneStays
  <1>4. CASE UNCHANGED vars
    BY <1>a, <1>4, AloneStays DEF vars, stripeVars, history, Shown
  <1> QED  BY <1>1, <1>2, <1>3, <1>4 DEF Next, Deliver, Repeat, Requests

-----------------------------------------------------------------------------
(* What the plan mirrors.  The last event tells the status of its           *)
(* subscription; ...                                                        *)
LastIsSub == Len(events) # 0 =>
    events[Len(events)].sub \in Shown /\ subs[events[Len(events)].sub].status = events[Len(events)].status

(* ... the plan is that of the event applied last.                          *)
PlanIsLatest == latest # 0 /\ ~mixed => user.plan = Plan(events[latest].status)

(* A checkout that ends shows an open one at most.                          *)
LEMMA ShownOpen ==
    ASSUME TypeOk, NEW r \in Clickers, CommitCheckout(r)
    PROVE  /\ Shown \subseteq Shown' /\ \A k \in Shown : subs'[k] = subs[k]
           /\ \A k \in Shown' : k \notin Shown => subs'[k].status = "open"
           /\ user'.plan = user.plan
  <1>1. work[r] \in Work /\ user \in User /\ subs \in Seq(Sub)  BY DEF TypeOk, Requests
  <1>2. user'.plan = user.plan  BY <1>1 DEF CommitCheckout, User
  <1>3. CASE work[r].shown
    <2> DEFINE new == [customer |-> work[r].customer, status |-> "open"]
    <2>1. new \in Sub /\ new.status = "open"  BY <1>1 DEF Work, Sub
    <2>2. subs' = Append(subs, new)  BY <1>3 DEF CommitCheckout
    <2> HIDE DEF new
    <2> QED  BY <1>1, <1>2, <2>1, <2>2 DEF Shown
  <1>4. CASE ~work[r].shown
    BY <1>2, <1>4 DEF CommitCheckout, Shown
  <1> QED  BY <1>3, <1>4

(* The last event that Stripe makes is the status it gives the subscription.*)
LEMMA LastEvent ==
    ASSUME TypeOk, NEW k \in Shown, Pay(k) \/ \E s \in Statuses \ {"inactive"} : Change(k, s)
    PROVE  /\ Len(events') > 0 /\ events'[Len(events')].sub = k
           /\ subs'[k].status = events'[Len(events')].status
  <1>1. subs \in Seq(Sub) /\ subs[k] \in Sub /\ events \in Seq(Event)  BY DEF TypeOk, Shown
  <1>2. ASSUME NEW t, subs' = [subs EXCEPT ![k].status = t] PROVE subs'[k].status = t
    BY <1>1, <1>2 DEF Sub, Shown
  <1>3. \A t \in Statuses : Emits(k, t) \in Event /\ Emits(k, t).status = t /\ Emits(k, t).sub = k
    BY <1>1 DEF Emits, Event, Sub, Shown
  <1>4. ASSUME NEW q \in Seq(Event), NEW t \in Statuses, events' = Append(q, Emits(k, t)),
               subs' = [subs EXCEPT ![k].status = t]
        PROVE  /\ Len(events') > 0 /\ events'[Len(events')].sub = k
               /\ subs'[k].status = events'[Len(events')].status
    <2> DEFINE ev == Emits(k, t)
    <2>1. ev \in Event /\ ev.status = t /\ ev.sub = k /\ events' = Append(q, ev)  BY <1>3, <1>4
    <2>2. subs'[k].status = t  BY <1>2, <1>4
    <2> HIDE DEF ev
    <2>3. Len(events') = Len(q) + 1 /\ events'[Len(q) + 1] = ev /\ Len(q) \in Nat  BY <2>1
    <2> QED  BY <2>1, <2>2, <2>3
  <1>5. CASE Pay(k)
    <2>1. "active" \in Statuses  BY DEF Statuses
    <2> DEFINE one == Append(events, Emits(k, "active"))
    <2>2. one \in Seq(Event)
      <3>1. Emits(k, "active") \in Event  BY <1>3, <2>1
      <3> QED  BY <1>1, <3>1
    <2>3. events' = Append(one, Emits(k, "active")) /\ subs' = [subs EXCEPT ![k].status = "active"]
      BY <1>5 DEF Pay
    <2> HIDE DEF one
    <2> QED  BY <1>4, <2>1, <2>2, <2>3
  <1>6. CASE \E s \in Statuses \ {"inactive"} : Change(k, s)
    BY <1>1, <1>4, <1>6 DEF Change
  <1> QED  BY <1>5, <1>6

(* Every step keeps the last event and its subscription together.           *)
LEMMA NextLast == ASSUME TypeOk, LastIsSub, [Next]_vars PROVE LastIsSub'
  <1>q. ASSUME UNCHANGED <<subs, events>> PROVE LastIsSub'
    BY <1>q DEF LastIsSub, Shown
  <1>1. ASSUME NEW r \in Clickers, Click(r) \/ Checkout(r) \/ StripeFails(r) \/ Die(r)
        PROVE  LastIsSub'
    <2>1. CASE CommitCheckout(r)
      <3>1. events' = events  BY <2>1 DEF CommitCheckout
      <3> QED  BY <2>1, <3>1, ShownOpen DEF LastIsSub
    <2>2. CASE UNCHANGED <<subs, events>>  BY <2>2, <1>q
    <2> QED  BY <1>1, <2>1, <2>2 DEF Click, Checkout, ReadUser, CreateCustomer, CreateSession,
                                    StripeFails, Die, stripeVars
  <1>2. ASSUME NEW h \in Hooks, Hook(h) \/ HookFails(h) \/ Die(h) \/ \E e \in Ids : Send(h, e)
        PROVE  LastIsSub'
    BY <1>2, <1>q, HookStep
  <1>3. ASSUME NEW k \in Shown, Pay(k) \/ \E s \in Statuses \ {"inactive"} : Change(k, s)
        PROVE  LastIsSub'
    <2>1. Shown' = Shown  BY <1>3, StripeStep DEF Shown
    <2> QED  BY <1>3, <2>1, LastEvent DEF LastIsSub
  <1>4. CASE UNCHANGED vars
    BY <1>4, <1>q DEF vars, stripeVars
  <1> QED  BY <1>1, <1>2, <1>3, <1>4 DEF Next, Deliver, Repeat, Requests

(* Every step keeps the plan that of the event applied last.                *)
LEMMA NextPlan == ASSUME TypeOk, PlanIsLatest, [Next]_vars PROVE PlanIsLatest'
  <1>a. latest \in {0} \union Ids /\ user \in User  BY DEF TypeOk
  <1>q. ASSUME user'.plan = user.plan, UNCHANGED <<latest, mixed>>,
               \A e \in Ids : events'[e] = events[e]
        PROVE  PlanIsLatest'
    BY <1>a, <1>q DEF PlanIsLatest
  <1>1. ASSUME NEW r \in Clickers, Click(r) \/ Checkout(r) \/ StripeFails(r) \/ Die(r)
        PROVE  PlanIsLatest'
    <2>1. UNCHANGED <<latest, mixed, events>>  BY <1>1, ClickerStep
    <2>2. user'.plan = user.plan
      BY <1>1, ShownOpen DEF Click, Checkout, ReadUser, CreateCustomer, CreateSession, StripeFails, Die
    <2> QED  BY <2>1, <2>2, <1>q
  <1>2. ASSUME NEW h \in Hooks, Apply(h) PROVE PlanIsLatest'
    <2> DEFINE e == work[h].event
    <2>1. /\ latest' = e /\ events' = events
          /\ user'.plan = Column(work[h].loaded.plan, Plan(events[e].status), user.plan)
          /\ ~mixed' => work[h].loaded.plan = user.plan
      BY <1>2, <1>a DEF Apply, User, stripeVars
    <2> HIDE DEF e
    <2> QED  BY <2>1 DEF PlanIsLatest, Column
  <1>3. ASSUME NEW h \in Hooks,
               Look(h) \/ Insert(h) \/ LoadUser(h) \/ Mark(h) \/ MarkFailed(h) \/ HookFails(h)
                 \/ Die(h) \/ \E e \in Ids : Send(h, e)
        PROVE PlanIsLatest'
    <2>1. events' = events  BY <1>3, HookStep DEF Hook
    <2>2. UNCHANGED <<user, latest, mixed>>
      BY <1>3 DEF Look, Insert, LoadUser, Mark, MarkFailed, HookFails, Die, Send, history, applyVars
    <2> QED  BY <2>1, <2>2, <1>q
  <1>4. ASSUME NEW k \in Shown, Pay(k) \/ \E s \in Statuses \ {"inactive"} : Change(k, s)
        PROVE PlanIsLatest'
    BY <1>4, <1>q, StripeStep
  <1>5. CASE UNCHANGED vars
    BY <1>5, <1>q DEF vars, stripeVars, history, applyVars
  <1> QED  BY <1>1, <1>2, <1>3, <1>4, <1>5 DEF Next, Hook, Deliver, Repeat, Requests

-----------------------------------------------------------------------------
(* Nothing exists at the start.                                             *)
LEMMA InitEffects == Init => Customers /\ Effects /\ Ready /\ Alone /\ LastIsSub /\ PlanIsLatest
  <1> SUFFICES ASSUME Init
               PROVE  Customers /\ Effects /\ Ready /\ Alone /\ LastIsSub /\ PlanIsLatest
    OBVIOUS
  <1>1. Len(subs) = 0 /\ Len(events) = 0 /\ Shown = {} /\ Ids = {}
    <2>1. Len(<<>>) = 0  OBVIOUS
    <2> QED  BY <2>1 DEF Init, Shown, Ids
  <1>2. \A r \in Requests : pc[r] = "idle" /\ work[r] = NoWork  BY DEF Init
  <1>3. NoWork.customer = 0 /\ NoWork.shown = FALSE  BY DEF NoWork
  <1>4. Customers
    BY <1>1, <1>2, <1>3 DEF Init, Customers, Private, Numbered, Known, New, Requests
  <1>5. Effects
    BY <1>1, <1>2 DEF Init, Effects, Unsent, Marking, ProcessedIsApplied, Requests
  <1>6. Ready  BY <1>2, <1>3 DEF Ready, Requests
  <1>7. Alone
    <2>1. \A r \in Clickers : pc[r] = "idle"  BY <1>2 DEF Requests
    <2>2. customers = 0 /\ strays = 0  BY DEF Init
    <2> QED  BY <1>1, <2>1, <2>2 DEF Alone, OneMaker, OnRecord, Counted, Making
  <1>8. LastIsSub /\ PlanIsLatest  BY <1>1 DEF Init, LastIsSub, PlanIsLatest
  <1> QED  BY <1>4, <1>5, <1>6, <1>7, <1>8

(* Every reachable state is well typed.                                     *)
THEOREM TypeCorrect == Spec => []TypeOk
  <1>1. Inv => TypeOk  BY DEF Inv
  <1> QED  BY <1>1, Invariance, PTL

(* However Stripe repeats an event, and to however many webhook requests at *)
(* once, it is applied at most once.                                        *)
THEOREM AppliedOnce == Spec => []AppliedAtMostOnce
  <1>1. Inv => AppliedAtMostOnce  BY DEF Inv
  <1> QED  BY <1>1, Invariance, PTL

(* An event of the user's customer that is marked "processed" was applied,  *)
(* even while other checkouts change which customer that is.                *)
THEOREM ProcessedTrue == Spec => []ProcessedIsApplied
  <1>1. Init => Customers /\ Effects  BY InitEffects
  <1>2. Inv /\ Customers /\ Effects /\ [Next]_vars => Customers' /\ Effects'
    BY NextCustomers, NextEffects DEF Inv, Owners
  <1>3. Effects => ProcessedIsApplied  BY DEF Effects
  <1> QED  BY <1>1, <1>2, <1>3, Invariance, PTL DEF Spec

(* Any number of checkouts, over errors of Stripe and killed processes:     *)
(* every reachable state has the checkouts' agreement.                      *)
LEMMA Agreement == Spec => [](Ready /\ Alone)
  <1>1. Init => Customers /\ Ready /\ Alone  BY InitEffects
  <1>2. Inv /\ Customers /\ Ready /\ Alone /\ [Next]_vars => Customers' /\ Ready' /\ Alone'
    BY NextCustomers, NextReady, NextAlone DEF Inv
  <1> QED  BY <1>1, <1>2, Invariance, PTL DEF Spec

(* Whichever checkout the user pays is for the customer by which the        *)
(* webhook finds the user, unless two that were open at once had both found *)
(* no customer.                                                             *)
THEOREM PayableOnRecord == Spec => []PayableIsRecorded
  <1>1. Ready /\ Alone => PayableIsRecorded
    BY DEF Alone, OnRecord, PayableIsRecorded
  <1> QED  BY <1>1, Agreement, PTL

(* Stripe is asked for one customer, and for one more per process killed    *)
(* with a customer in its hands, unless two checkouts that were open at     *)
(* once had both found none: an error of Stripe costs no customer.          *)
THEOREM NoSpareCustomer == Spec => []OneCustomer
  <1>1. Ready /\ Alone => OneCustomer
    BY DEF Alone, Counted, OneCustomer
  <1> QED  BY <1>1, Agreement, PTL

(* Once the newest event has been applied, the plan is that of the          *)
(* subscription it is about, over any order and repetition of the events,   *)
(* any number of subscriptions, requests and faults, unless the request     *)
(* that applied it had loaded what another request then changed.            *)
THEOREM PlanMirrorsStripe == Spec => []MirrorsStripe
  <1>1. Init => LastIsSub /\ PlanIsLatest  BY InitEffects
  <1>2. Inv /\ LastIsSub /\ PlanIsLatest /\ [Next]_vars => LastIsSub' /\ PlanIsLatest'
    BY NextLast, NextPlan DEF Inv
  <1>3. Inv /\ LastIsSub /\ PlanIsLatest => MirrorsStripe
    <2> SUFFICES ASSUME Inv, LastIsSub, PlanIsLatest, latest # 0, latest = Len(events), ~mixed
                 PROVE  user.plan = "plus" <=> Subscribed(events[latest].sub)
      BY DEF MirrorsStripe
    <2> DEFINE k == events[latest].sub
    <2>1. k \in Shown /\ subs[k].status = events[latest].status  BY DEF LastIsSub
    <2>2. subs[k].status \in {"open", "active", "past_due", "canceled"}
      <3>1. subs \in Seq(Sub)  BY DEF Inv, TypeOk
      <3>2. subs[k] \in Sub  BY <2>1, <3>1 DEF Shown
      <3> QED  BY <3>2 DEF Sub
    <2>3. user.plan = Plan(subs[k].status)  BY <2>1 DEF PlanIsLatest
    <2> HIDE DEF k
    <2>4. user.plan = "plus" <=> Subscribed(k)  BY <2>1, <2>2, <2>3 DEF Plan, Subscribed
    <2> QED  BY <2>4 DEF k
  <1> QED  BY <1>1, <1>2, <1>3, Invariance, PTL DEF Spec
=============================================================================
