------------------------- MODULE LotwSessionProofs --------------------------
(***************************************************************************)
(* Proofs about LotwSession, for any number of workers, browsers and LoTW  *)
(* sessions: the type invariant, that a lone success heals the health      *)
(* record, that a clean history never leaves a deferred user without a     *)
(* time to be tried again, and what a refusal by LoTW ends until a login.  *)
(*                                                                         *)
(* None of these is inductive.  What makes them so is what `alone` and     *)
(* `clean` stand for: who runs alone writes back what it has loaded        *)
(* (LoadedIsStored), and as long as the history is clean whoever runs,     *)
(* runs alone (CleanIsAlone); and that a browser that was refused is       *)
(* logged out before anything else asks for it (BarredAsksNothing).        *)
(***************************************************************************)
EXTENDS LotwSession, TLAPS

OthersIdle(w) == \A v \in Workers \ {w} : pc[v] = "idle"

(* What "alone" means: nobody else is at work.                              *)
AloneIsAlone == \A w \in alone : OthersIdle(w)

(* While nothing has overlapped, who is at work is alone.                   *)
CleanIsAlone == clean => \A w \in Workers : pc[w] # "idle" => w \in alone

(* What a lone worker has loaded is still what is stored.                   *)
LoadedIsStored == \A w \in alone :
    pc[w] = "write" => work[w].state = health.state /\ work[w].fails = health.fails

(* Who got past the cookies has found a row.                                *)
RowIsThere == jar = 0 => \A w \in Workers : pc[w] \in {"idle", "cookies", "raise"}

Healed == settled =>
    /\ \A w \in Workers : pc[w] = "idle"
    /\ health.state = "ok" /\ health.fails = 0 /\ jar # 0

SessionInv == TypeOk /\ AloneIsAlone /\ CleanIsAlone /\ LoadedIsStored /\ RowIsThere
                /\ Healed /\ DeferredHasRetry

(* A browser that was refused is logged out, or a worker is about to do it. *)
BarredIsOut == \A b \in barred :
    \/ b \notin logged
    \/ \E w \in Workers : pc[w] = "raise" /\ work[w].verdict = "expired" /\ work[w].by = b

(* In a clean history, no worker but that one acts for it.                  *)
BarredAsksNothing == clean => \A w \in Workers :
    pc[w] # "idle" /\ work[w].by \in barred => pc[w] = "raise" /\ work[w].verdict = "expired"

(* So only a failure of another can overwrite the refusal.                  *)
RefusalHolds == clean /\ refused /\ ~outlived => health.state = "auth_expired"

RefusalInv == BarredIsOut /\ BarredAsksNothing /\ RefusalHolds

-----------------------------------------------------------------------------
LEMMA FailsFacts ==
    ASSUME NEW f \in 0..MaxFails
    PROVE  /\ Least(f + 1, MaxFails) \in 0..MaxFails
           /\ Least(f + 1, MaxFails) > 0
BY BackoffAssumption DEF Least

(* The two records, as the state they leave.                                *)
LEMMA SuccessFacts ==
    ASSUME TypeOk, NEW w \in Workers
    PROVE  Success(w) \in Health
BY BackoffAssumption DEF TypeOk, Health, Work, Success, Column, States

LEMMA FailureFacts ==
    ASSUME TypeOk, NEW w \in Workers
    PROVE  /\ Failure(w) \in Health
           /\ Failure(w).fails > 0 /\ Failure(w).age # Never
<1>1. work[w].fails \in 0..MaxFails
  BY DEF TypeOk, Work
<1>2. /\ Least(work[w].fails + 1, MaxFails) \in 0..MaxFails
      /\ Least(work[w].fails + 1, MaxFails) > 0
  BY <1>1, FailsFacts
<1>. QED BY <1>2, BackoffAssumption DEF TypeOk, Health, Work, Failure, Column, States, Never

LEMMA LoneSuccess ==
    ASSUME SessionInv, NEW w \in alone, pc[w] = "write"
    PROVE  Success(w).state = "ok" /\ Success(w).fails = 0
BY DEF SessionInv, LoadedIsStored, Success, Column

LEMMA LoneRefusal ==
    ASSUME SessionInv, NEW w \in alone, pc[w] = "write", work[w].verdict = "expired"
    PROVE  Failure(w).state = "auth_expired"
BY DEF SessionInv, LoadedIsStored, Failure, Column

-----------------------------------------------------------------------------
LEMMA NoWorkIsWork == NoWork \in Work
BY BackoffAssumption DEF NoWork, Work, States

LEMMA SessionInit == Init => SessionInv
<1>. SUFFICES ASSUME Init PROVE SessionInv
  OBVIOUS
<1>1. health \in Health
  BY BackoffAssumption DEF Init, Health, States, Never
<1>. QED BY <1>1, NoWorkIsWork DEF Init, SessionInv, TypeOk, AloneIsAlone, CleanIsAlone, LoadedIsStored,
     RowIsThere, Healed, DeferredHasRetry

(* Steps that leave workers and health alone.                               *)
LEMMA CookieStep ==
    ASSUME SessionInv, NEW b \in Browsers,
           Login(b) \/ LoginFails(b) \/ Logout(b) \/ \E k \in live : EndLotwSession(k)
    PROVE  SessionInv'
<1>1. CASE Login(b)
  BY <1>1, JarsAssumption DEF SessionInv, Login, runVars, refusals, ghosts, TypeOk, AloneIsAlone, OthersIdle,
     CleanIsAlone, LoadedIsStored, RowIsThere, Healed, DeferredHasRetry
<1>2. CASE LoginFails(b)
  BY <1>2 DEF SessionInv, LoginFails, runVars, refusals, ghosts, TypeOk, AloneIsAlone, OthersIdle,
     CleanIsAlone, LoadedIsStored, RowIsThere, Healed, DeferredHasRetry
<1>3. CASE Logout(b)
  BY <1>3 DEF SessionInv, Logout, runVars, refusals, ghosts, TypeOk, AloneIsAlone, OthersIdle,
     CleanIsAlone, LoadedIsStored, RowIsThere, Healed, DeferredHasRetry
<1>4. CASE \E k \in live : EndLotwSession(k)
  BY <1>4 DEF SessionInv, EndLotwSession, runVars, refusals, ghosts, TypeOk, AloneIsAlone, OthersIdle,
     CleanIsAlone, LoadedIsStored, RowIsThere, Healed, DeferredHasRetry
<1>. QED BY <1>1, <1>2, <1>3, <1>4

LEMMA TickStep == SessionInv /\ Tick => SessionInv'
<1>. SUFFICES ASSUME SessionInv, Tick PROVE SessionInv'
  OBVIOUS
<1>1. health' \in Health
      /\ health'.state = health.state /\ health'.fails = health.fails /\ health'.age # Never
  BY BackoffAssumption DEF SessionInv, TypeOk, Health, Tick, Never
<1>. QED BY <1>1 DEF SessionInv, Tick, jarVars, runVars, refusals, ghosts, TypeOk, AloneIsAlone, OthersIdle,
     CleanIsAlone, LoadedIsStored, RowIsThere, Healed, DeferredHasRetry

(* A worker starts: whoever was at work is no longer alone.                 *)
LEMMA StartStep ==
    ASSUME SessionInv, NEW w \in Workers, NEW by \in Browsers \union {Job}, Starts(w, by)
    PROVE  SessionInv'
<1>1. TypeOk'
  <2>1. [NoWork EXCEPT !.by = by] \in Work
    BY NoWorkIsWork DEF Work
  <2>. QED BY <2>1 DEF SessionInv, TypeOk, Starts, jarVars, refusals
<1>2. AloneIsAlone'
  BY DEF SessionInv, TypeOk, Starts, AloneIsAlone, OthersIdle
<1>3. CleanIsAlone'
  <2>. SUFFICES ASSUME clean', NEW v \in Workers, pc'[v] # "idle"
                PROVE  v \in alone'
    BY DEF CleanIsAlone
  <2>1. alone' = {w} /\ \A u \in Workers \ {w} : pc[u] = "idle"
    BY DEF Starts
  <2>2. v = w
    BY <2>1 DEF SessionInv, TypeOk, Starts
  <2>. QED BY <2>1, <2>2
<1>4. LoadedIsStored'
  BY DEF SessionInv, TypeOk, Starts, LoadedIsStored
<1>5. RowIsThere'
  BY DEF SessionInv, TypeOk, Starts, RowIsThere, jarVars
<1>6. Healed' /\ DeferredHasRetry'
  BY DEF SessionInv, Starts, Healed, DeferredHasRetry
<1>. QED BY <1>1, <1>2, <1>3, <1>4, <1>5, <1>6 DEF SessionInv

(* Steps of a request that only change what the worker knows.               *)
LEMMA ReadStep ==
    ASSUME SessionInv, NEW w \in Workers, ReadCookies(w) \/ Ask(w) \/ LoadHealth(w)
    PROVE  SessionInv'
<1>1. TypeOk'
  <2>1. CASE ReadCookies(w)
    <3>1. work[w] \in Work /\ jar \in Jars \union {0}
      BY DEF SessionInv, TypeOk
    <3>2. \A v \in {"expired", "none"} : [work[w] EXCEPT !.sent = jar, !.verdict = v] \in Work
      BY <3>1 DEF Work
    <3>3. work' \in [Workers -> Work]
      BY <2>1, <3>2 DEF SessionInv, TypeOk, ReadCookies
    <3>. QED BY <2>1, <3>3 DEF SessionInv, TypeOk, ReadCookies, jarVars, refusals, ghosts
  <2>2. CASE Ask(w)
    <3>1. work[w] \in Work
      BY DEF SessionInv, TypeOk
    <3>2. \A busy \in BOOLEAN, v \in {"ok", "transient", "expired"} :
            [work[w] EXCEPT !.sent = 0, !.busy = busy, !.verdict = v] \in Work
      BY <3>1 DEF Work
    <3>3. \A a : Verdict(a) \in {"ok", "transient", "expired"}
      BY DEF Verdict
    <3>4. PICK a : work' = [work EXCEPT ![w].sent = 0, ![w].busy = a \in {"limit", "down"},
                                        ![w].verdict = Verdict(a)]
      BY <2>2 DEF Ask
    <3>5. (a \in {"limit", "down"}) \in BOOLEAN
      OBVIOUS
    <3>6. [work[w] EXCEPT !.sent = 0, !.busy = a \in {"limit", "down"}, !.verdict = Verdict(a)] \in Work
      BY <3>2, <3>3, <3>5
    <3>7. work' \in [Workers -> Work]
      BY <3>4, <3>6 DEF SessionInv, TypeOk
    <3>. QED BY <2>2, <3>7 DEF SessionInv, TypeOk, Ask, jarVars, refusals, ghosts
  <2>3. CASE LoadHealth(w)
    <3>1. work[w] \in Work /\ health.state \in States /\ health.fails \in 0..MaxFails
      BY DEF SessionInv, TypeOk, Health
    <3>2. [work[w] EXCEPT !.state = health.state, !.fails = health.fails] \in Work
      BY <3>1 DEF Work
    <3>3. work' \in [Workers -> Work]
      BY <2>3, <3>2 DEF SessionInv, TypeOk, LoadHealth
    <3>. QED BY <2>3, <3>3 DEF SessionInv, TypeOk, LoadHealth, jarVars, refusals, ghosts
  <2>. QED BY <2>1, <2>2, <2>3
<1>2. /\ pc[w] # "idle" /\ \A v \in Workers \ {w} : pc'[v] = pc[v] /\ work'[v] = work[v]
  <2>1. work[w] \in Work
    BY DEF SessionInv, TypeOk
  <2>2. CASE ReadCookies(w)
    <3>1. PICK v \in {"expired", "none"} : work' = [work EXCEPT ![w].sent = jar, ![w].verdict = v]
      BY <2>2 DEF ReadCookies
    <3>2. PICK at \in {"raise", "load", "ask"} : pc' = [pc EXCEPT ![w] = at]
      BY <2>2 DEF ReadCookies
    <3>. QED BY <2>1, <2>2, <3>1, <3>2 DEF SessionInv, TypeOk, Work, ReadCookies
  <2>3. CASE Ask(w)
    <3>1. PICK a : work' = [work EXCEPT ![w].sent = 0, ![w].busy = a \in {"limit", "down"},
                                        ![w].verdict = Verdict(a)]
      BY <2>3 DEF Ask
    <3>. QED BY <2>1, <2>3, <3>1 DEF SessionInv, TypeOk, Work, Ask
  <2>4. CASE LoadHealth(w)
    BY <2>1, <2>4 DEF SessionInv, TypeOk, Work, LoadHealth
  <2>. QED BY <2>2, <2>3, <2>4
<1>3. /\ UNCHANGED <<jar, health, alone, settled, clean>>
  BY DEF ReadCookies, Ask, LoadHealth, jarVars, ghosts
<1>4. AloneIsAlone' /\ CleanIsAlone'
  BY <1>2, <1>3 DEF SessionInv, AloneIsAlone, CleanIsAlone, OthersIdle
<1>5. LoadedIsStored'
  <2>1. pc'[w] = "write" => work'[w].state = health.state /\ work'[w].fails = health.fails
    <3>1. work[w] \in Work
      BY DEF SessionInv, TypeOk
    <3>2. CASE LoadHealth(w)
      BY <3>1, <3>2 DEF SessionInv, TypeOk, Work, LoadHealth
    <3>3. CASE ReadCookies(w)
      <4>1. PICK at \in {"raise", "load", "ask"} : pc' = [pc EXCEPT ![w] = at]
        BY <3>3 DEF ReadCookies
      <4>. QED BY <4>1 DEF SessionInv, TypeOk
    <3>4. CASE Ask(w)
      BY <3>4 DEF SessionInv, TypeOk, Ask
    <3>. QED BY <3>2, <3>3, <3>4
  <2>2. alone \subseteq Workers
    BY DEF SessionInv, TypeOk
  <2>. QED BY <1>2, <1>3, <2>1, <2>2 DEF SessionInv, LoadedIsStored
<1>6. RowIsThere'
  <2>1. jar = 0 => pc'[w] \in {"idle", "cookies", "raise"}
    <3>1. CASE ReadCookies(w)
      <4>1. jar = 0 => pc' = [pc EXCEPT ![w] = "raise"]
        BY <3>1 DEF ReadCookies
      <4>. QED BY <4>1 DEF SessionInv, TypeOk
    <3>2. CASE Ask(w) \/ LoadHealth(w)
      BY <3>2 DEF SessionInv, RowIsThere, Ask, LoadHealth
    <3>. QED BY <3>1, <3>2
  <2>. QED BY <1>2, <1>3, <2>1 DEF SessionInv, RowIsThere
<1>7. Healed' /\ DeferredHasRetry'
  BY <1>2, <1>3 DEF SessionInv, Healed, DeferredHasRetry
<1>. QED BY <1>1, <1>4, <1>5, <1>6, <1>7 DEF SessionInv

LEMMA RaiseStep ==
    ASSUME SessionInv, NEW w \in Workers, Raise(w)
    PROVE  SessionInv'
<1>1. TypeOk'
  BY NoWorkIsWork DEF SessionInv, TypeOk, Raise, refusals, ghosts
<1>. QED BY <1>1 DEF SessionInv, TypeOk, Raise, AloneIsAlone, OthersIdle, CleanIsAlone,
     LoadedIsStored, RowIsThere, Healed, DeferredHasRetry, ghosts

(* The record.  A success of a lone worker makes the history clean again:   *)
(* it has healed the record, and nobody else is at work.                    *)
LEMMA WriteStep ==
    ASSUME SessionInv, NEW w \in Workers, WriteHealth(w)
    PROVE  SessionInv'
<1>1. /\ pc[w] = "write"
      /\ pc' = [pc EXCEPT ![w] = IF work[w].verdict = "ok" THEN "idle" ELSE "raise"]
      /\ settled' = (work[w].verdict = "ok" /\ w \in alone)
      /\ clean' = (clean \/ settled')
      /\ health' = IF work[w].verdict = "ok" THEN Success(w) ELSE Failure(w)
      /\ UNCHANGED <<jar, alone>>
  BY DEF WriteHealth, WriteDone, jarVars
<1>2. TypeOk'
  <2>1. health' \in Health
    BY <1>1, SuccessFacts, FailureFacts DEF SessionInv
  <2>2. refused' \in BOOLEAN /\ barred' \subseteq Browsers /\ outlived' \in BOOLEAN
    BY DEF SessionInv, TypeOk, Work, WriteHealth, WriteDone
  <2>3. work' \in [Workers -> Work]
    <3>1. work[w] \in Work /\ NoWork \in Work
      BY NoWorkIsWork DEF SessionInv, TypeOk
    <3>2. [NoWork EXCEPT !.by = work[w].by, !.verdict = work[w].verdict, !.busy = work[w].busy] \in Work
      BY <3>1 DEF Work
    <3>. QED BY <3>1, <3>2 DEF SessionInv, TypeOk, WriteHealth, WriteDone
  <2>. QED BY <1>1, <2>1, <2>2, <2>3 DEF SessionInv, TypeOk, WriteHealth, WriteDone, jarVars
<1>3. AloneIsAlone'
  BY <1>1 DEF SessionInv, TypeOk, AloneIsAlone, OthersIdle
<1>4. w \in alone => \A v \in Workers \ {w} : pc[v] = "idle"
  BY DEF SessionInv, AloneIsAlone, OthersIdle
<1>6. \A v \in Workers \ {w} : work'[v] = work[v] /\ pc'[v] = pc[v]
  BY DEF SessionInv, TypeOk, WriteHealth, WriteDone
<1>7. CleanIsAlone'
  <2>1. CASE settled'
    BY <1>1, <1>4, <1>6, <2>1 DEF SessionInv, TypeOk, CleanIsAlone
  <2>2. CASE ~settled'
    BY <1>1, <1>6, <2>2 DEF SessionInv, CleanIsAlone
  <2>. QED BY <2>1, <2>2
<1>8. LoadedIsStored'
  BY <1>1, <1>6 DEF SessionInv, TypeOk, AloneIsAlone, OthersIdle, LoadedIsStored
<1>9. RowIsThere'
  BY <1>1, <1>6 DEF SessionInv, RowIsThere
<1>10. Healed'
  <2>. SUFFICES ASSUME settled'
                PROVE  /\ \A v \in Workers : pc'[v] = "idle"
                       /\ health'.state = "ok" /\ health'.fails = 0 /\ jar' # 0
    BY DEF Healed
  <2>1. health'.state = "ok" /\ health'.fails = 0
    BY <1>1, LoneSuccess
  <2>2. jar # 0
    BY <1>1 DEF SessionInv, RowIsThere
  <2>. QED BY <1>1, <1>4, <1>6, <2>1, <2>2 DEF SessionInv, TypeOk
<1>11. DeferredHasRetry'
  <2>. SUFFICES ASSUME clean', health'.state = "transient_error"
                PROVE  health'.fails > 0 /\ health'.age # Never
    BY DEF DeferredHasRetry
  <2>1. w \in alone
    BY <1>1 DEF SessionInv, CleanIsAlone
  <2>2. work[w].verdict # "ok"
    BY <1>1, <2>1, LoneSuccess
  <2>. QED BY <1>1, <2>2, FailureFacts DEF SessionInv
<1>. QED BY <1>2, <1>3, <1>7, <1>8, <1>9, <1>10, <1>11 DEF SessionInv

LEMMA SessionNext == SessionInv /\ [Next]_vars => SessionInv'
<1>. SUFFICES ASSUME SessionInv, [Next]_vars PROVE SessionInv'
  OBVIOUS
<1>1. ASSUME NEW b \in Browsers, Login(b) \/ LoginFails(b) \/ Logout(b) PROVE SessionInv'
  BY <1>1, CookieStep
<1>2. ASSUME NEW k \in live, EndLotwSession(k) PROVE SessionInv'
  BY <1>2 DEF SessionInv, EndLotwSession, runVars, refusals, ghosts, TypeOk, AloneIsAlone, OthersIdle,
     CleanIsAlone, LoadedIsStored, RowIsThere, Healed, DeferredHasRetry
<1>3. ASSUME NEW w \in Workers, RunJob(w) \/ \E b \in Browsers : Open(w, b) PROVE SessionInv'
  BY <1>3, StartStep DEF RunJob, Open
<1>4. ASSUME NEW w \in Workers, Request(w) PROVE SessionInv'
  BY <1>4, ReadStep, WriteStep, RaiseStep DEF Request
<1>5. CASE Tick
  BY <1>5, TickStep
<1>6. CASE UNCHANGED vars
  BY <1>6 DEF SessionInv, vars, jarVars, runVars, refusals, ghosts, TypeOk, AloneIsAlone, OthersIdle,
     CleanIsAlone, LoadedIsStored, RowIsThere, Healed, DeferredHasRetry
<1>. QED BY <1>1, <1>2, <1>3, <1>4, <1>5, <1>6 DEF Next

(* The inductive invariant holds in every state, whoever asks LoTW beside   *)
(* whom (app/lotw.py, digest_eligibility.py).                               *)
THEOREM SessionInvariant == Spec => []SessionInv
BY SessionInit, SessionNext, PTL DEF Spec

(* Types hold for any number of workers, browsers and LoTW sessions.        *)
THEOREM Types == Spec => []TypeOk
<1>1. SessionInv => TypeOk
  BY DEF SessionInv
<1>. QED BY <1>1, SessionInvariant, PTL

(* Whatever interleaved records have made of the health record, one request *)
(* that runs alone and succeeds puts it right (_record_lotw_success).       *)
THEOREM LoneSuccessHeals == Spec => []HealsAlone
<1>1. SessionInv => HealsAlone
  BY DEF SessionInv, Healed, HealsAlone, Eligible
<1>. QED BY <1>1, SessionInvariant, PTL

(* As long as nothing overlaps, whoever is deferred after transient errors  *)
(* has a time to be tried again (evaluate_digest_eligibility).              *)
THEOREM CleanDeferredHasRetry == Spec => []DeferredHasRetry
<1>1. SessionInv => DeferredHasRetry
  BY DEF SessionInv
<1>. QED BY <1>1, SessionInvariant, PTL

-----------------------------------------------------------------------------
(* What a refusal leaves.  Login, logout and time do not bring back what a  *)
(* refusal ended.                                                           *)
LEMMA RefusalCookieStep ==
    ASSUME SessionInv, RefusalInv, NEW b \in Browsers,
           Login(b) \/ LoginFails(b) \/ Logout(b)
    PROVE  RefusalInv'
<1>1. UNCHANGED <<health, pc, work, outlived, clean>> /\ logged' \subseteq logged \union {b}
  BY DEF Login, LoginFails, Logout, runVars, refusals, ghosts
<1>2. CASE Login(b) \/ LoginFails(b)
  <2>1. barred' = barred \ {b} /\ (refused' => refused)
    BY <1>2 DEF Login, LoginFails
  <2>2. BarredIsOut'  BY <1>1, <2>1 DEF RefusalInv, BarredIsOut
  <2>3. BarredAsksNothing'  BY <1>1, <2>1 DEF RefusalInv, BarredAsksNothing
  <2>4. RefusalHolds'  BY <1>1, <2>1 DEF RefusalInv, RefusalHolds
  <2>. QED BY <2>2, <2>3, <2>4 DEF RefusalInv
<1>3. CASE Logout(b)
  BY <1>3 DEF Logout, runVars, refusals, ghosts, RefusalInv, BarredIsOut, BarredAsksNothing, RefusalHolds
<1>. QED BY <1>2, <1>3

(* Who starts is not barred.                                                *)
LEMMA RefusalStartStep ==
    ASSUME SessionInv, RefusalInv, NEW w \in Workers,
           RunJob(w) \/ \E b \in Browsers : Open(w, b)
    PROVE  RefusalInv'
<1>1. PICK by \in Browsers \union {Job} : Starts(w, by) /\ by \in logged \union {Job}
  BY DEF RunJob, Open
<1>2. /\ pc[w] = "idle" /\ pc' = [pc EXCEPT ![w] = "cookies"]
      /\ UNCHANGED <<logged, barred, refused, outlived, health>>
      /\ clean' => clean /\ \A v \in Workers \ {w} : pc[v] = "idle"
  BY <1>1 DEF Starts, jarVars, refusals
<1>3. work'[w].by = by /\ \A v \in Workers \ {w} : pc'[v] = pc[v] /\ work'[v] = work[v]
  BY <1>1 DEF Starts, NoWork, SessionInv, TypeOk
<1>4. BarredIsOut'
  BY <1>2, <1>3 DEF RefusalInv, BarredIsOut
<1>5. BarredAsksNothing'
  <2>. SUFFICES ASSUME clean' PROVE \A v \in Workers : ~(pc'[v] # "idle" /\ work'[v].by \in barred)
    BY <1>2 DEF BarredAsksNothing
  <2>1. \A v \in Workers : pc[v] = "idle"
    BY <1>2
  <2>2. by \notin barred
    <3>1. \A b \in barred : b \notin logged
      BY <2>1 DEF RefusalInv, BarredIsOut
    <3>2. Job \notin barred
      BY JobAssumption DEF SessionInv, TypeOk
    <3>. QED BY <1>1, <3>1, <3>2
  <2>. QED BY <1>3, <2>1, <2>2
<1>6. RefusalHolds'
  BY <1>2 DEF RefusalInv, RefusalHolds
<1>. QED BY <1>4, <1>5, <1>6 DEF RefusalInv

LEMMA RefusalReadStep ==
    ASSUME SessionInv, RefusalInv, NEW w \in Workers, ReadCookies(w) \/ Ask(w) \/ LoadHealth(w)
    PROVE  RefusalInv'
<1>1. /\ pc[w] \in {"cookies", "ask", "load"}
      /\ UNCHANGED <<logged, health, refused, barred, outlived, clean>>
  BY DEF ReadCookies, Ask, LoadHealth, jarVars, refusals, ghosts
<1>2. /\ \A v \in Workers \ {w} : pc'[v] = pc[v] /\ work'[v] = work[v]
      /\ work'[w].by = work[w].by
  <2>1. work[w] \in Work /\ pc \in [Workers -> {"idle", "cookies", "ask", "load", "write", "raise"}]
        /\ work \in [Workers -> Work]
    BY DEF SessionInv, TypeOk
  <2>2. CASE ReadCookies(w)
    <3>1. PICK v \in {"expired", "none"} : work' = [work EXCEPT ![w].sent = jar, ![w].verdict = v]
      BY <2>2 DEF ReadCookies
    <3>2. PICK at \in {"raise", "load", "ask"} : pc' = [pc EXCEPT ![w] = at]
      BY <2>2 DEF ReadCookies
    <3>. QED BY <2>1, <3>1, <3>2 DEF Work
  <2>3. CASE Ask(w)
    <3>1. PICK a : work' = [work EXCEPT ![w].sent = 0, ![w].busy = a \in {"limit", "down"},
                                        ![w].verdict = Verdict(a)]
      BY <2>3 DEF Ask
    <3>. QED BY <2>1, <2>3, <3>1 DEF Work, Ask
  <2>4. CASE LoadHealth(w)
    BY <2>1, <2>4 DEF Work, LoadHealth
  <2>. QED BY <2>2, <2>3, <2>4
<1>3. BarredIsOut'
  BY <1>1, <1>2 DEF RefusalInv, BarredIsOut
<1>4. BarredAsksNothing'
  BY <1>1, <1>2 DEF RefusalInv, BarredAsksNothing
<1>5. RefusalHolds'
  BY <1>1 DEF RefusalInv, RefusalHolds
<1>. QED BY <1>3, <1>4, <1>5 DEF RefusalInv

(* A refusal is recorded as such; a lesser failure is not of who is barred. *)
LEMMA RefusalWriteStep ==
    ASSUME SessionInv, RefusalInv, NEW w \in Workers, WriteHealth(w)
    PROVE  RefusalInv'
<1>1. /\ pc[w] = "write" /\ UNCHANGED <<logged, alone>>
      /\ pc' = [pc EXCEPT ![w] = IF work[w].verdict = "ok" THEN "idle" ELSE "raise"]
      /\ refused' = CASE work[w].verdict = "expired" -> TRUE
                      [] work[w].verdict = "ok"      -> FALSE
                      [] OTHER                       -> refused
      /\ barred' = IF work[w].verdict = "expired" THEN barred \union ({work[w].by} \ {Job}) ELSE barred
      /\ outlived' = (work[w].verdict \notin {"ok", "expired"}
                        /\ (outlived \/ work[w].by \notin barred))
      /\ settled' = (work[w].verdict = "ok" /\ w \in alone)
      /\ clean' = (clean \/ settled')
      /\ health' = IF work[w].verdict = "ok" THEN Success(w) ELSE Failure(w)
  BY DEF WriteHealth, WriteDone, jarVars
<1>2. /\ \A v \in Workers \ {w} : pc'[v] = pc[v] /\ work'[v] = work[v]
      /\ pc'[w] = IF work[w].verdict = "ok" THEN "idle" ELSE "raise"
  BY <1>1 DEF SessionInv, TypeOk, WriteHealth, WriteDone
<1>3. work[w].verdict # "ok" => work'[w].by = work[w].by /\ work'[w].verdict = work[w].verdict
  BY DEF SessionInv, TypeOk, WriteHealth, WriteDone, NoWork
<1>4. clean => w \in alone /\ work[w].by \notin barred
  BY <1>1 DEF SessionInv, CleanIsAlone, RefusalInv, BarredAsksNothing
<1>5. w \in alone => \A v \in Workers \ {w} : pc[v] = "idle"
  BY DEF SessionInv, AloneIsAlone, OthersIdle
<1>6. BarredIsOut'
  <2>. SUFFICES ASSUME NEW b \in barred'
                PROVE  \/ b \notin logged
                       \/ \E v \in Workers : pc'[v] = "raise" /\ work'[v].verdict = "expired"
                                             /\ work'[v].by = b
    BY <1>1 DEF BarredIsOut
  <2>1. CASE b \in barred
    BY <1>1, <1>2, <2>1 DEF RefusalInv, BarredIsOut
  <2>2. CASE b \notin barred
    BY <1>1, <1>2, <1>3, <2>2
  <2>. QED BY <2>1, <2>2
<1>7. BarredAsksNothing'
  <2>. SUFFICES ASSUME clean', NEW v \in Workers, pc'[v] # "idle", work'[v].by \in barred'
                PROVE  pc'[v] = "raise" /\ work'[v].verdict = "expired"
    BY DEF BarredAsksNothing
  <2>1. w \in alone
    BY <1>1, <1>4
  <2>2. v = w
    BY <1>2, <1>5, <2>1
  <2>3. work[w].verdict # "ok" /\ pc'[w] = "raise" /\ clean
    BY <1>1, <1>2, <2>2
  <2>. QED BY <1>1, <1>3, <1>4, <2>2, <2>3
<1>8. RefusalHolds'
  <2>. SUFFICES ASSUME clean', refused', ~outlived' PROVE health'.state = "auth_expired"
    BY DEF RefusalHolds
  <2>1. work[w].verdict # "ok" /\ clean
    BY <1>1
  <2>2. work[w].verdict = "expired" /\ w \in alone
    BY <1>1, <1>4, <2>1
  <2>. QED BY <1>1, <2>2, LoneRefusal
<1>. QED BY <1>6, <1>7, <1>8 DEF RefusalInv

LEMMA RefusalRaiseStep ==
    ASSUME SessionInv, RefusalInv, NEW w \in Workers, Raise(w)
    PROVE  RefusalInv'
<1>1. /\ pc[w] = "raise" /\ pc'[w] = "idle"
      /\ \A v \in Workers \ {w} : pc'[v] = pc[v] /\ work'[v] = work[v]
      /\ logged' = IF work[w].verdict = "expired" THEN logged \ {work[w].by} ELSE logged
      /\ UNCHANGED <<health, refused, barred, outlived, clean>>
  BY DEF Raise, SessionInv, TypeOk, refusals, ghosts
<1>2. BarredIsOut'
  <2>. SUFFICES ASSUME NEW b \in barred, b \in logged'
                PROVE  \E v \in Workers : pc'[v] = "raise" /\ work'[v].verdict = "expired"
                                          /\ work'[v].by = b
    BY <1>1 DEF BarredIsOut
  <2>1. PICK v \in Workers : pc[v] = "raise" /\ work[v].verdict = "expired" /\ work[v].by = b
    BY <1>1 DEF RefusalInv, BarredIsOut
  <2>2. v # w
    BY <1>1, <2>1
  <2>. QED BY <1>1, <2>1, <2>2
<1>3. BarredAsksNothing'
  BY <1>1 DEF RefusalInv, BarredAsksNothing
<1>4. RefusalHolds'
  BY <1>1 DEF RefusalInv, RefusalHolds
<1>. QED BY <1>2, <1>3, <1>4 DEF RefusalInv

LEMMA RefusalNext == SessionInv /\ RefusalInv /\ [Next]_vars => RefusalInv'
<1>. SUFFICES ASSUME SessionInv, RefusalInv, [Next]_vars PROVE RefusalInv'
  OBVIOUS
<1>1. ASSUME NEW k \in live, EndLotwSession(k) PROVE RefusalInv'
  BY <1>1 DEF EndLotwSession, runVars, refusals, ghosts,
     RefusalInv, BarredIsOut, BarredAsksNothing, RefusalHolds
<1>2. CASE Tick
  <2>1. health'.state = health.state /\ UNCHANGED <<logged, pc, work, refused, barred, outlived, clean>>
    BY <1>2 DEF Tick, SessionInv, TypeOk, Health, jarVars, runVars, refusals, ghosts
  <2>. QED BY <2>1 DEF RefusalInv, BarredIsOut, BarredAsksNothing, RefusalHolds
<1>3. CASE UNCHANGED vars
  BY <1>3 DEF vars, jarVars, runVars, refusals, ghosts,
     RefusalInv, BarredIsOut, BarredAsksNothing, RefusalHolds
<1>. QED BY <1>1, <1>2, <1>3, RefusalCookieStep, RefusalStartStep, RefusalReadStep,
     RefusalWriteStep, RefusalRaiseStep DEF Next, Request

(* For any number of browsers and jobs: once LoTW has refused a browser, no *)
(* request of that browser brings the digests back before a login; another  *)
(* browser, a job or a login that failed half way may, when LoTW does not   *)
(* answer it well, as long as nothing overlaps (_record_lotw_failure,       *)
(* handle_lotw_auth_expired, evaluate_digest_eligibility).                  *)
THEOREM RefusalNeedsLogin == Spec => []ExpiredNeedsLogin
<1>1. Init => RefusalInv
  BY DEF Init, RefusalInv, BarredIsOut, BarredAsksNothing, RefusalHolds
<1>2. SessionInv /\ RefusalInv /\ [Next]_vars => RefusalInv'
  BY RefusalNext
<1>3. RefusalInv => ExpiredNeedsLogin
  BY DEF RefusalInv, RefusalHolds, ExpiredNeedsLogin, Eligible
<1>. QED BY <1>1, <1>2, <1>3, SessionInvariant, PTL DEF Spec
=============================================================================
