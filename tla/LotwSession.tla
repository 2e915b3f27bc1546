---------------------------- MODULE LotwSession -----------------------------
(***************************************************************************)
(* One user's login: the session cookie of each browser, the LoTW cookies  *)
(* stored in the users row, and the health record of the LoTW session that *)
(* every request through app/lotw.py reads and writes and that decides     *)
(* whether digests are generated (app/services/digest_eligibility.py).     *)
(*                                                                         *)
(* Requests of browsers and import jobs run at once in several threads and *)
(* processes.  Each sends the cookies it read, then loads the users row    *)
(* and writes back the columns that it changed; the row is not locked in   *)
(* between (PostgreSQL, READ COMMITTED).                                   *)
(***************************************************************************)
EXTENDS Integers, FiniteSets

CONSTANTS
    Workers,     \* threads that ask LoTW for this user
    Browsers,    \* browsers of the user
    Job,         \* an import job, which acts for no browser
    MaxBackoff,  \* the longest delay (24 hours), in units of the shortest (5 minutes)
    MaxFails,    \* fail counts from here on are one value
    Jars         \* names for LoTW sessions, reused when none refers to them

ASSUME JobAssumption     == Job \notin Browsers
ASSUME BackoffAssumption == /\ MaxBackoff \in Nat \ {0} /\ MaxFails \in Nat \ {0}
                            /\ 2^(MaxFails - 1) >= MaxBackoff
ASSUME JarsAssumption    == Jars \subseteq Nat \ {0}

VARIABLES
    logged,      \* browsers whose session cookie says logged_in
    jar,         \* the LoTW session of users.lotw_cookies_b, 0: no row
    live,        \* LoTW sessions that LoTW still honours
    empty,       \* those whose login set no cookie
    health,      \* lotw_auth_state, lotw_fail_count, time since lotw_last_fail_at
    pc, work,    \* per worker: where it is, what it knows
    refused,     \* history: the last thing recorded since the last login, by
                 \* refusal or success, is that LoTW wants a login
    barred,      \* history: browsers refused since they last logged in
    outlived,    \* history: since the last refusal or success a transient failure
                 \* was recorded of a job or a browser that is not barred
    alone,       \* history: workers that no other has run beside
    settled,     \* history: a lone worker succeeded and none started since
    clean        \* history: since a lone worker last succeeded, or ever, no two
                 \* have overlapped

jarVars  == <<logged, jar, live, empty>>
runVars  == <<pc, work>>
refusals == <<refused, barred, outlived>>
ghosts   == <<alone, settled, clean>>
vars     == <<jarVars, health, runVars, refusals, ghosts>>

-----------------------------------------------------------------------------
States == {"unknown", "ok", "transient_error", "auth_expired"}
Never  == -1

Least(a, b) == IF a < b THEN a ELSE b
Most(a, b)  == IF a > b THEN a ELSE b

(* What LoTW may answer: the page, its login form, or an HTTP status.       *)
Answers == {"page", "form", "denied", "limit", "down", "odd", "timeout"}
Status  == [page |-> 200, form |-> 200, denied |-> 403, limit |-> 429, down |-> 503, odd |-> 204]

(* A requests.Response is false from status 400 on.                         *)
IsValid(answer) == Status[answer] < 400 /\ answer # "form"
Expired(answer) == Status[answer] \in {401, 403} \/ ~IsValid(answer)

Verdict(answer) ==
    IF answer = "timeout" THEN "transient"
    ELSE IF Expired(answer) THEN "expired"
    ELSE IF Status[answer] # 200 THEN "transient" ELSE "ok"

(* LoTW shows a page or another status to whom it knows, and its login form *)
(* or a refusal to whom it does not; it may fail either.                    *)
May(sent) == (IF sent \in live THEN {"page", "odd"} ELSE {"form", "denied"})
               \union {"limit", "down", "timeout"}

Backoff(fails) == Least(2^(Most(1, fails) - 1), MaxBackoff)

(* Of a user with digests on and paid for.                                  *)
Eligible ==
    /\ health.state # "auth_expired"
    /\ health.state = "transient_error" =>
         health.fails > 0 /\ health.age # Never /\ health.age >= Backoff(health.fails)
    /\ jar # 0

(* busy: LoTW answered 429 or 503.                                          *)
NoWork == [by |-> Job, sent |-> 0, busy |-> FALSE, verdict |-> "none",
           state |-> "unknown", fails |-> 0]

-----------------------------------------------------------------------------
Health == [state : States, fails : 0..MaxFails, age : Never..MaxBackoff]
Work   == [by : Browsers \union {Job}, sent : Jars \union {0}, busy : BOOLEAN,
           verdict : {"none", "ok", "transient", "expired"}, state : States, fails : 0..MaxFails]

TypeOk ==
    /\ logged \subseteq Browsers
    /\ jar \in Jars \union {0} /\ live \subseteq Jars /\ empty \subseteq Jars
    /\ health \in Health
    /\ pc \in [Workers -> {"idle", "cookies", "ask", "load", "write", "raise"}]
    /\ work \in [Workers -> Work]
    /\ refused \in BOOLEAN /\ barred \subseteq Browsers /\ outlived \in BOOLEAN
    /\ alone \subseteq Workers /\ settled \in BOOLEAN /\ clean \in BOOLEAN

Init ==
    /\ logged = {} /\ jar = 0 /\ live = {} /\ empty = {}
    /\ health = [state |-> "unknown", fails |-> 0, age |-> Never]
    /\ pc = [w \in Workers |-> "idle"] /\ work = [w \in Workers |-> NoWork]
    /\ refused = FALSE /\ barred = {} /\ outlived = FALSE
    /\ alone = {} /\ settled = FALSE /\ clean = TRUE

-----------------------------------------------------------------------------
(* Login and logout.                                                        *)

(* A login LoTW accepts.  The health record stays as it was.  LoTW sessions *)
(* that nothing refers to any more are forgotten.                           *)
Login(b) ==
    /\ b \notin logged
    /\ LET asking == {work[w].sent : w \in Workers} IN
       \E k \in Jars \ asking :
         /\ jar' = k /\ live' = (live \intersect asking) \union {k}
         /\ empty' \in {{}, {k}}
    /\ logged' = logged \union {b}
    /\ refused' = FALSE /\ barred' = barred \ {b}
    /\ UNCHANGED <<health, runVars, outlived, ghosts>>

(* The database fails after the session was set.                            *)
LoginFails(b) ==
    /\ b \notin logged
    /\ logged' = logged \union {b} /\ barred' = barred \ {b}
    /\ UNCHANGED <<jar, live, empty, health, runVars, refused, outlived, ghosts>>

Logout(b) ==
    /\ b \in logged
    /\ logged' = logged \ {b}
    /\ UNCHANGED <<jar, live, empty, health, runVars, refusals, ghosts>>

-----------------------------------------------------------------------------
(* lotw.get and lotw.post.                                                  *)

Starts(w, by) ==
    /\ pc[w] = "idle"
    /\ pc' = [pc EXCEPT ![w] = "cookies"]
    /\ work' = [work EXCEPT ![w] = [NoWork EXCEPT !.by = by]]
    /\ alone' = IF \A v \in Workers \ {w} : pc[v] = "idle" THEN {w} ELSE {}
    /\ settled' = FALSE
    /\ clean' = (clean /\ alone' = {w})
    /\ UNCHANGED <<jarVars, health, refusals>>

(* A page that login_required lets through.                                 *)
Open(w, b) == b \in logged /\ Starts(w, b)

(* A job of the import executor, some time after a request enqueued it.     *)
RunJob(w) == jar # 0 /\ Starts(w, Job)

(* _get_lotw_cookies.                                                       *)
ReadCookies(w) ==
    /\ pc[w] = "cookies"
    /\ work' = [work EXCEPT ![w].sent = jar,
                            ![w].verdict = IF jar \in empty \union {0} THEN "expired" ELSE "none"]
    /\ pc' = [pc EXCEPT ![w] = IF jar = 0 THEN "raise" ELSE IF jar \in empty THEN "load" ELSE "ask"]
    /\ UNCHANGED <<jarVars, health, refusals, ghosts>>

Ask(w) ==
    /\ pc[w] = "ask"
    /\ \E a \in May(work[w].sent) :
         work' = [work EXCEPT ![w].sent = 0, ![w].busy = a \in {"limit", "down"},
                                 ![w].verdict = Verdict(a)]
    /\ pc' = [pc EXCEPT ![w] = "load"]
    /\ UNCHANGED <<jarVars, health, refusals, ghosts>>

(* _record_lotw_success or _record_lotw_failure, in a transaction of its    *)
(* own: the row is loaded ...                                               *)
LoadHealth(w) ==
    /\ pc[w] = "load"
    /\ work' = [work EXCEPT ![w].state = health.state, ![w].fails = health.fails]
    /\ pc' = [pc EXCEPT ![w] = "write"]
    /\ UNCHANGED <<jarVars, health, refusals, ghosts>>

(* ... and the columns that differ from what was loaded are written.        *)
Column(loaded, new, stored) == IF new = loaded THEN stored ELSE new

WriteDone(w) ==
    /\ pc[w] = "write"
    /\ pc' = [pc EXCEPT ![w] = IF work[w].verdict = "ok" THEN "idle" ELSE "raise"]
    /\ refused' = CASE work[w].verdict = "expired" -> TRUE
                    [] work[w].verdict = "ok"      -> FALSE
                    [] OTHER                       -> refused
    /\ barred' = IF work[w].verdict = "expired" THEN barred \union ({work[w].by} \ {Job}) ELSE barred
    /\ outlived' = (work[w].verdict \notin {"ok", "expired"}
                      /\ (outlived \/ work[w].by \notin barred))
    /\ settled' = (work[w].verdict = "ok" /\ w \in alone)
    /\ clean' = (clean \/ settled')
    /\ work' = [work EXCEPT ![w] =
                  IF @.verdict = "ok" THEN NoWork
                  ELSE [NoWork EXCEPT !.by = work[w].by, !.verdict = work[w].verdict, !.busy = work[w].busy]]
    /\ UNCHANGED <<jarVars, alone>>

(* Mutants are what the code would be after a plausible slip; each one must *)
(* break a property.  Here a record that says "ok" is left as it is, ...    *)
SuccessIfNotOk(w) ==
    IF work[w].state = "ok" THEN health
    ELSE [state |-> "ok", fails |-> Column(work[w].fails, 0, health.fails), age |-> health.age]

(* ... the state is not reset, ...                                          *)
SuccessForgetsState(w) == [health EXCEPT !.fails = Column(work[w].fails, 0, @)]

Success(w) ==
    [state |-> Column(work[w].state, "ok", health.state),
     fails |-> Column(work[w].fails, 0, health.fails),
     age   |-> health.age]

(* ... lotw_last_fail_at is not set, ...                                    *)
FailureUnstamped(w) ==
    [state |-> IF work[w].verdict = "expired" THEN "auth_expired" ELSE "transient_error",
     fails |-> Least(work[w].fails + 1, MaxFails),
     age   |-> health.age]

(* ... or the state is one that nobody reads.                               *)
FailureMisnamed(w) ==
    [state |-> IF work[w].verdict = "expired" THEN "expired" ELSE "transient_error",
     fails |-> Least(work[w].fails + 1, MaxFails),
     age   |-> 0]

Failure(w) ==
    LET new == IF work[w].verdict = "expired" THEN "auth_expired" ELSE "transient_error" IN
    [state |-> Column(work[w].state, new, health.state),
     fails |-> Least(work[w].fails + 1, MaxFails),
     age   |-> 0]

WriteHealth(w) ==
    /\ WriteDone(w)
    /\ health' = IF work[w].verdict = "ok" THEN Success(w) ELSE Failure(w)

(* Mutant: the session outlives the refusal.                                *)
RaiseKeepsLogin(w) ==
    /\ pc[w] = "raise"
    /\ pc' = [pc EXCEPT ![w] = "idle"] /\ work' = [work EXCEPT ![w] = NoWork]
    /\ UNCHANGED <<jarVars, health, refusals, ghosts>>

(* The error handlers of the application; an import job has none.           *)
Raise(w) ==
    /\ pc[w] = "raise"
    /\ logged' = IF work[w].verdict = "expired" THEN logged \ {work[w].by} ELSE logged
    /\ pc' = [pc EXCEPT ![w] = "idle"] /\ work' = [work EXCEPT ![w] = NoWork]
    /\ UNCHANGED <<jar, live, empty, health, refusals, ghosts>>

-----------------------------------------------------------------------------
(* LoTW and time.                                                           *)

EndLotwSession(k) ==
    /\ k \in live /\ live' = live \ {k}
    /\ UNCHANGED <<logged, jar, empty, health, runVars, refusals, ghosts>>

Tick ==
    /\ health.age \in 0..MaxBackoff - 1
    /\ health' = [health EXCEPT !.age = @ + 1]
    /\ UNCHANGED <<jarVars, runVars, refusals, ghosts>>

Request(w) == ReadCookies(w) \/ Ask(w) \/ LoadHealth(w) \/ WriteHealth(w) \/ Raise(w)

Next == \/ \E b \in Browsers : Login(b) \/ LoginFails(b) \/ Logout(b)
        \/ \E w \in Workers : RunJob(w) \/ Request(w) \/ \E b \in Browsers : Open(w, b)
        \/ \E k \in live : EndLotwSession(k)
        \/ Tick

Spec == Init /\ [][Next]_vars

(* Time passes.  Nothing else has to happen.                                *)
FairSpec == Spec /\ WF_vars(Tick)

-----------------------------------------------------------------------------
(* Properties.                                                              *)

(* A user who is held back after transient errors has a time at which to be *)
(* tried again (docs/qsl_digest_notifications_plan.md:145).  This is so      *)
(* until two threads interleave their records, when evaluate_digest_         *)
(* eligibility may have no retry_at to give, and again after a lone success. *)
DeferredHasRetry ==
    clean /\ health.state = "transient_error" => health.fails > 0 /\ health.age # Never

(* "users in expired state are prompted to login again before digest        *)
(* resumes" (docs/qsl_digest_notifications_plan.md:156).  While no requests *)
(* overlap this is so for the browser that LoTW refused, which the error    *)
(* handler logs out: digests resume before a login only when a request of   *)
(* another browser, of a job or after a login that failed half way got no   *)
(* good answer, which the record takes for less than the refusal.           *)
ExpiredNeedsLogin == clean /\ refused /\ Eligible => outlived

(* One request that runs alone and succeeds puts right whatever interleaved *)
(* records have left of the health record.                                  *)
HealsAlone == settled => health.state = "ok" /\ health.fails = 0 /\ Eligible

(* A user held back is eligible again in the end, with no request to LoTW,  *)
(* once the requests cease; as for DeferredHasRetry.                        *)
RetryComes == clean /\ health.state = "transient_error" ~>
                 \/ Eligible \/ health.state # "transient_error"
                 \/ ~clean \/ \E w \in Workers : pc[w] # "idle"

(* app/__init__.py:177: "LoTW is temporarily unavailable. You are still     *)
(* logged in.", said of 429 and 5xx in app/lotw.py:96-111.                  *)
OutageKeepsLogin ==
    [][\A w \in Workers :
         (pc[w] = "raise" /\ pc'[w] = "idle" /\ work[w].busy)
            => logged' = logged]_vars
=============================================================================
