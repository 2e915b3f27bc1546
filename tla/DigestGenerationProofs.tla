----------------------- MODULE DigestGenerationProofs -----------------------
(***************************************************************************)
(* Proofs about DigestGeneration, for every set of users, timezones and    *)
(* digest times, every length of a day and every bound.                    *)
(***************************************************************************)
EXTENDS DigestGeneration, TLAPS

(* A schedule is a window that starts before its end, at the cursor if the  *)
(* cursor lies before the end, and otherwise a day before the end.          *)
LEMMA ScheduleWindow ==
    ASSUME NEW t \in Int, NEW offset \in Int, NEW time \in Int, NEW cur \in Int \union {NoCursor}
    PROVE  LET w == Schedule(t, offset, time, cur) IN
           /\ w \in Window
           /\ w.start = IF cur # NoCursor /\ cur < w.end THEN cur ELSE w.end - Day
  <1> DEFINE local == t + offset
             today == local \div Day
             date == IF local >= today * Day + time THEN today ELSE today - 1
             end == date * Day + time - offset
  <1>1. today \in Int  BY DayAssumption
  <1>2. date \in Int  BY <1>1
  <1>3. end \in Int  BY <1>2, DayAssumption
  <1>4. Schedule(t, offset, time, cur) =
          [date |-> date, start |-> IF cur # NoCursor /\ cur < end THEN cur ELSE end - Day, end |-> end]
    BY DEF Schedule
  <1> HIDE DEF local, today, date, end
  <1> QED  BY <1>2, <1>3, <1>4, DayAssumption DEF Window

(* What the transaction of the cycle has drawn starts at or before the      *)
(* cursor of the user, for the cursor is its own to move.                   *)
DrawnFromCursor == \A u \in DOMAIN drawn :
    LET w == drawn[u][1] IN
    w.start = IF cursor[u] # NoCursor /\ cursor[u] < w.end THEN cursor[u] ELSE w.end - Day
OnlyGenerating == stage # "generate" => todo = {} /\ DOMAIN drawn = {}
OriginSet == \A u \in Users : cursor[u] = NoCursor <=> origin[u] = NoCursor

(* It has every QSL of its window that had been imported in time.           *)
DrawnComplete == \A u \in DOMAIN drawn :
    /\ drawn[u][1].date \in Dates
    /\ \A q \in DOMAIN rx :
         /\ QslOwner[q] = u /\ q \notin late
         /\ drawn[u][1].start < rx[q] /\ rx[q] <= drawn[u][1].end
         => <<q, rx[q]>> \in drawn[u][2]

(* A QSL is in a batch or announced, with the date it has.                  *)
InDigest(u, q) == \E d \in Dates : \/ batch[u][d] # NoBatch /\ <<q, rx[q]>> \in batch[u][d].qsls
                                   \/ <<q, rx[q]>> \in told[u][d]

Inv == TypeOk /\ OnlyGenerating /\ OriginSet /\ DrawnFromCursor /\ DrawnComplete /\ NothingSkipped

(* The invariant holds at the start.                                        *)
LEMMA InitInv == Init => Inv
  <1> SUFFICES ASSUME Init PROVE Inv  OBVIOUS
  <1>1. TypeOk
    BY ClockAssumption DEF Init, TypeOk, Nothing
  <1>2. OnlyGenerating /\ OriginSet /\ DrawnFromCursor /\ DrawnComplete /\ NothingSkipped
    BY DEF Init, OnlyGenerating, OriginSet, DrawnFromCursor, DrawnComplete, NothingSkipped, Nothing
  <1> QED  BY <1>1, <1>2 DEF Inv

(* A visit draws a window from the cursor, and all that is in it.           *)
LEMMA VisitDraws ==
    ASSUME TypeOk, NEW u \in Users, Visit(u)
    PROVE  \/ drawn' = drawn
           \/ \E w \in Window, Q \in SUBSET Entry :
                /\ w.start = IF cursor[u] # NoCursor /\ cursor[u] < w.end
                             THEN cursor[u] ELSE w.end - Day
                /\ w.date \in Dates /\ Q = InWindow(u, w)
                /\ drawn' = [v \in DOMAIN drawn \union {u} |-> IF v = u THEN <<w, Q>> ELSE drawn[v]]
  <1> DEFINE w == Schedule(now, zoneRead[u], at[u], cursor[u])
             Q == InWindow(u, w)
  <1>1. now \in Int /\ zoneRead[u] \in Int /\ at[u] \in Int /\ cursor[u] \in Int \union {NoCursor}
    <2>1. now \in FirstTick..LastTick /\ zoneRead[u] \in Offsets /\ at[u] \in Times
          /\ cursor[u] \in Int \union {NoCursor}
      BY DEF TypeOk
    <2>2. Day \in Int /\ at[u] \in 0..(Day - 1)  BY <2>1, DayAssumption
    <2>3. now \in Int  BY <2>1, ClockAssumption
    <2>4. at[u] \in Int  BY <2>2
    <2>5. zoneRead[u] \in Int  BY <2>1, ZoneAssumption
    <2> QED  BY <2>1, <2>3, <2>4, <2>5
  <1>2. w \in Window
        /\ w.start = IF cursor[u] # NoCursor /\ cursor[u] < w.end THEN cursor[u] ELSE w.end - Day
    BY <1>1, ScheduleWindow
  <1>3. Q \in SUBSET Entry  BY ClockAssumption DEF InWindow, TypeOk, Entry
  <1>5. w.date \in Dates
    <2>1. w.date = Schedule(now, zoneRead[u], at[u], NoCursor).date  BY DEF Schedule
    <2> HIDE DEF w
    <2> QED  BY <2>1, DateAssumption DEF TypeOk
  <1>4. \/ drawn' = drawn
        \/ drawn' = [v \in DOMAIN drawn \union {u} |-> IF v = u THEN <<w, Q>> ELSE drawn[v]]
    BY DEF Visit
  <1>6. Q = InWindow(u, w)  OBVIOUS
  <1> HIDE DEF w, Q
  <1> QED  BY <1>2, <1>3, <1>4, <1>5, <1>6

(* Every step leaves every variable in its type.                            *)
LEMMA NextType ==
    ASSUME Inv, Next
    PROVE  TypeOk' /\ OnlyGenerating'
  <1> USE ClockAssumption DEF settings, dbVars, runVars, history, bounds, OnlyGenerating
  <1>a. TypeOk /\ OnlyGenerating  BY DEF Inv
  <1> DEFINE P == TypeOk' /\ OnlyGenerating'
  <1>1. ASSUME Begin PROVE P
    BY <1>a, <1>1 DEF TypeOk, Begin, Nothing
  <1>2. ASSUME NEW u \in Users, Visit(u) PROVE P
    <2>1. UNCHANGED <<clock, settings, rx, dbVars, stage, now, zoneRead, history, bounds>>
          /\ todo' = todo \ {u} /\ u \in todo /\ stage = "generate"
      BY <1>2 DEF Visit
    <2>2. DOMAIN drawn' \subseteq Users \ todo' /\ \A v \in DOMAIN drawn' : drawn'[v] \in Window \X SUBSET Entry
      <3>1. CASE drawn' = drawn  BY <1>a, <2>1, <3>1 DEF TypeOk
      <3>2. CASE drawn' # drawn
        <4>1. PICK w \in Window, Q \in SUBSET Entry :
                /\ w.start = IF cursor[u] # NoCursor /\ cursor[u] < w.end
                             THEN cursor[u] ELSE w.end - Day
                /\ w.date \in Dates /\ Q = InWindow(u, w)
                /\ drawn' = [v \in DOMAIN drawn \union {u} |-> IF v = u THEN <<w, Q>> ELSE drawn[v]]
          BY <1>a, <1>2, <3>2, VisitDraws
        <4> QED  BY <1>a, <2>1, <4>1 DEF TypeOk
      <3> QED  BY <3>1, <3>2
    <2> QED  BY <1>a, <2>1, <2>2 DEF TypeOk
  <1>3. ASSUME Commit PROVE P
    <2>1. batch' \in [Users -> [Dates -> Batch \union {NoBatch}]]
      <3>1. ASSUME NEW u \in DOMAIN drawn
            PROVE  [start |-> drawn[u][1].start, end |-> drawn[u][1].end, qsls |-> drawn[u][2]] \in Batch
        BY <1>a DEF TypeOk, Window, Batch
      <3> QED  BY <1>a, <1>3, <3>1 DEF TypeOk, Commit
    <2>2. /\ cursor' \in [Users -> Int \union {NoCursor}]
          /\ origin' \in [Users -> Int \union {NoCursor}]
          /\ shed' \subseteq Qsls
      <3>1. \A u \in DOMAIN drawn : drawn[u][1].end \in Int /\ drawn[u][1].start \in Int
        BY <1>a DEF TypeOk, Window
      <3>3. \A u, d : Untold(u, d) \subseteq Qsls  BY <1>a DEF TypeOk, Untold
      <3>4. shed' \subseteq Qsls  BY <1>a, <1>3, <3>3 DEF TypeOk, Commit
      <3> QED  BY <1>a, <1>3, <3>1, <3>4 DEF TypeOk, Commit
    <2> QED  BY <1>a, <1>3, <2>1, <2>2 DEF TypeOk, Commit, Nothing
  <1>4. ASSUME Purge PROVE P
    <2>0. \A u, d : Untold(u, d) \subseteq Qsls  BY <1>a DEF TypeOk, Untold
    <2>1. shed' \subseteq Qsls  BY <1>a, <1>4, <2>0 DEF TypeOk, Purge
    <2> QED  BY <1>a, <1>4, <2>1 DEF TypeOk, Purge
  <1>5. ASSUME NEW u \in Users, NEW d \in Dates, Announce(u, d) PROVE P
    <2>1. batch[u][d].qsls \subseteq Entry  BY <1>a, <1>5 DEF TypeOk, Announce, Batch
    <2>2. told' \in [Users -> [Dates -> SUBSET Entry]]  BY <1>a, <1>5, <2>1 DEF TypeOk, Announce
    <2> QED  BY <1>a, <1>5, <2>2 DEF TypeOk, Announce
  <1>6. ASSUME Finish \/ Crash PROVE P
    BY <1>a, <1>6 DEF TypeOk, Finish, Crash, Nothing
  <1>7. ASSUME Tick PROVE P
    BY <1>a, <1>7 DEF TypeOk, Tick
  <1>8. ASSUME NEW q \in Qsls, NEW t \in FirstTick..LastTick, Import(q, t) PROVE P
    BY <1>a, <1>8 DEF TypeOk, Import, Change
  <1>9. ASSUME NEW u \in Users, Eligibility(u) PROVE P
    BY <1>a, <1>9 DEF TypeOk, Eligibility, Change
  <1>10. ASSUME NEW u \in Users, NEW o \in Offsets, NEW t \in Times, NEW on \in BOOLEAN,
                SaveSettings(u, o, t, on)
         PROVE  P
    BY <1>a, <1>10 DEF TypeOk, SaveSettings, Change
  <1> QED  BY <1>1, <1>2, <1>3, <1>4, <1>5, <1>6, <1>7, <1>8, <1>9, <1>10
           DEF Next, Cycle, World

(* The cursor moves only in a commit, to the end of a window drawn.         *)
LEMMA NextDrawn ==
    ASSUME Inv, Next
    PROVE  OriginSet' /\ DrawnFromCursor' /\ DrawnComplete'
  <1> USE DEF settings, dbVars, runVars, history, bounds
  <1>a. TypeOk /\ OnlyGenerating /\ OriginSet /\ DrawnFromCursor /\ DrawnComplete  BY DEF Inv
  <1> DEFINE P == OriginSet' /\ DrawnFromCursor' /\ DrawnComplete'
  <1>q. ASSUME UNCHANGED <<cursor, origin>>,
               DOMAIN drawn' = {} \/ UNCHANGED <<drawn, rx, late>>
        PROVE  P
    BY <1>a, <1>q DEF OriginSet, DrawnFromCursor, DrawnComplete
  <1>1. ASSUME NEW u \in Users, Visit(u) PROVE P
    <2>1. UNCHANGED <<cursor, origin, rx, late>>  BY <1>1 DEF Visit
    <2>2. OriginSet'  BY <1>a, <2>1 DEF OriginSet
    <2>3. DrawnFromCursor' /\ DrawnComplete'
      <3>1. CASE drawn' = drawn  BY <1>a, <2>1, <3>1 DEF DrawnFromCursor, DrawnComplete
      <3>2. CASE drawn' # drawn
        <4>1. PICK w \in Window, Q \in SUBSET Entry :
                /\ w.start = IF cursor[u] # NoCursor /\ cursor[u] < w.end
                             THEN cursor[u] ELSE w.end - Day
                /\ w.date \in Dates /\ Q = InWindow(u, w)
                /\ drawn' = [v \in DOMAIN drawn \union {u} |-> IF v = u THEN <<w, Q>> ELSE drawn[v]]
          BY <1>a, <1>1, <3>2, VisitDraws
        <4>2. DrawnFromCursor'  BY <1>a, <2>1, <4>1 DEF DrawnFromCursor
        <4>3. \A q \in DOMAIN rx : QslOwner[q] = u /\ w.start < rx[q] /\ rx[q] <= w.end
                                   => <<q, rx[q]>> \in Q
          BY <4>1 DEF InWindow
        <4>4. DrawnComplete'  BY <1>a, <2>1, <4>1, <4>3 DEF DrawnComplete
        <4> QED  BY <4>2, <4>4
      <3> QED  BY <3>1, <3>2
    <2> QED  BY <2>2, <2>3
  <1>2. ASSUME Commit PROVE P
    <2>1. DrawnFromCursor' /\ DrawnComplete'
      BY <1>2 DEF Commit, Nothing, DrawnFromCursor, DrawnComplete
    <2>2. ASSUME NEW u \in Users PROVE cursor'[u] = NoCursor <=> origin'[u] = NoCursor
      <3>1. CASE u \notin DOMAIN drawn  BY <1>2, <1>a, <3>1 DEF Commit, OriginSet
      <3>2. CASE u \in DOMAIN drawn
        <4>1. drawn[u][1].start \in Int /\ drawn[u][1].end \in Int
          BY <1>a, <3>2 DEF TypeOk, Window
        <4> QED  BY <1>2, <1>a, <3>2, <4>1, AbsentAssumption DEF Commit, OriginSet
      <3> QED  BY <3>1, <3>2
    <2> QED  BY <2>1, <2>2 DEF OriginSet
  <1>3. ASSUME Begin \/ Purge \/ Finish \/ Crash \/ Tick PROVE P
    <2>1. UNCHANGED <<cursor, origin>> /\ (DOMAIN drawn' = {} \/ UNCHANGED <<drawn, rx, late>>)
      BY <1>3 DEF Begin, Purge, Finish, Crash, Tick, Nothing
    <2> QED  BY <2>1, <1>q
  <1>4. ASSUME NEW u \in Users, NEW d \in Dates, Announce(u, d) PROVE P
    BY <1>q, <1>4 DEF Announce
  <1>5. ASSUME NEW q \in Qsls, NEW t \in FirstTick..LastTick, Import(q, t) PROVE P
    <2>1. UNCHANGED <<cursor, origin, drawn>>  BY <1>5 DEF Import
    <2>2. OriginSet' /\ DrawnFromCursor'  BY <1>a, <2>1 DEF OriginSet, DrawnFromCursor
    <2>3. DrawnComplete'
      <3> SUFFICES ASSUME NEW u \in DOMAIN drawn, NEW p \in DOMAIN rx', QslOwner[p] = u,
                          p \notin late', drawn[u][1].start < rx'[p], rx'[p] <= drawn[u][1].end
                   PROVE  <<p, rx'[p]>> \in drawn[u][2]
        BY <1>a, <2>1 DEF DrawnComplete
      <3>1. CASE p = q
        (* An import up to the end of the window is late.                   *)
        BY <1>5, <3>1 DEF Import, Drawn
      <3>2. CASE p # q
        <4>1. p \in DOMAIN rx /\ rx'[p] = rx[p] /\ p \notin late  BY <1>5, <3>2 DEF Import
        <4> QED  BY <1>a, <4>1 DEF DrawnComplete
      <3> QED  BY <3>1, <3>2
    <2> QED  BY <2>2, <2>3
  <1>6. ASSUME NEW u \in Users, Eligibility(u) PROVE P
    BY <1>q, <1>6 DEF Eligibility
  <1>7. ASSUME NEW u \in Users, NEW o \in Offsets, NEW t \in Times, NEW on \in BOOLEAN,
               SaveSettings(u, o, t, on)
        PROVE  P
    BY <1>q, <1>7 DEF SaveSettings
  <1> QED  BY <1>1, <1>2, <1>3, <1>4, <1>5, <1>6, <1>7 DEF Next, Cycle, World

(* No step leaves a QSL out of the digests.                                 *)
LEMMA NextSkips ==
    ASSUME Inv, Next
    PROVE  NothingSkipped'
  <1> USE DEF settings, dbVars, runVars, history, bounds
  <1>a. TypeOk /\ OriginSet /\ DrawnFromCursor /\ DrawnComplete /\ NothingSkipped  BY DEF Inv
  <1>b. \A q \in DOMAIN rx : q \in Qsls /\ QslOwner[q] \in Users /\ rx[q] \in Int
    BY <1>a, OwnerAssumption, ClockAssumption DEF TypeOk
  (* What is in a digest stays in one, and no cursor moves.                 *)
  <1>q. ASSUME UNCHANGED <<rx, cursor, origin>>,
               \A q \in DOMAIN rx : /\ q \notin shed' => q \notin shed
                                    /\ q \notin late' => q \notin late \/ ~Reached(QslOwner[q], rx[q]),
               \A q \in DOMAIN rx : InDigest(QslOwner[q], q) /\ q \notin shed'
                                       => InDigest(QslOwner[q], q)'
        PROVE  NothingSkipped'
    <2> SUFFICES ASSUME NEW q \in DOMAIN rx, Reached(QslOwner[q], rx[q])', q \notin late', q \notin shed',
                        origin[QslOwner[q]] < rx[q]
                 PROVE  InDigest(QslOwner[q], q)'
      BY <1>q DEF NothingSkipped, InDigest
    <2>1. Reached(QslOwner[q], rx[q])  BY <1>q DEF Reached
    <2>2. q \notin late \union shed  BY <1>q, <2>1
    <2>3. InDigest(QslOwner[q], q)  BY <1>a, <2>1, <2>2 DEF NothingSkipped, InDigest
    <2> QED  BY <1>q, <2>3
  <1>k. ASSUME UNCHANGED <<rx, cursor, origin, batch, told, shed, late>> PROVE NothingSkipped'
    BY <1>a, <1>k DEF NothingSkipped, Reached
  <1>1. ASSUME Begin \/ Finish \/ Tick \/ (\E u \in Users : Visit(u) \/ Eligibility(u))
        PROVE  NothingSkipped'
    BY <1>k, <1>1 DEF Begin, Finish, Tick, Visit, Eligibility
  <1>2. ASSUME Commit PROVE NothingSkipped'
    <2> SUFFICES ASSUME NEW q \in DOMAIN rx, NEW u \in Users, u = QslOwner[q],
                        Reached(u, rx[q])', origin'[u] < rx[q], q \notin late, q \notin shed'
                 PROVE  InDigest(u, q)'
      BY <1>2, <1>b DEF Commit, NothingSkipped, InDigest
    <2>0. UNCHANGED <<rx, told>>  BY <1>2 DEF Commit
    <2>1. CASE u \notin DOMAIN drawn
      <3>1. /\ cursor'[u] = cursor[u] /\ origin'[u] = origin[u] /\ shed \subseteq shed'
            /\ \A d \in Dates : batch'[u][d] = batch[u][d]
        BY <1>2, <2>1 DEF Commit
      <3>2. InDigest(u, q)  BY <1>a, <2>0, <3>1 DEF NothingSkipped, InDigest, Reached
      <3> QED  BY <2>0, <3>1, <3>2 DEF InDigest
    <2>2. CASE u \in DOMAIN drawn
      <3> DEFINE w == drawn[u][1]
      <3>1. /\ w.start \in Int /\ w.end \in Int /\ rx[q] \in Int
            /\ cursor[u] \in Int \union {NoCursor} /\ Day \in Int /\ Day > 0
        BY <1>a, <1>b, <2>2, DayAssumption DEF TypeOk, Window
      <3>2. /\ cursor'[u] = w.end
            /\ origin'[u] = IF origin[u] = NoCursor THEN w.start ELSE origin[u]
            /\ \A d \in Dates : d # w.date => batch'[u][d] = batch[u][d]
            /\ batch'[u][w.date] =
                 IF w.date \in Dates THEN [start |-> w.start, end |-> w.end, qsls |-> drawn[u][2]]
                                     ELSE batch'[u][w.date]
        BY <1>2, <2>2 DEF Commit
      <3>3. w.start = IF cursor[u] # NoCursor /\ cursor[u] < w.end THEN cursor[u] ELSE w.end - Day
        BY <1>a, <2>2 DEF DrawnFromCursor
      <3>4. w.date \in Dates  BY <1>a, <2>2 DEF DrawnComplete
      <3>5. rx[q] <= w.end  BY <2>0, <3>2 DEF Reached
      <3>6. CASE w.start < rx[q]
        <4>1. <<q, rx[q]>> \in drawn[u][2]  BY <1>a, <2>2, <3>5, <3>6 DEF DrawnComplete
        <4>2. batch'[u][w.date] \in Batch
          <5>1. w \in Window /\ drawn[u][2] \in SUBSET Entry  BY <1>a, <2>2 DEF TypeOk
          <5> QED  BY <3>2, <3>4, <5>1 DEF Window, Batch
        <4>3. batch'[u][w.date].qsls = drawn[u][2]  BY <3>2, <3>4
        <4> QED  BY <2>0, <3>4, <4>1, <4>2, <4>3, AbsentAssumption DEF InDigest
      <3>7. CASE ~(w.start < rx[q])
        (* It was reached before; the batch of the date loses it only to    *)
        (* the history.                                                     *)
        <4>1. Untold(u, w.date) \intersect {p \in DOMAIN rx : Outside(p, w)} \subseteq shed'
              /\ shed \subseteq shed'
          <5>1. shed' = shed \union UNION {{p \in Untold(v, drawn[v][1].date) : Outside(p, drawn[v][1])} :
                                            v \in DOMAIN drawn}
            BY <1>2 DEF Commit
          <5>2. \A p \in Untold(u, w.date) : Outside(p, w) => p \in shed'  BY <2>2, <5>1
          <5> QED  BY <5>1, <5>2
        <4>2. Outside(q, w)  BY <3>7 DEF Outside
        <4> HIDE DEF w
        <4>3. cursor[u] # NoCursor /\ rx[q] <= cursor[u] /\ origin'[u] = origin[u]
          <5>1. origin[u] # NoCursor  BY <3>2, <3>7
          <5>2. cursor[u] # NoCursor  BY <1>a, <5>1 DEF OriginSet
          <5>3. rx[q] <= w.start  BY <3>1, <3>7
          <5> QED  BY <3>1, <3>2, <3>3, <5>1, <5>2, <5>3
        <4>4. InDigest(u, q)
          BY <1>a, <4>1, <4>3 DEF NothingSkipped, InDigest, Reached
        <4>5. PICK d \in Dates : \/ batch[u][d] # NoBatch /\ <<q, rx[q]>> \in batch[u][d].qsls
                                 \/ <<q, rx[q]>> \in told[u][d]
          BY <4>4 DEF InDigest
        <4>6. CASE <<q, rx[q]>> \in told[u][d] \/ d # w.date
          BY <2>0, <3>2, <4>5, <4>6 DEF InDigest
        <4>7. CASE <<q, rx[q]>> \notin told[u][d] /\ d = w.date
          <5>1. q \in Untold(u, w.date)  BY <4>5, <4>7 DEF Untold
          <5> QED  BY <4>1, <4>2, <5>1
        <4> QED  BY <4>6, <4>7
      <3> QED  BY <3>6, <3>7
    <2> QED  BY <2>1, <2>2
  <1>3. ASSUME Purge PROVE NothingSkipped'
    <2>1. UNCHANGED <<rx, cursor, origin, told, late>> /\ shed \subseteq shed'  BY <1>3 DEF Purge
    <2>2. ASSUME NEW q \in DOMAIN rx, InDigest(QslOwner[q], q), q \notin shed'
          PROVE  InDigest(QslOwner[q], q)'
      <3>0. QslOwner[q] \in Users  BY <1>b
      <3>1. PICK d \in Dates :
              \/ batch[QslOwner[q]][d] # NoBatch /\ <<q, rx[q]>> \in batch[QslOwner[q]][d].qsls
              \/ <<q, rx[q]>> \in told[QslOwner[q]][d]
        BY <2>2 DEF InDigest
      <3>2. CASE <<q, rx[q]>> \in told[QslOwner[q]][d]  BY <2>1, <3>2 DEF InDigest
      <3>3. CASE <<q, rx[q]>> \notin told[QslOwner[q]][d]
        <4>1. q \in Untold(QslOwner[q], d)  BY <3>1, <3>3 DEF Untold
        <4>2. ~Expired(d)  BY <1>3, <2>2, <3>0, <4>1 DEF Purge
        <4>3. batch'[QslOwner[q]][d] = batch[QslOwner[q]][d]  BY <1>3, <3>0, <4>2 DEF Purge
        <4> QED  BY <2>1, <3>1, <3>3, <4>3 DEF InDigest
      <3> QED  BY <3>2, <3>3
    <2> QED  BY <1>q, <2>1, <2>2
  <1>4. ASSUME NEW u \in Users, NEW d \in Dates, Announce(u, d) PROVE NothingSkipped'
    <2>1. UNCHANGED <<rx, cursor, origin, batch, late, shed>>  BY <1>4 DEF Announce
    <2>2. \A v \in Users, e \in Dates : told[v][e] \subseteq told'[v][e]
      BY <1>a, <1>4 DEF Announce, TypeOk
    <2>3. \A q \in DOMAIN rx : InDigest(QslOwner[q], q) => InDigest(QslOwner[q], q)'
      BY <1>b, <2>1, <2>2 DEF InDigest
    <2> QED  BY <1>q, <2>1, <2>3
  <1>5. ASSUME Crash PROVE NothingSkipped'
    <2>1. /\ UNCHANGED <<rx, cursor, origin, batch, told, shed>>
          /\ \A q \in DOMAIN rx : q \notin late' => q \notin late \/ ~Reached(QslOwner[q], rx[q])
      BY <1>5 DEF Crash
    <2>2. \A q \in DOMAIN rx : InDigest(QslOwner[q], q) => InDigest(QslOwner[q], q)'
      BY <2>1 DEF InDigest
    <2> QED  BY <1>q, <2>1, <2>2
  <1>6. ASSUME NEW q \in Qsls, NEW t \in FirstTick..LastTick, Import(q, t) PROVE NothingSkipped'
    <2>1. UNCHANGED <<cursor, origin, batch, told>>  BY <1>6 DEF Import
    <2> SUFFICES ASSUME NEW p \in DOMAIN rx', Reached(QslOwner[p], rx[p])', p \notin late',
                        p \notin shed', origin[QslOwner[p]] < rx'[p]
                 PROVE  InDigest(QslOwner[p], p)'
      BY <2>1 DEF NothingSkipped, InDigest
    <2>2. CASE p = q
      (* An import up to the cursor is late.                                *)
      BY <1>6, <2>1, <2>2 DEF Import, Reached
    <2>3. CASE p # q
      <3>1. p \in DOMAIN rx /\ rx'[p] = rx[p] /\ p \notin late \union shed
        BY <1>6, <2>3 DEF Import
      <3>2. Reached(QslOwner[p], rx[p])  BY <2>1, <3>1 DEF Reached
      <3>3. InDigest(QslOwner[p], p)  BY <1>a, <3>1, <3>2 DEF NothingSkipped, InDigest
      <3> QED  BY <2>1, <3>1, <3>3 DEF InDigest
    <2> QED  BY <2>2, <2>3
  <1>7. ASSUME NEW u \in Users, NEW o \in Offsets, NEW t \in Times, NEW on \in BOOLEAN,
               SaveSettings(u, o, t, on)
        PROVE  NothingSkipped'
    BY <1>k, <1>7 DEF SaveSettings
  <1> QED  BY <1>1, <1>2, <1>3, <1>4, <1>5, <1>6, <1>7 DEF Next, Cycle, World

(* Inv is inductive.                                                        *)
LEMMA NextInv == Inv /\ [Next]_vars => Inv'
  <1> SUFFICES ASSUME Inv, [Next]_vars PROVE Inv'  OBVIOUS
  <1>1. CASE Next  BY <1>1, NextType, NextDrawn, NextSkips DEF Inv
  <1>2. CASE UNCHANGED vars
    BY <1>2 DEF vars, settings, dbVars, runVars, history, bounds, Inv, TypeOk, OnlyGenerating,
                OriginSet, DrawnFromCursor, DrawnComplete, NothingSkipped, Reached
  <1> QED  BY <1>1, <1>2

(* Every variable stays in its type.                                        *)
THEOREM TypeCorrect == Spec => []TypeOk
  <1>1. Inv => TypeOk  BY DEF Inv
  <1> QED  BY InitInv, NextInv, <1>1, PTL DEF Spec

(* Over any changes of timezone, digest time and dates, pauses and killed   *)
(* cycles, a QSL imported in time of a date between the first window and the *)
(* cursor is in a batch or announced, unless its unannounced batch was given *)
(* another window or deleted.                                               *)
THEOREM NoGap == Spec => []NothingSkipped
  <1>1. Inv => NothingSkipped  BY DEF Inv
  <1> QED  BY InitInv, NextInv, <1>1, PTL DEF Spec

-----------------------------------------------------------------------------
(* From here on no user changes the timezone or the digest time, which may  *)
(* differ from user to user.                                                *)
Settled == zone' = zone /\ at' = at

(* When the digest of a date is due, by the clock of UTC.                   *)
EndOf(u, d) == d * Day + at[u] - zone[u]

(* The entries announced with a date or held for it, and the dates that have   *)
(* any or have a batch.                                                     *)
Held(u, d) == IF batch[u][d] = NoBatch THEN {} ELSE batch[u][d].qsls
Seen(u, d) == told[u][d] \union Held(u, d)
Known(u, d) == told[u][d] # {} \/ batch[u][d] # NoBatch

(* The cursor is the end of a date's window, and it is past.                *)
CursorIsPast == /\ now <= clock
                /\ \A u \in Users : cursor[u] # NoCursor =>
                     cursor[u] <= clock /\ (stage = "generate" => cursor[u] <= now)
CursorIsEnd == \A u \in Users : cursor[u] # NoCursor => \E c \in Int : cursor[u] = EndOf(u, c)

(* What the transaction has drawn ends with its date, not before the cursor.*)
DrawnWindow(u, w, Q) ==
    /\ w.end = EndOf(u, w.date) /\ w.end <= now
    /\ cursor[u] # NoCursor => cursor[u] <= w.end
    /\ \A p \in Q : w.start < p[2] /\ p[2] <= w.end
DrawnIsDue == \A u \in DOMAIN drawn : DrawnWindow(u, drawn[u][1], drawn[u][2])

(* No date is known beyond the cursor.                                      *)
KnownBehind == \A u \in Users, d \in Dates :
    Known(u, d) => cursor[u] # NoCursor /\ EndOf(u, d) <= cursor[u]
BatchEnds == \A u \in Users, d \in Dates :
    batch[u][d] # NoBatch => batch[u][d].end = EndOf(u, d)

(* A QSL of a date came by its end, and after the end of every date known   *)
(* before it: by the date it had when it was read.                          *)
SeenInTime(u, d) == \A p \in Seen(u, d) :
    /\ p[2] <= EndOf(u, d)
    /\ \A e \in Dates : e < d /\ Known(u, e) => EndOf(u, e) < p[2]
SeenOnce == \A u \in Users, d \in Dates : SeenInTime(u, d)

Orderly == /\ zoneRead = zone
           /\ CursorIsPast /\ CursorIsEnd /\ DrawnIsDue /\ KnownBehind /\ BatchEnds /\ SeenOnce
SettledInv == Inv /\ Orderly

(* Whole days do not overlap.                                               *)
LEMMA DaysApart ==
    ASSUME NEW m \in Int, NEW n \in Int, m < n
    PROVE  (m + 1) * Day <= n * Day
  <1>1. Day \in Int /\ Day > 0 /\ n - m - 1 \in Int /\ n - m - 1 >= 0  BY DayAssumption
  <1>2. (n - m - 1) * Day >= 0  BY <1>1, Z3
  <1>3. (n - m - 1) * Day = n * Day - (m + 1) * Day  BY <1>1, Z3
  <1>4. n * Day \in Int /\ (m + 1) * Day \in Int  BY <1>1
  <1> QED  BY <1>2, <1>3, <1>4

(* A product of a day and its successor, spelled out for the provers.       *)
LEMMA NextDay ==
    ASSUME NEW m \in Int
    PROVE  m * Day \in Int /\ (m + 1) * Day = m * Day + Day /\ (m - 1) * Day = m * Day - Day
  <1>1. Day \in Int  BY DayAssumption
  <1> QED  BY <1>1, Z3

(* The window drawn at a time is that of the last digest due by then.       *)
LEMMA ScheduleEnd ==
    ASSUME NEW t \in Int, NEW offset \in Int, NEW time \in 0..(Day - 1),
           NEW cur \in Int \union {NoCursor}
    PROVE  LET w == Schedule(t, offset, time, cur) IN
           /\ w.date \in Int /\ w.date * Day \in Int
           /\ w.end = w.date * Day + time - offset
           /\ w.end <= t /\ t < w.end + Day
  <1> DEFINE local == t + offset
             today == local \div Day
             date == IF local >= today * Day + time THEN today ELSE today - 1
             end == date * Day + time - offset
             start == IF cur # NoCursor /\ cur < end THEN cur ELSE end - Day
  <1>1. Day \in Int /\ Day > 0 /\ local \in Int /\ time \in Int /\ 0 <= time /\ time < Day
    BY DayAssumption
  <1>2. today \in Int  BY <1>1
  <1>3. today * Day <= local /\ local < (today + 1) * Day
    <2>1. local = Day * (local \div Day) + (local % Day) /\ local % Day \in 0..(Day - 1)
      BY <1>1, Z3
    <2> HIDE DEF local
    <2> QED  BY <1>1, <1>2, <2>1, Z3
  <1>4. /\ today * Day \in Int /\ (today + 1) * Day = today * Day + Day
        /\ (today - 1) * Day = today * Day - Day
    BY <1>2, NextDay
  <1>5. date \in Int /\ date * Day \in Int  BY <1>1, <1>2, <1>4
  <1>6. end <= t /\ t < end + Day
    <2>1. CASE local >= today * Day + time
      BY <1>1, <1>3, <1>4, <2>1
    <2>2. CASE ~(local >= today * Day + time)
      BY <1>1, <1>3, <1>4, <2>2
    <2> QED  BY <2>1, <2>2
  <1>7. Schedule(t, offset, time, cur) = [date |-> date, start |-> start, end |-> end]
    BY DEF Schedule
  <1> HIDE DEF date, start, end
  <1>8. end = date * Day + time - offset  BY DEF end
  <1> QED  BY <1>5, <1>6, <1>7, <1>8

(* The settings of a user are numbers.                                      *)
LEMMA SettingsFacts ==
    ASSUME TypeOk, NEW u \in Users
    PROVE  /\ at[u] \in 0..(Day - 1) /\ at[u] \in Int
           /\ zone[u] \in Int /\ zoneRead[u] \in Int
           /\ now \in Int /\ clock \in Int
           /\ cursor[u] \in Int \union {NoCursor}
           /\ Day \in Int /\ Day > 0
  <1>1. at[u] \in Times /\ zone[u] \in Offsets /\ zoneRead[u] \in Offsets
        /\ now \in FirstTick..LastTick /\ clock \in FirstTick..LastTick
        /\ cursor[u] \in Int \union {NoCursor}
    BY DEF TypeOk
  <1>6. Day \in Int /\ Day > 0  BY DayAssumption
  <1>2. at[u] \in 0..(Day - 1)  BY <1>1, DayAssumption
  <1>3. at[u] \in Int  BY <1>2, <1>6
  <1>4. zone[u] \in Int /\ zoneRead[u] \in Int  BY <1>1, ZoneAssumption
  <1>5. now \in Int /\ clock \in Int  BY <1>1, ClockAssumption
  <1> QED  BY <1>1, <1>2, <1>3, <1>4, <1>5, <1>6

(* The ends of a user's dates are a day apart.                              *)
LEMMA EndsApart ==
    ASSUME TypeOk, NEW u \in Users, NEW c \in Int, NEW d \in Int
    PROVE  /\ EndOf(u, c) \in Int /\ EndOf(u, d) \in Int
           /\ c < d => EndOf(u, c) + Day <= EndOf(u, d)
  <1>1. at[u] \in Int /\ zone[u] \in Int /\ Day \in Int /\ Day > 0  BY SettingsFacts
  <1>2. c * Day \in Int /\ (c + 1) * Day = c * Day + Day  BY NextDay
  <1>3. d * Day \in Int  BY NextDay
  <1>4. c < d => (c + 1) * Day <= d * Day  BY DaysApart
  <1> QED  BY <1>1, <1>2, <1>3, <1>4 DEF EndOf

(* A visit draws the window of the last date due, which the cursor has not  *)
(* passed.                                                                  *)
LEMMA VisitDrawsDue ==
    ASSUME SettledInv, NEW u \in Users, Visit(u)
    PROVE  \/ drawn' = drawn
           \/ \E w, Q : /\ DrawnWindow(u, w, Q)
                        /\ drawn' = [v \in DOMAIN drawn \union {u} |->
                                       IF v = u THEN <<w, Q>> ELSE drawn[v]]
  <1> DEFINE w == Schedule(now, zoneRead[u], at[u], cursor[u])
             Q == InWindow(u, w)
  <1>a. TypeOk /\ Orderly  BY DEF SettledInv, Inv
  <1>1. SUFFICES ASSUME drawn' # drawn PROVE DrawnWindow(u, w, Q)
    BY DEF Visit
  <1>2. w.end <= now /\ stage = "generate"  BY <1>1 DEF Visit
  <1>3. w.date \in Int /\ w.end = EndOf(u, w.date) /\ now < w.end + Day
    <2>1. zoneRead[u] = zone[u]  BY <1>a DEF Orderly
    <2> HIDE DEF w
    <2>2. /\ w.date \in Int /\ w.date * Day \in Int
          /\ w.end = w.date * Day + at[u] - zoneRead[u] /\ now < w.end + Day
      BY <1>a, SettingsFacts, ScheduleEnd DEF w
    <2> QED  BY <2>1, <2>2 DEF EndOf
  <1> HIDE DEF w
  <1>4. ASSUME cursor[u] # NoCursor PROVE cursor[u] <= w.end
    <2>1. PICK c \in Int : cursor[u] = EndOf(u, c)
      BY <1>4, <1>a DEF Orderly, CursorIsEnd
    <2>2. cursor[u] <= now  BY <1>4, <1>2, <1>a DEF Orderly, CursorIsPast
    <2>3. EndOf(u, c) \in Int /\ EndOf(u, w.date) \in Int
          /\ (w.date < c => EndOf(u, w.date) + Day <= EndOf(u, c))
          /\ (c < w.date => EndOf(u, c) + Day <= EndOf(u, w.date))
      BY <1>3, <1>a, EndsApart
    <2>4. now \in Int /\ Day \in Int /\ Day > 0  BY <1>a, SettingsFacts
    <2> QED  BY <1>3, <2>1, <2>2, <2>3, <2>4
  <1>5. \A p \in Q : w.start < p[2] /\ p[2] <= w.end
    BY DEF InWindow
  <1> QED  BY <1>2, <1>3, <1>4, <1>5 DEF DrawnWindow

(* Nothing that forgets batches, announces what they hold or imports more   *)
(* disturbs what is known of the dates.                                     *)
LEMMA DatesKept ==
    ASSUME SettledInv, Settled, cursor' = cursor,
           \A u \in Users, d \in Dates : /\ batch'[u][d] \in {batch[u][d], NoBatch}
                                         /\ told'[u][d] \subseteq Seen(u, d)
    PROVE  CursorIsEnd' /\ KnownBehind' /\ BatchEnds' /\ SeenOnce'
  <1>a. CursorIsEnd /\ KnownBehind /\ BatchEnds /\ SeenOnce  BY DEF SettledInv, Orderly
  <1>1. \A u, d : EndOf(u, d)' = EndOf(u, d)  BY DEF EndOf, Settled
  <1>2. \A u \in Users, d \in Dates : Known(u, d)' => Known(u, d)
    BY DEF Known, Seen, Held
  <1>3. \A u \in Users, d \in Dates : Seen(u, d)' \subseteq Seen(u, d)
    BY DEF Seen, Held
  <1>4. CursorIsEnd'  BY <1>a, <1>1 DEF CursorIsEnd
  <1>5. KnownBehind'  BY <1>a, <1>1, <1>2 DEF KnownBehind
  <1>6. BatchEnds'  BY <1>a, <1>1 DEF BatchEnds
  <1>7. SeenOnce'
    <2> SUFFICES ASSUME NEW u \in Users, NEW d \in Dates, NEW p \in Seen(u, d)'
                 PROVE  /\ p[2] <= EndOf(u, d)'
                        /\ \A e \in Dates : e < d /\ Known(u, e)' => EndOf(u, e)' < p[2]
      BY DEF SeenOnce, SeenInTime
    <2>1. p \in Seen(u, d)  BY <1>3
    <2>2. /\ p[2] <= EndOf(u, d)
          /\ \A e \in Dates : e < d /\ Known(u, e) => EndOf(u, e) < p[2]
      BY <1>a, <2>1 DEF SeenOnce, SeenInTime
    <2> QED  BY <1>1, <1>2, <2>2
  <1> QED  BY <1>4, <1>5, <1>6, <1>7

(* A commit turns the windows drawn into batches and moves the cursors to   *)
(* their ends: a new date is later than every date known, and a date        *)
(* generated again keeps the QSLs after the end of the date before.         *)
LEMMA CommitOrderly ==
    ASSUME SettledInv, Settled, Commit
    PROVE  CursorIsEnd' /\ KnownBehind' /\ BatchEnds' /\ SeenOnce'
  <1>a. /\ TypeOk /\ DrawnFromCursor
        /\ CursorIsEnd /\ DrawnIsDue /\ KnownBehind /\ BatchEnds /\ SeenOnce
    BY DEF SettledInv, Orderly, Inv
  <1>b. \A u, d : EndOf(u, d)' = EndOf(u, d)  BY DEF EndOf, Settled
  <1>c. told' = told  BY DEF Commit
  <1>d. \A u \in Users, c \in Int, d \in Int :
          /\ EndOf(u, c) \in Int
          /\ c < d => EndOf(u, c) + Day <= EndOf(u, d)
    BY <1>a, EndsApart
  <1>e. Dates \subseteq Int /\ Day \in Int /\ Day > 0  BY ClockAssumption, DayAssumption
  <1> DEFINE D(u) == drawn[u][1].date
  <1>1. ASSUME NEW u \in Users, u \notin DOMAIN drawn
        PROVE  cursor'[u] = cursor[u] /\ \A d \in Dates : batch'[u][d] = batch[u][d]
    BY <1>1 DEF Commit
  <1>2. ASSUME NEW u \in Users, NEW d \in Dates, u \in DOMAIN drawn, d # D(u)
        PROVE  batch'[u][d] = batch[u][d]
    BY <1>2 DEF Commit
  <1>3. ASSUME NEW u \in DOMAIN drawn
        PROVE  /\ u \in Users /\ D(u) \in Int
               /\ drawn[u][1].end \in Int /\ drawn[u][1].start \in Int
               /\ cursor'[u] = drawn[u][1].end
               /\ drawn[u][1].end = EndOf(u, D(u))
               /\ cursor[u] \in Int \union {NoCursor}
               /\ cursor[u] # NoCursor => cursor[u] <= drawn[u][1].end
               /\ \A p \in drawn[u][2] : /\ p[2] \in Int
                                         /\ drawn[u][1].start < p[2]
                                         /\ p[2] <= drawn[u][1].end
    <2>1. u \in Users /\ drawn[u] \in Window \X SUBSET Entry  BY <1>a DEF TypeOk
    <2>2. DrawnWindow(u, drawn[u][1], drawn[u][2])  BY <1>a DEF DrawnIsDue
    <2>3. cursor'[u] = drawn[u][1].end  BY <2>1 DEF Commit
    <2>4. \A p \in drawn[u][2] : p[2] \in Int  BY <2>1 DEF Entry
    <2>5. cursor[u] \in Int \union {NoCursor}  BY <1>a, <2>1 DEF TypeOk
    <2> QED  BY <2>1, <2>2, <2>3, <2>4, <2>5 DEF DrawnWindow, Window
  <1>4. ASSUME NEW u \in DOMAIN drawn, D(u) \in Dates
        PROVE  /\ batch'[u][D(u)].start = drawn[u][1].start
               /\ batch'[u][D(u)].end = drawn[u][1].end
               /\ batch'[u][D(u)].qsls = drawn[u][2]
    BY <1>3, <1>4 DEF Commit
  <1> HIDE DEF D
  <1>5. CursorIsEnd'
    <2> SUFFICES ASSUME NEW u \in Users, cursor'[u] # NoCursor
                 PROVE  \E c \in Int : cursor'[u] = EndOf(u, c)
      BY <1>b DEF CursorIsEnd
    <2>1. CASE u \in DOMAIN drawn  BY <1>3, <2>1
    <2>2. CASE u \notin DOMAIN drawn  BY <1>1, <1>a, <2>2 DEF CursorIsEnd
    <2> QED  BY <2>1, <2>2
  <1>6. BatchEnds'
    <2> SUFFICES ASSUME NEW u \in Users, NEW d \in Dates, batch'[u][d] # NoBatch
                 PROVE  batch'[u][d].end = EndOf(u, d)
      BY <1>b DEF BatchEnds
    <2>1. CASE u \in DOMAIN drawn /\ d = D(u)
      <3>1. batch'[u][d].end = drawn[u][1].end  BY <1>4, <2>1
      <3> QED  BY <1>3, <2>1, <3>1
    <2>2. CASE ~(u \in DOMAIN drawn /\ d = D(u))
      <3>1. batch'[u][d] = batch[u][d]  BY <1>1, <1>2, <2>2
      <3> QED  BY <1>a, <3>1 DEF BatchEnds
    <2> QED  BY <2>1, <2>2
  <1>7. ASSUME NEW u \in Users, NEW d \in Dates, ~(u \in DOMAIN drawn /\ d = D(u))
        PROVE  Known(u, d)' = Known(u, d) /\ Seen(u, d)' = Seen(u, d)
    <2>1. batch'[u][d] = batch[u][d]  BY <1>1, <1>2, <1>7
    <2> QED  BY <1>c, <2>1 DEF Known, Seen, Held
  <1>8. ASSUME NEW u \in Users, NEW d \in Dates, Known(u, d)
        PROVE  /\ cursor[u] \in Int /\ cursor'[u] \in Int
               /\ cursor'[u] # NoCursor
               /\ EndOf(u, d) <= cursor[u] /\ EndOf(u, d) <= cursor'[u]
               /\ u \in DOMAIN drawn => d <= D(u)
    <2>1. cursor[u] \in Int /\ EndOf(u, d) <= cursor[u] /\ EndOf(u, d) \in Int
      <3>1. cursor[u] # NoCursor /\ EndOf(u, d) <= cursor[u]
        BY <1>a, <1>8 DEF KnownBehind
      <3>2. cursor[u] \in Int \union {NoCursor}  BY <1>a DEF TypeOk
      <3> QED  BY <1>d, <1>e, <3>1, <3>2
    <2>2. CASE u \in DOMAIN drawn
      <3>1. cursor[u] <= drawn[u][1].end /\ cursor'[u] = drawn[u][1].end /\ drawn[u][1].end \in Int
            /\ D(u) \in Int /\ drawn[u][1].end = EndOf(u, D(u))
        BY <1>3, <2>1, <2>2, AbsentAssumption
      <3>2. EndOf(u, d) <= EndOf(u, D(u))  BY <2>1, <3>1
      <3>3. D(u) < d => EndOf(u, D(u)) + Day <= EndOf(u, d)  BY <1>d, <1>e, <3>1
      <3>4. d <= D(u)  BY <1>d, <1>e, <3>1, <3>2, <3>3
      <3> QED  BY <2>1, <3>1, <3>4, AbsentAssumption
    <2>3. CASE u \notin DOMAIN drawn  BY <1>1, <2>1, <2>3, AbsentAssumption
    <2> QED  BY <2>2, <2>3
  <1>9. KnownBehind'
    <2> SUFFICES ASSUME NEW u \in Users, NEW d \in Dates, Known(u, d)'
                 PROVE  cursor'[u] # NoCursor /\ EndOf(u, d) <= cursor'[u]
      BY <1>b DEF KnownBehind
    <2>1. CASE u \in DOMAIN drawn /\ d = D(u)
      <3>1. cursor'[u] \in Int /\ cursor'[u] = EndOf(u, d)  BY <1>3, <2>1
      <3> QED  BY <3>1, AbsentAssumption
    <2>2. CASE ~(u \in DOMAIN drawn /\ d = D(u))  BY <1>7, <1>8, <2>2
    <2> QED  BY <2>1, <2>2
  <1>10. SeenOnce'
    <2> SUFFICES ASSUME NEW u \in Users, NEW d \in Dates, NEW p \in Seen(u, d)'
                 PROVE  /\ p[2] <= EndOf(u, d)
                        /\ \A e \in Dates : e < d /\ Known(u, e)' => EndOf(u, e) < p[2]
      BY <1>b, <1>c DEF SeenOnce, SeenInTime
    <2>1. CASE p \in Seen(u, d)
      <3>1. Known(u, d)  BY <2>1 DEF Known, Seen, Held
      <3>2. /\ p[2] <= EndOf(u, d)
            /\ \A e \in Dates : e < d /\ Known(u, e) => EndOf(u, e) < p[2]
        BY <1>a, <2>1 DEF SeenOnce, SeenInTime
      <3>3. \A e \in Dates : e < d /\ Known(u, e)' => Known(u, e)
        (* The date just drawn is not before d.                             *)
        <4> SUFFICES ASSUME NEW e \in Dates, e < d, Known(u, e)' PROVE Known(u, e)  OBVIOUS
        <4>1. CASE u \in DOMAIN drawn /\ e = D(u)  BY <1>8, <1>e, <3>1, <4>1
        <4>2. CASE ~(u \in DOMAIN drawn /\ e = D(u))  BY <1>7, <4>2
        <4> QED  BY <4>1, <4>2
      <3> QED  BY <3>2, <3>3
    <2>2. CASE p \notin Seen(u, d)
      <3>1. u \in DOMAIN drawn /\ d = D(u)  BY <1>7, <2>2
      <3>2. p \in drawn[u][2]
        <4>1. batch'[u][d].qsls = drawn[u][2]  BY <1>4, <3>1
        <4>2. p \in Held(u, d)'  BY <1>c, <2>2 DEF Seen
        <4> QED  BY <4>1, <4>2 DEF Held
      <3>3. /\ p[2] \in Int /\ drawn[u][1].start < p[2] /\ p[2] <= drawn[u][1].end
            /\ drawn[u][1].end = EndOf(u, d) /\ drawn[u][1].end \in Int /\ drawn[u][1].start \in Int
        BY <1>3, <3>1, <3>2
      <3>4. ASSUME NEW e \in Dates, e < d, Known(u, e)'
            PROVE  EndOf(u, e) < p[2]
        <4>1. Known(u, e)  BY <1>7, <1>e, <3>1, <3>4
        <4>2. cursor[u] \in Int /\ EndOf(u, e) <= cursor[u] /\ EndOf(u, e) \in Int
          BY <1>8, <1>d, <1>e, <4>1
        <4>3. drawn[u][1].start = IF cursor[u] # NoCursor /\ cursor[u] < drawn[u][1].end
                                  THEN cursor[u] ELSE drawn[u][1].end - Day
          BY <1>a, <3>1 DEF DrawnFromCursor
        <4>4. EndOf(u, e) + Day <= EndOf(u, d)  BY <1>d, <1>e, <3>4
        <4> QED  BY <1>e, <3>3, <4>2, <4>3, <4>4, AbsentAssumption
      <3> QED  BY <3>3, <3>4
    <2> QED  BY <2>1, <2>2
  <1> QED  BY <1>5, <1>6, <1>9, <1>10

(* The rest of Orderly, action by action.                                   *)
LEMMA NextOrderly ==
    ASSUME SettledInv, Next, Settled
    PROVE  Orderly'
  <1> USE DEF settings, dbVars, runVars, history, bounds
  <1>a. TypeOk /\ OnlyGenerating /\ Orderly  BY DEF SettledInv, Inv
  <1>b. \A u, d : EndOf(u, d)' = EndOf(u, d)  BY DEF EndOf, Settled
  <1>c. now \in Int /\ clock \in Int /\ \A u \in Users : cursor[u] \in Int \union {NoCursor}
    BY <1>a, ClockAssumption DEF TypeOk
  <1> DEFINE Quiet == CursorIsEnd' /\ KnownBehind' /\ BatchEnds' /\ SeenOnce'
  <1>k. ASSUME cursor' = cursor, batch' = batch, told' = told PROVE Quiet
    BY SettledInv, <1>k, DatesKept DEF Settled, Seen
  <1>d. ASSUME DOMAIN drawn' = {} \/ UNCHANGED <<drawn, now, cursor>>
        PROVE  DrawnIsDue'
    BY <1>a, <1>b, <1>d DEF Orderly, DrawnIsDue, DrawnWindow
  <1>1. ASSUME Begin PROVE Orderly'
    <2>1. Quiet  BY <1>1, <1>k DEF Begin
    <2>2. DrawnIsDue'  BY <1>1, <1>d DEF Begin, Nothing
    <2>3. CursorIsPast'  BY <1>1, <1>a, <1>c DEF Begin, Orderly, CursorIsPast
    <2>4. zoneRead' = zone'  BY <1>1 DEF Begin
    <2> QED  BY <2>1, <2>2, <2>3, <2>4 DEF Orderly
  <1>2. ASSUME NEW u \in Users, Visit(u) PROVE Orderly'
    <2>1. /\ UNCHANGED <<clock, zone, now, zoneRead, stage, rx, cursor, batch, told>>
      BY <1>2 DEF Visit
    <2>2. Quiet  BY <2>1, <1>k
    <2>3. DrawnIsDue'
      <3>1. CASE drawn' = drawn  BY <2>1, <3>1, <1>d
      <3>2. CASE drawn' # drawn
        <4>1. PICK w, Q : /\ DrawnWindow(u, w, Q)
                          /\ drawn' = [v \in DOMAIN drawn \union {u} |->
                                         IF v = u THEN <<w, Q>> ELSE drawn[v]]
          BY <1>2, <3>2, VisitDrawsDue
        <4>2. \A v, x, P : DrawnWindow(v, x, P)' = DrawnWindow(v, x, P)
          BY <1>b, <2>1 DEF DrawnWindow
        <4> QED  BY <1>a, <4>1, <4>2 DEF Orderly, DrawnIsDue
      <3> QED  BY <3>1, <3>2
    <2>4. CursorIsPast'  BY <1>a, <2>1 DEF Orderly, CursorIsPast
    <2> QED  BY <1>a, <2>1, <2>2, <2>3, <2>4 DEF Orderly
  <1>3. ASSUME Commit PROVE Orderly'
    <2>1. Quiet  BY <1>3, CommitOrderly
    <2>2. DrawnIsDue'  BY <1>3, <1>d DEF Commit, Nothing
    <2>3. CursorIsPast'
      <3>1. now' = now /\ clock' = clock /\ stage' = "purge"  BY <1>3 DEF Commit
      <3> SUFFICES ASSUME NEW u \in Users, cursor'[u] # NoCursor PROVE cursor'[u] <= clock
        BY <1>a, <3>1 DEF Orderly, CursorIsPast
      <3>2. CASE u \in DOMAIN drawn
        <4>1. cursor'[u] = drawn[u][1].end  BY <1>3, <3>2 DEF Commit
        <4>2. drawn[u][1].end <= now  BY <1>a, <3>2 DEF Orderly, DrawnIsDue, DrawnWindow
        <4>3. drawn[u][1].end \in Int  BY <1>a, <3>2 DEF TypeOk, Window
        <4> QED  BY <1>a, <1>c, <4>1, <4>2, <4>3 DEF Orderly, CursorIsPast
      <3>3. CASE u \notin DOMAIN drawn
        BY <1>3, <1>a, <3>3 DEF Commit, Orderly, CursorIsPast
      <3> QED  BY <3>2, <3>3
    <2>4. zoneRead' = zone'  BY <1>3, <1>a DEF Commit, Orderly
    <2> QED  BY <2>1, <2>2, <2>3, <2>4 DEF Orderly
  <1>4. ASSUME Purge PROVE Orderly'
    <2>1. \A u \in Users, d \in Dates : batch'[u][d] \in {batch[u][d], NoBatch}
      BY <1>4 DEF Purge
    <2>2. Quiet  BY <1>4, <2>1, DatesKept DEF Purge, Seen
    <2>3. DrawnIsDue'  BY <1>4, <1>d DEF Purge
    <2>4. CursorIsPast' /\ zoneRead' = zone'
      BY <1>4, <1>a DEF Purge, Orderly, CursorIsPast
    <2> QED  BY <2>2, <2>3, <2>4 DEF Orderly
  <1>5. ASSUME NEW u \in Users, NEW d \in Dates, Announce(u, d) PROVE Orderly'
    <2>1. \A v \in Users, e \in Dates : told'[v][e] \subseteq Seen(v, e)
      BY <1>5, <1>a DEF Announce, Seen, Held, TypeOk
    <2>2. Quiet  BY <1>5, <2>1, DatesKept DEF Announce
    <2>3. DrawnIsDue'  BY <1>5, <1>d DEF Announce
    <2>4. CursorIsPast' /\ zoneRead' = zone'
      BY <1>5, <1>a DEF Announce, Orderly, CursorIsPast
    <2> QED  BY <2>2, <2>3, <2>4 DEF Orderly
  <1>6. ASSUME Finish \/ Crash PROVE Orderly'
    <2>1. Quiet  BY <1>6, <1>k DEF Finish, Crash
    <2>2. DrawnIsDue'  BY <1>6, <1>d DEF Finish, Crash, Nothing
    <2>3. CursorIsPast' /\ zoneRead' = zone'
      BY <1>6, <1>a DEF Finish, Crash, Orderly, CursorIsPast
    <2> QED  BY <2>1, <2>2, <2>3 DEF Orderly
  <1>7. ASSUME Tick PROVE Orderly'
    <2>1. Quiet  BY <1>7, <1>k DEF Tick
    <2>2. DrawnIsDue'  BY <1>7, <1>d DEF Tick
    <2>3. zoneRead' = zone'  BY <1>7, <1>a DEF Tick, Orderly
    <2>4. CursorIsPast'
      BY <1>7, <1>a, <1>c DEF Tick, Orderly, CursorIsPast
    <2> QED  BY <2>1, <2>2, <2>3, <2>4 DEF Orderly
  <1>8. ASSUME NEW q \in Qsls, NEW t \in FirstTick..LastTick, Import(q, t) PROVE Orderly'
    <2>2. Quiet  BY <1>8, <1>k DEF Import
    <2>3. DrawnIsDue'  BY <1>8, <1>d DEF Import
    <2>4. CursorIsPast' /\ zoneRead' = zone'
      BY <1>8, <1>a DEF Import, Orderly, CursorIsPast
    <2> QED  BY <2>2, <2>3, <2>4 DEF Orderly
  <1>9. ASSUME UNCHANGED <<clock, dbVars, runVars, history>> PROVE Orderly'
    <2>1. Quiet  BY <1>9, <1>k
    <2>2. DrawnIsDue'  BY <1>9, <1>d
    <2>3. CursorIsPast' /\ zoneRead' = zone'
      BY <1>9, <1>a DEF Orderly, CursorIsPast, Settled
    <2> QED  BY <2>1, <2>2, <2>3 DEF Orderly
  <1>10. ASSUME NEW u \in Users, Eligibility(u) PROVE Orderly'
    BY <1>9, <1>10 DEF Eligibility
  <1>11. ASSUME NEW u \in Users, NEW o \in Offsets, NEW t \in Times, NEW on \in BOOLEAN,
                SaveSettings(u, o, t, on)
         PROVE  Orderly'
    BY <1>9, <1>11 DEF SaveSettings
  <1> QED  BY <1>1, <1>2, <1>3, <1>4, <1>5, <1>6, <1>7, <1>8, <1>10, <1>11
           DEF Next, Cycle, World

(* SettledInv is inductive over steps that leave the settings alone.        *)
LEMMA InitSettled == Init => SettledInv
  <1> SUFFICES ASSUME Init PROVE SettledInv  OBVIOUS
  <1>1. Inv  BY InitInv
  <1>2. Orderly
    <2>1. \A u \in Users, d \in Dates : Seen(u, d) = {} /\ ~Known(u, d)
      BY DEF Init, Seen, Held, Known
    <2>2. DOMAIN drawn = {}  BY DEF Init, Nothing
    <2>3. CursorIsPast /\ CursorIsEnd /\ zoneRead = zone
      BY ClockAssumption DEF Init, CursorIsPast, CursorIsEnd
    <2>4. BatchEnds  BY DEF Init, BatchEnds
    <2> QED  BY <2>1, <2>2, <2>3, <2>4 DEF Orderly, DrawnIsDue, KnownBehind, SeenOnce, SeenInTime
  <1> QED  BY <1>1, <1>2 DEF SettledInv

LEMMA NextSettled == SettledInv /\ [Next]_vars /\ [Settled]_vars => SettledInv'
  <1> SUFFICES ASSUME SettledInv, [Next]_vars, [Settled]_vars PROVE SettledInv'  OBVIOUS
  <1>1. Inv'  BY NextInv DEF SettledInv
  <1>2. Orderly'
    <2>1. CASE Next /\ Settled  BY <2>1, NextOrderly
    <2>2. CASE UNCHANGED vars
      <3> USE <2>2 DEF vars, settings, dbVars, runVars, history, bounds, SettledInv, Orderly
      <3>1. Settled  BY DEF Settled
      <3>2. CursorIsEnd' /\ KnownBehind' /\ BatchEnds' /\ SeenOnce'
        BY <3>1, DatesKept DEF Seen
      <3>3. CursorIsPast' /\ zoneRead' = zone'  BY DEF CursorIsPast
      <3>4. DrawnIsDue'  BY DEF DrawnIsDue, DrawnWindow, EndOf
      <3> QED  BY <3>2, <3>3, <3>4
    <2> QED  BY <2>1, <2>2 DEF vars, settings
  <1> QED  BY <1>1, <1>2 DEF SettledInv

(* If no user changes the timezone or the digest time, no QSL is announced  *)
(* in two digests with the same date of its own: not over pauses, purges,   *)
(* late imports, imports that date it anew and back again, killed cycles or *)
(* batches generated again.                                                 *)
THEOREM EachQslOnce == Spec /\ [][Settled]_vars => []NoRepeat
  <1>1. SettledInv => NoRepeat
    <2>1. ASSUME SettledInv, NEW u \in Users, NEW d \in Dates, NEW e \in Dates, d < e,
                 NEW p \in told[u][d], p \in told[u][e]
          PROVE  FALSE
      <3>1. SeenInTime(u, d) /\ SeenInTime(u, e)  BY <2>1 DEF SettledInv, Orderly, SeenOnce
      <3>2. p[2] <= EndOf(u, d)  BY <3>1 DEF SeenInTime, Seen
      <3>3. EndOf(u, d) < p[2]
        BY <2>1, <3>1 DEF SeenInTime, Seen, Known
      <3>4. EndOf(u, d) \in Int  BY <2>1, EndsApart, ClockAssumption DEF SettledInv, Inv
      <3>5. p[2] \in Int  BY <2>1 DEF SettledInv, Inv, TypeOk, Entry
      <3> QED  BY <3>2, <3>3, <3>4, <3>5
    <2>2. \A d, e \in Dates : d # e => d < e \/ e < d  BY ClockAssumption
    <2> QED  BY <2>1, <2>2 DEF NoRepeat
  <1> QED  BY InitSettled, NextSettled, <1>1, PTL DEF Spec

(* If no user changes the timezone or the digest time, generating a one-day *)
(* digest again gives the same window: the cursor, which is its end, does   *)
(* not lie before the end.                                                  *)
THEOREM OneDayKept == Spec /\ [][Settled]_vars => OneDayWindowKept
  <1> DEFINE OneDay == \A u \in Users, d \in Dates :
               batch[u][d] # NoBatch /\ batch[u][d].end - batch[u][d].start = Day
                 => batch'[u][d] = NoBatch \/ ( batch'[u][d].start = batch[u][d].start
                                              /\ batch'[u][d].end = batch[u][d].end)
  <1>1. ASSUME SettledInv, Next PROVE OneDay
    <2> SUFFICES ASSUME NEW u \in Users, NEW d \in Dates, batch[u][d] # NoBatch,
                        batch[u][d].end - batch[u][d].start = Day,
                        batch'[u][d] # NoBatch, batch'[u][d] # batch[u][d]
                 PROVE  /\ batch'[u][d].start = batch[u][d].start
                        /\ batch'[u][d].end = batch[u][d].end
      OBVIOUS
    <2>a. TypeOk /\ DrawnFromCursor /\ DrawnIsDue /\ KnownBehind /\ BatchEnds
      BY <1>1 DEF SettledInv, Inv, Orderly
    <2>1. Commit \/ Purge
      BY <1>1 DEF Next, Cycle, World, Begin, Visit, Announce, Finish, Crash, Tick, Import,
                  Eligibility, SaveSettings, dbVars
    <2>2. Commit
      BY <2>1 DEF Purge
    <2> DEFINE w == drawn[u][1]
    <2>3. u \in DOMAIN drawn /\ w.date = d /\ batch'[u][d].start = w.start /\ batch'[u][d].end = w.end
      BY <2>2 DEF Commit
    <2>4. batch[u][d] \in Batch  BY <2>a DEF TypeOk
    <2>5. batch[u][d].end \in Int /\ batch[u][d].start \in Int  BY <2>4 DEF Batch
    <2>6. w.end = batch[u][d].end
      BY <2>a, <2>3 DEF DrawnIsDue, DrawnWindow, BatchEnds
    <2>7. cursor[u] # NoCursor /\ w.end <= cursor[u]
      BY <2>a, <2>6 DEF KnownBehind, Known, BatchEnds
    <2>8. cursor[u] \in Int  BY <2>a, <2>7 DEF TypeOk
    <2>9. w.start = w.end - Day
      BY <2>a, <2>3, <2>5, <2>6, <2>7, <2>8 DEF DrawnFromCursor
    <2> HIDE DEF w
    <2> QED  BY <2>3, <2>5, <2>6, <2>9, DayAssumption
  <1>2. SettledInv /\ [Next]_vars => [OneDay]_vars  BY <1>1
  <1> HIDE DEF OneDay
  <1>3. OneDayWindowKept <=> [][OneDay]_vars  BY DEF OneDayWindowKept, OneDay
  <1> QED  BY InitSettled, NextSettled, <1>2, <1>3, PTL DEF Spec

-----------------------------------------------------------------------------
(* No timezone is more than a day from UTC, and batches are not kept for a  *)
(* single day: west of UTC that day would be over too soon.                 *)
Earthly == (\A o \in Offsets : -Day <= o /\ o <= Day) /\ Retention # 1

(* West of UTC by a day at most, a day of the local date lags by at most 1. *)
LEMMA LocalDay ==
    ASSUME NEW t \in Int, NEW o \in Int, -Day <= o
    PROVE  t \div Day \in Int /\ (t + o) \div Day \in Int /\ (t \div Day) - 1 <= (t + o) \div Day
  <1> DEFINE m == t \div Day
             n == (t + o) \div Day
  <1>1. Day \in Int /\ Day > 0  BY DayAssumption
  <1>2. m \in Int /\ n \in Int  BY <1>1
  <1>3. m * Day <= t /\ t + o < (n + 1) * Day
    <2>1. t = Day * (t \div Day) + (t % Day) /\ t % Day \in 0..(Day - 1)
      BY <1>1, Z3
    <2>2. t + o = Day * ((t + o) \div Day) + ((t + o) % Day) /\ (t + o) % Day \in 0..(Day - 1)
      BY <1>1, Z3
    <2>3. m * Day <= t  BY <1>1, <2>1, Z3
    <2>4. t + o < (n + 1) * Day  BY <1>1, <2>2, Z3
    <2> QED  BY <2>3, <2>4
  <1> HIDE DEF m, n
  <1>4. SUFFICES ASSUME n < m - 1 PROVE FALSE
    BY <1>2 DEF m, n
  <1>5. /\ (m - 1) * Day = m * Day - Day /\ m * Day \in Int /\ (n + 1) * Day \in Int
        /\ (n + 1) * Day <= (m - 1) * Day
    <2>1. n + 1 \in Int /\ m - 1 \in Int /\ n + 2 <= m /\ (n + 1) + 1 = n + 2  BY <1>2, <1>4
    <2>2. (n + 1) * Day = n * Day + Day /\ n * Day \in Int  BY <1>2, NextDay
    <2>3. (m - 1) * Day = m * Day - Day /\ m * Day \in Int  BY <1>2, NextDay
    <2>4. (n + 1) * Day <= (m - 1) * Day  BY <1>2, <1>4, <2>1, DaysApart
    <2> QED  BY <1>1, <2>2, <2>3, <2>4
  <1> QED  BY <1>1, <1>3, <1>5

(* No purge deletes the batch of the date that is due.                      *)
THEOREM DueIsSpared == Earthly => (Spec => PurgeSparesDue)
  <1> DEFINE Spares == \A u \in Users, d \in Dates :
               batch[u][d] # NoBatch /\ batch'[u][d] = NoBatch => d # DueDate(u)
  <1>1. ASSUME Earthly, Inv, Next PROVE Spares
    <2> SUFFICES ASSUME NEW u \in Users, NEW d \in Dates,
                        batch[u][d] # NoBatch, batch'[u][d] = NoBatch
                 PROVE  d # DueDate(u)
      OBVIOUS
    <2>a. TypeOk  BY <1>1 DEF Inv
    <2>1. Commit \/ Purge
      BY <1>1 DEF Next, Cycle, World, Begin, Visit, Announce, Finish, Crash, Tick, Import,
                  Eligibility, SaveSettings, dbVars
    <2>2. Purge
      <3>1. ASSUME Commit PROVE batch'[u][d] # NoBatch
        <4>1. CASE u \in DOMAIN drawn /\ drawn[u][1].date = d
          <5>1. drawn[u][1] \in Window /\ drawn[u][2] \in SUBSET Entry
            BY <2>a, <4>1 DEF TypeOk
          <5>2. batch'[u][d] \in Batch
            BY <3>1, <4>1, <5>1 DEF Commit, Window, Batch
          <5> QED  BY <5>2, AbsentAssumption
        <4>2. CASE ~(u \in DOMAIN drawn /\ drawn[u][1].date = d)
          BY <3>1, <4>2 DEF Commit
        <4> QED  BY <4>1, <4>2
      <3> QED  BY <2>1, <3>1
    <2>3. Retention > 0 /\ d < (clock \div Day) - Retention
      BY <2>2 DEF Purge, Expired, Cutoff
    <2>4. clock \in Int /\ zone[u] \in Int /\ at[u] \in Int /\ -Day <= zone[u]
      BY <1>1, <2>a, SettingsFacts DEF TypeOk, Earthly
    <2>5. /\ clock \div Day \in Int /\ (clock + zone[u]) \div Day \in Int
          /\ (clock \div Day) - 1 <= (clock + zone[u]) \div Day
      BY <2>4, LocalDay
    <2>6. DueDate(u) \in {(clock + zone[u]) \div Day, ((clock + zone[u]) \div Day) - 1}
      BY DEF DueDate, Schedule
    <2>7. Retention \in Nat /\ Retention # 1 /\ d \in Int  BY <1>1, ClockAssumption DEF Earthly
    <2> QED  BY <2>3, <2>5, <2>6, <2>7
  <1>2. Earthly /\ Inv /\ [Next]_vars => [Spares]_vars  BY <1>1
  <1> HIDE DEF Spares
  <1>3. PurgeSparesDue <=> [][Spares]_vars  BY DEF PurgeSparesDue, Spares
  <1>4. ASSUME Earthly PROVE Spec => PurgeSparesDue
    <2>1. Inv /\ [Next]_vars => [Spares]_vars  BY <1>2, <1>4
    <2> QED  BY InitInv, NextInv, <1>3, <2>1, PTL DEF Spec
  <1> QED  BY <1>4
=============================================================================
