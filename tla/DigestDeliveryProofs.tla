------------------------ MODULE DigestDeliveryProofs ------------------------
(***************************************************************************)
(* Proofs about DigestDelivery, for every set of runners, users, batches   *)
(* and endpoints and every bound.                                          *)
(*                                                                         *)
(* The first half holds whatever dispatches; the second is what flock      *)
(* gives: with no delivery job in the web processes (Jobs = {}) there is   *)
(* one dispatcher at a time, and a batch is announced once.                *)
(***************************************************************************)
EXTENDS DigestDelivery, TLAPS

Pcs == {"idle", "generate", "purge", "select", "next", "push", "flush", "email", "commit"}

(* What the chain of push conditions yields is one of its branches.         *)
LEMMA PushPlanType ==
    ASSUME NEW c \in Config, NEW b \in Batches
    PROVE  PushPlan(c, b) \in Plans \ {"empty_digest"}
  BY DEF PushPlan, Plans

(* An upsert yields a row of the table, or leaves none where none was.      *)
LEMMA MergeType ==
    ASSUME NEW base \in Row \union {NoRow}, NEW new \in Row \union {NoRow},
           NEW cur \in Row \union {NoRow}, base # NoRow /\ new # base => cur # NoRow
    PROVE  Merge(base, new, cur) \in Row \union {NoRow}
  <1>1. CASE new = NoRow \/ new = base  BY <1>1 DEF Merge
  <1>2. CASE ~(new = NoRow \/ new = base) /\ base = NoRow  BY <1>2 DEF Merge
  <1>3. CASE ~(new = NoRow \/ new = base) /\ base # NoRow
    <2>1. new \in Row /\ base \in Row /\ cur \in Row  BY <1>3
    <2>2. Merge(base, new, cur) =
            [column \in {"status", "code"} |->
               IF new[column] # base[column] THEN new[column] ELSE cur[column]]
      BY <1>3 DEF Merge
    <2> QED  BY <2>1, <2>2 DEF Row
  <1> QED  BY <1>1, <1>2, <1>3

(* An upsert never removes a row.                                           *)
LEMMA MergeRow ==
    ASSUME NEW base \in Row \union {NoRow}, NEW new \in Row \union {NoRow}, NEW cur \in Row
    PROVE  Merge(base, new, cur) \in Row /\ Merge(base, new, cur) # NoRow
  <1>1. Merge(base, new, cur) \in Row
    <2>1. CASE new = NoRow \/ new = base  BY <2>1 DEF Merge
    <2>2. CASE ~(new = NoRow \/ new = base) /\ base = NoRow  BY <2>2 DEF Merge
    <2>3. CASE ~(new = NoRow \/ new = base) /\ base # NoRow
      <3>1. new \in Row /\ base \in Row  BY <2>3
      <3>2. Merge(base, new, cur) =
              [column \in {"status", "code"} |->
                 IF new[column] # base[column] THEN new[column] ELSE cur[column]]
        BY <2>3 DEF Merge
      <3> QED  BY <3>1, <3>2 DEF Row
    <2> QED  BY <2>1, <2>2, <2>3
  <1> QED  BY <1>1, RowAssumption

(* A row an upsert leaves says "sent" only if it did before, or the upsert  *)
(* says so.                                                                 *)
LEMMA MergeSent ==
    ASSUME NEW base \in Row \union {NoRow}, NEW new \in Row \union {NoRow},
           NEW cur \in Row \union {NoRow}, base # NoRow /\ new # base => cur # NoRow,
           Merge(base, new, cur) # NoRow, Merge(base, new, cur).status = "sent"
    PROVE  \/ cur # NoRow /\ cur.status = "sent"
           \/ new # NoRow /\ new.status = "sent"
  <1>1. CASE new = NoRow \/ new = base  BY <1>1 DEF Merge
  <1>2. CASE ~(new = NoRow \/ new = base) /\ base = NoRow  BY <1>2 DEF Merge
  <1>3. CASE ~(new = NoRow \/ new = base) /\ base # NoRow
    <2>1. Merge(base, new, cur) =
            [column \in {"status", "code"} |->
               IF new[column] # base[column] THEN new[column] ELSE cur[column]]
      BY <1>3 DEF Merge
    <2>2. \/ Merge(base, new, cur).status = new.status
          \/ Merge(base, new, cur).status = cur.status
      BY <2>1
    <2> QED  BY <1>3, <2>2
  <1> QED  BY <1>1, <1>2, <1>3

(* What an upsert reads is a row or none.                                   *)
LEMMA BaseType ==
    ASSUME TypeOk, NEW loaded \in Row \union {NoRow}, NEW b \in Batches, NEW c \in Channels
    PROVE  Base(loaded, b, c) \in Row \union {NoRow}
  BY DEF Base, TypeOk

(* The row that web push leaves is a row of the table.                      *)
LEMMA PushRowType ==
    ASSUME NEW t \in Tx, t.push # "already"
    PROVE  PushRow(t) \in Row
  BY DEF PushRow, Row, Tx, Plans, Codes, Skipped

(* The transaction a load opens is well formed.                             *)
LEMMA NewTxType ==
    ASSUME TypeOk, NEW r \in Runners, NEW b \in Batches, batch[b] # Absent
    PROVE  NewTx(r, b) \in Tx
  <1>1. conf[r] \in Config  BY DEF TypeOk
  <1>2. PushPlan(conf[r], b) \in Plans  BY <1>1, PushPlanType
  <1>3. Owner[b] \in Users  BY BatchAssumption
  <1>4. pref[Owner[b]] \in Pref  BY <1>3 DEF TypeOk
  <1>5. batch[b] \in 0..MaxCount  BY DEF TypeOk
  <1>6. row[b]["web_push"] \in Row \union {NoRow}  BY DEF TypeOk, Channels
  <1>7. ActiveSubs(Owner[b]) \in SUBSET Endpoints  BY DEF ActiveSubs
  <1>8. Mailable(Owner[b]) \in BOOLEAN  BY DEF Mailable
  <1> QED  BY <1>2, <1>4, <1>5, <1>6, <1>7, <1>8 DEF NewTx, Tx, Pref

-----------------------------------------------------------------------------
(* The invariant of every deployment, whatever runners it has.              *)

TxPcs  == {"push", "flush", "email", "commit"}
TxOpen == \A r \in Runners : IF pc[r] \in TxPcs THEN tx[r] \in Tx ELSE tx[r] = NoTx
Typed  == TypeOk /\ TxOpen

(* A flushed change finds its row, and its batch, until it is committed.    *)
LockedRows == \A r \in Runners, b \in Batches : HoldsPush(r, b) =>
    /\ batch[b] # Absent
    /\ tx[r].pushBase # NoRow => row[b]["web_push"] # NoRow

(* The foreign key: a delivery row has its batch.                           *)
NoOrphanDelivery == \A b \in Batches : batch[b] = Absent => \A c \in Channels : row[b][c] = NoRow

(* What a transaction is about to record as sent has left.                  *)
BackedTx == \A r \in Runners : tx[r] # NoTx =>
    /\ tx[r].push = "send" /\ tx[r].ok => "web_push" \in backed[tx[r].batch]
    /\ tx[r].pushNew # NoRow /\ tx[r].pushNew.status = "sent"
         => "web_push" \in backed[tx[r].batch]
    /\ tx[r].emailNew # NoRow /\ tx[r].emailNew.status = "sent"
         => "email" \in backed[tx[r].batch]

Inv == Typed /\ NoOrphanDelivery /\ LockedRows /\ BackedTx /\ SentIsBacked

(* The invariant holds at the start.                                        *)
LEMMA InitInv == Init => Inv
  <1> SUFFICES ASSUME Init PROVE Inv  OBVIOUS
  <1> USE DEF Init
  <1>1. TypeOk
    <2>1. before \in SUBSET (Batches \X Batches)  BY DEF StrictOrders
    <2>2. sub \in [Endpoints -> Sub]  BY DEF Sub
    <2>3. pref \in [Users -> Pref]  BY DEF Pref
    <2>4. conf \in [Runners -> Config]  BY DEF DefaultConfig, Config
    <2> QED  BY <2>1, <2>2, <2>3, <2>4, BoundAssumption DEF TypeOk
  <1>2. TxOpen  BY DEF TxOpen, TxPcs
  <1>3. NoOrphanDelivery  BY DEF NoOrphanDelivery
  <1>4. LockedRows  BY DEF LockedRows, HoldsPush, Flushed
  <1>5. BackedTx  BY DEF BackedTx
  <1>6. SentIsBacked  BY DEF SentIsBacked, RowSent
  <1> QED  BY <1>1, <1>2, <1>3, <1>4, <1>5, <1>6 DEF Inv, Typed

-----------------------------------------------------------------------------
(* Type correctness, action by action.                                      *)

(* A runner inside a dispatch has a transaction open.                       *)
LEMMA OpenTx ==
    ASSUME Inv, NEW r \in Runners, pc[r] \in TxPcs
    PROVE  tx[r] \in Tx /\ tx[r] # NoTx
  BY TxAssumption DEF Inv, Typed, TxOpen

(* A step leaves every variable in its type, and a transaction open exactly *)
(* inside a dispatch.                                                       *)
LEMMA NextType ==
    ASSUME Inv, Next
    PROVE  Typed'
  <1> USE DEF vars, runVars, dbVars, userVars, history, bounds, Typed, TxOpen, TxPcs
  <1>a. TypeOk /\ TxOpen  BY DEF Inv
  <1>1. ASSUME NEW r \in Runners, StartCron(r) PROVE Typed'
    BY <1>a, <1>1, ConfigAssumption DEF TypeOk, StartCron
  <1>2. ASSUME NEW r \in Runners, StartJob(r) PROVE Typed'
    BY <1>a, <1>2, ConfigAssumption, BoundAssumption DEF TypeOk, StartJob
  <1>3. ASSUME NEW r \in Runners, Generate(r) PROVE Typed'
    BY <1>a, <1>3 DEF TypeOk, Generate
  <1>4. ASSUME NEW r \in Runners, Purge(r) PROVE Typed'
    BY <1>a, <1>4 DEF TypeOk, Purge
  <1>5. ASSUME NEW r \in Runners, PurgeFails(r) PROVE Typed'
    BY <1>a, <1>5 DEF TypeOk, PurgeFails, Stop, DefaultConfig, Config
  <1>6. ASSUME NEW r \in Runners, Select(r) PROVE Typed'
    BY <1>a, <1>6 DEF TypeOk, Select, Oldest
  <1>7. ASSUME NEW r \in Runners, NEW b \in Batches, Load(r, b) PROVE Typed'
    BY <1>a, <1>7, NewTxType DEF TypeOk, Load
  <1>8. ASSUME NEW r \in Runners, NEW b \in Batches, LoadEmpty(r, b) PROVE Typed'
    <2>1. batch[b] # Absent  BY <1>8, BatchAssumption DEF LoadEmpty
    <2>2. NewTx(r, b) \in Tx  BY <1>a, <2>1, NewTxType
    <2>3. row[b]["email"] \in Row \union {NoRow}  BY <1>a DEF TypeOk, Channels
    <2>4. Skipped("empty_digest") \in Row  BY DEF Skipped, Row, Codes
    <2>5. [NewTx(r, b) EXCEPT !.push = "empty_digest", !.ok = FALSE,
                    !.todo = {}, !.attempted = {},
                    !.pushNew = Skipped("empty_digest"),
                    !.emailBase = row[b]["email"],
                    !.emailNew = Skipped("empty_digest")] \in Tx
      BY <2>2, <2>3, <2>4 DEF Tx, Plans
    <2> QED  BY <1>a, <1>8, <2>5 DEF TypeOk, LoadEmpty
  <1>9. ASSUME NEW r \in Runners, NEW b \in Batches, LoadMissing(r, b) PROVE Typed'
    BY <1>a, <1>9 DEF TypeOk, LoadMissing
  <1>10. ASSUME NEW r \in Runners, NEW e \in Endpoints, PushOk(r, e) PROVE Typed'
    <2>1. tx[r] \in Tx  BY <1>a, <1>10, OpenTx DEF TxPcs, PushOk
    <2>2. [tx[r] EXCEPT !.todo = tx[r].todo \ {e}, !.ok = TRUE, !.left = tx[r].left \union {"web_push"}] \in Tx
      BY <2>1, <1>a, <1>10 DEF Tx, Channels
    <2> QED  BY <1>a, <1>10, <2>1, <2>2 DEF TypeOk, PushOk, Leaves, Channels, Tx
  <1>11. ASSUME NEW r \in Runners, NEW e \in Endpoints, PushGone(r, e) PROVE Typed'
    <2>1. tx[r] \in Tx  BY <1>a, <1>11, OpenTx DEF TxPcs, PushGone
    <2>2. [tx[r] EXCEPT !.todo = tx[r].todo \ {e}, !.gone = tx[r].gone \union {e}] \in Tx
      BY <2>1, <1>a, <1>11 DEF Tx
    <2> QED  BY <1>a, <1>11, <2>1, <2>2 DEF TypeOk, PushGone
  <1>12. ASSUME NEW r \in Runners, NEW e \in Endpoints, PushError(r, e) PROVE Typed'
    <2>1. tx[r] \in Tx  BY <1>a, <1>12, OpenTx DEF TxPcs, PushError
    <2>2. [tx[r] EXCEPT !.todo = tx[r].todo \ {e}] \in Tx
      BY <2>1, <1>a, <1>12 DEF Tx
    <2> QED  BY <1>a, <1>12, <2>1, <2>2 DEF TypeOk, PushError
  <1>13. ASSUME NEW r \in Runners, NEW e \in Endpoints, PushMisreported(r, e) PROVE Typed'
    <2>1. tx[r] \in Tx  BY <1>a, <1>13, OpenTx DEF TxPcs, PushMisreported
    <2>2. [tx[r] EXCEPT !.todo = tx[r].todo \ {e}, !.left = tx[r].left \union {"web_push"}] \in Tx
      BY <2>1, <1>a, <1>13 DEF Tx, Channels
    <2> QED  BY <1>a, <1>13, <2>1, <2>2, BoundAssumption DEF TypeOk, PushMisreported, Fault, Leaves, Channels, Tx
  <1>14. ASSUME NEW r \in Runners, RecordPush(r) PROVE Typed'
    <2>1. tx[r] \in Tx  BY <1>a, <1>14, OpenTx DEF TxPcs, RecordPush
    <2>2. tx[r].push # "already" =>
            [tx[r] EXCEPT !.pushBase = Base(tx[r].pushBase, tx[r].batch, "web_push"),
                          !.pushNew = PushRow(tx[r])] \in Tx
      <3>1. Base(tx[r].pushBase, tx[r].batch, "web_push") \in Row \union {NoRow}
        BY <2>1, <1>a, BaseType DEF Channels, Tx
      <3>2. tx[r].push # "already" => PushRow(tx[r]) \in Row  BY <2>1, PushRowType
      <3> QED  BY <2>1, <3>1, <3>2 DEF Tx
    <2> QED  BY <1>a, <1>14, <2>1, <2>2 DEF TypeOk, RecordPush
  <1>15. ASSUME NEW r \in Runners, ReadEmail(r) PROVE Typed'
    <2>1. tx[r] \in Tx  BY <1>a, <1>15, OpenTx DEF TxPcs, ReadEmail
    <2>2. \A new \in Row \union {NoRow} :
            [tx[r] EXCEPT !.emailBase = row[tx[r].batch]["email"], !.emailNew = new] \in Tx
      <3>1. row[tx[r].batch]["email"] \in Row \union {NoRow}
        BY <2>1, <1>a DEF TypeOk, Channels, Tx
      <3> QED  BY <2>1, <3>1 DEF Tx
    <2> QED  BY <1>a, <1>15, <2>1, <2>2 DEF TypeOk, ReadEmail, EmailPlan, Skipped, Row, Codes
  <1>16. ASSUME NEW r \in Runners, EmailOk(r) PROVE Typed'
    <2>1. tx[r] \in Tx  BY <1>a, <1>16, OpenTx DEF TxPcs, EmailOk
    <2>2. \A new \in Row :
            [tx[r] EXCEPT !.emailBase = Base(tx[r].emailBase, tx[r].batch, "email"), !.emailNew = new,
                          !.left = tx[r].left \union {"email"}] \in Tx
      <3>1. Base(tx[r].emailBase, tx[r].batch, "email") \in Row \union {NoRow}
        BY <2>1, <1>a, BaseType DEF Channels, Tx
      <3> QED  BY <2>1, <3>1 DEF Tx, Channels
    <2>3. told' \in [Batches -> Nat] /\ backed' \in [Batches -> SUBSET Channels]
      BY <2>1, <1>a, <1>16 DEF TypeOk, EmailOk, Leaves, Tx, Channels
    <2>4. tx'[r] \in Tx /\ tx' = [tx EXCEPT ![r] = tx'[r]]
      BY <2>2, <1>a, <1>16 DEF TypeOk, EmailOk, RecordEmail, Row, Codes
    <2>5. /\ pc' = [pc EXCEPT ![r] = "commit"]
          /\ UNCHANGED <<flock, conf, queue, batch, before, old, row, sub, pref, lost, missed, jobs>>
          /\ faults' \in 0..MaxFaults
      BY <1>a, <1>16 DEF TypeOk, EmailOk, RecordEmail, Leaves, Fault
    <2> QED  BY <1>a, <2>3, <2>4, <2>5 DEF TypeOk
  <1>17. ASSUME NEW r \in Runners, EmailError(r) PROVE Typed'
    <2>1. tx[r] \in Tx  BY <1>a, <1>17, OpenTx DEF TxPcs, EmailError
    <2>2. \A new \in Row :
            [tx[r] EXCEPT !.emailBase = Base(tx[r].emailBase, tx[r].batch, "email"), !.emailNew = new,
                          !.left = tx[r].left \union {}] \in Tx
      <3>1. Base(tx[r].emailBase, tx[r].batch, "email") \in Row \union {NoRow}
        BY <2>1, <1>a, BaseType DEF Channels, Tx
      <3> QED  BY <2>1, <3>1 DEF Tx, Channels
    <2> QED  BY <1>a, <1>17, <2>1, <2>2 DEF TypeOk, EmailError, RecordEmail, Row, Codes
  <1>18. ASSUME NEW r \in Runners, EmailMisreported(r) PROVE Typed'
    <2>1. tx[r] \in Tx  BY <1>a, <1>18, OpenTx DEF TxPcs, EmailMisreported
    <2>2. \A new \in Row :
            [tx[r] EXCEPT !.emailBase = Base(tx[r].emailBase, tx[r].batch, "email"), !.emailNew = new,
                          !.left = tx[r].left \union {"email"}] \in Tx
      <3>1. Base(tx[r].emailBase, tx[r].batch, "email") \in Row \union {NoRow}
        BY <2>1, <1>a, BaseType DEF Channels, Tx
      <3> QED  BY <2>1, <3>1 DEF Tx, Channels
    <2>3. told' \in [Batches -> Nat] /\ backed' \in [Batches -> SUBSET Channels]
      BY <2>1, <1>a, <1>18 DEF TypeOk, EmailMisreported, Leaves, Tx, Channels
    <2>4. tx'[r] \in Tx /\ tx' = [tx EXCEPT ![r] = tx'[r]]
      BY <2>2, <1>a, <1>18 DEF TypeOk, EmailMisreported, RecordEmail, Row, Codes
    <2>5. /\ pc' = [pc EXCEPT ![r] = "commit"]
          /\ UNCHANGED <<flock, conf, queue, batch, before, old, row, sub, pref, lost, missed, jobs>>
          /\ faults' \in 0..MaxFaults
      BY <1>a, <1>18, BoundAssumption DEF TypeOk, EmailMisreported, RecordEmail, Leaves, Fault
    <2> QED  BY <1>a, <2>3, <2>4, <2>5 DEF TypeOk
  <1>19. ASSUME NEW r \in Runners, Commit(r) PROVE Typed'
    <2> DEFINE t == tx[r]
               b == t.batch
    <2>1. t \in Tx  BY <1>a, <1>19, OpenTx DEF TxPcs, Commit
    <2>2. b \in Batches /\ row[b]["web_push"] \in Row \union {NoRow}
          /\ row[b]["email"] \in Row \union {NoRow}
      BY <1>a, <2>1 DEF TypeOk, Tx, Channels
    <2>3. Merge(t.pushBase, t.pushNew, row[b]["web_push"]) \in Row \union {NoRow}
      <3>1. CASE t.pushNew = NoRow  BY <2>2, <3>1 DEF Merge
      <3>2. CASE t.pushNew # NoRow
        <4>1. t.pushNew # t.pushBase => HoldsPush(r, b)
          BY <1>19, <3>2 DEF Commit, HoldsPush, Flushed
        <4>2. t.pushBase # NoRow /\ t.pushNew # t.pushBase => row[b]["web_push"] # NoRow
          BY <2>2, <4>1 DEF Inv, LockedRows
        <4> QED  BY <2>1, <2>2, <4>2, MergeType DEF Tx
      <3> QED  BY <3>1, <3>2
    <2>4. Merge(t.emailBase, t.emailNew, row[b]["email"]) \in Row \union {NoRow}
      <3>1. CASE t.emailNew = NoRow  BY <2>2, <3>1 DEF Merge
      <3>2. CASE t.emailNew # NoRow
        <4>1. t.emailBase # NoRow /\ t.emailNew # t.emailBase => row[b]["email"] # NoRow
          BY <1>19, <3>2 DEF Commit, EmailClash, Clash
        <4> QED  BY <2>1, <2>2, <4>1, MergeType DEF Tx
      <3> QED  BY <3>1, <3>2
    <2>5. row' \in [Batches -> [Channels -> Row \union {NoRow}]]
      BY <1>a, <1>19, <2>2, <2>3, <2>4 DEF TypeOk, Commit, Channels
    <2>6. sub' \in [Endpoints -> Sub]  BY <1>a, <1>19 DEF TypeOk, Commit, Sub
    <2>7. lost' \in [Batches -> Nat]  BY <1>a, <1>19, <2>2 DEF TypeOk, Commit, Ends
    <2>8. missed' \in [Batches -> SUBSET Channels]
      BY <1>a, <1>19, <2>1, <2>2 DEF TypeOk, Commit, Ends, Tx
    <2> QED  BY <1>a, <1>19, <2>5, <2>6, <2>7, <2>8 DEF TypeOk, Commit, Ends
  <1>20. ASSUME NEW r \in Runners, FlushFails(r) PROVE Typed'
    BY <1>a, <1>20 DEF TypeOk, FlushFails, Rollback, Ends, Tx
  <1>21. ASSUME NEW r \in Runners, DispatchFails(r) PROVE Typed'
    BY <1>a, <1>21, BoundAssumption DEF TypeOk, DispatchFails, Fault, Rollback, Ends, Tx
  <1>22. ASSUME NEW r \in Runners, Finish(r) PROVE Typed'
    BY <1>a, <1>22 DEF TypeOk, Finish, Stop, DefaultConfig, Config
  <1>23. ASSUME NEW r \in Runners, Crash(r) PROVE Typed'
    BY <1>a, <1>23, BoundAssumption DEF TypeOk, Crash, Stop, Fault, Ends, Tx, DefaultConfig, Config
  <1>24. ASSUME Outside PROVE Typed'
    <2>1. ASSUME NEW b \in Batches, AgeOut(b) PROVE Typed'
      BY <1>a, <2>1 DEF TypeOk, AgeOut
    <2>2. ASSUME NEW e \in Endpoints, NEW u \in Users, Subscribe(e, u) PROVE Typed'
      BY <1>a, <2>2 DEF TypeOk, Subscribe, Sub
    <2>3. ASSUME NEW e \in Endpoints, Unsubscribe(e) PROVE Typed'
      BY <1>a, <2>3 DEF TypeOk, Unsubscribe, Sub
    <2>4. ASSUME NEW u \in Users, SaveSettings(u) PROVE Typed'
      BY <1>a, <2>4, ConfigAssumption DEF TypeOk, SaveSettings
    <2> QED  BY <1>24, <2>1, <2>2, <2>3, <2>4 DEF Outside
  <1> QED  BY <1>1, <1>2, <1>3, <1>4, <1>5, <1>6, <1>7, <1>8, <1>9, <1>10, <1>11, <1>12, <1>13,
              <1>14, <1>15, <1>16, <1>17, <1>18, <1>19, <1>20, <1>21, <1>22, <1>23, <1>24
           DEF Next, Start, Cycle, Dispatch, Faults

-----------------------------------------------------------------------------
(* Recording an email touches nothing else of the transaction.              *)
LEMMA RecordEmailTx ==
    ASSUME TypeOk, NEW r \in Runners, tx[r] \in Tx, NEW new, NEW leaving,
           RecordEmail(r, new, leaving)
    PROVE  /\ pc' = [pc EXCEPT ![r] = "commit"]
           /\ \A o \in Runners \ {r} : tx'[o] = tx[o]
           /\ tx'[r].batch = tx[r].batch /\ tx'[r].push = tx[r].push /\ tx'[r].ok = tx[r].ok
           /\ tx'[r].count = tx[r].count /\ tx'[r].fallback = tx[r].fallback
           /\ tx'[r].pushBase = tx[r].pushBase /\ tx'[r].pushNew = tx[r].pushNew
           /\ tx'[r].emailBase = Base(tx[r].emailBase, tx[r].batch, "email")
           /\ tx'[r].emailNew = new
           /\ tx'[r].left = tx[r].left \union leaving
  BY DEF TypeOk, RecordEmail, Tx

(* No delivery outlives its batch, and no flushed change loses its row.     *)
LEMMA NextRows ==
    ASSUME Inv, Next
    PROVE  NoOrphanDelivery' /\ LockedRows'
  <1> USE DEF vars, runVars, dbVars, userVars, history, bounds
  <1>a. TypeOk /\ TxOpen /\ NoOrphanDelivery /\ LockedRows  BY DEF Inv, Typed
  <1>b. TypeOk' /\ TxOpen'  BY NextType DEF Typed
  <1> DEFINE P == NoOrphanDelivery' /\ LockedRows'
             (* Rows and batches stay, and nobody holds a row it did not hold. *)
             Quiet == /\ UNCHANGED <<row, batch>>
                      /\ \A o \in Runners, b \in Batches :
                           HoldsPush(o, b)' => HoldsPush(o, b) /\ tx'[o].pushBase = tx[o].pushBase
  <1>q. ASSUME Quiet PROVE P  BY <1>a, <1>q DEF NoOrphanDelivery, LockedRows
  <1> USE DEF HoldsPush, Flushed
  <1>1. ASSUME NEW r \in Runners, Start(r) \/ Select(r) \/ Finish(r) \/ PurgeFails(r) PROVE P
    <2>1. Quiet
      BY <1>a, <1>1 DEF TypeOk, Start, StartCron, StartJob, Select, Finish, PurgeFails, Stop
    <2> QED  BY <2>1, <1>q
  <1>2. ASSUME NEW r \in Runners, Crash(r) \/ DispatchFails(r) \/ FlushFails(r) PROVE P
    <2>1. Quiet
      BY <1>a, <1>2 DEF TypeOk, Crash, DispatchFails, FlushFails, Stop, Rollback
    <2> QED  BY <2>1, <1>q
  <1>3. ASSUME NEW r \in Runners, NEW b \in Batches, Load(r, b) \/ LoadMissing(r, b) PROVE P
    <2>1. Quiet  BY <1>a, <1>3 DEF TypeOk, Load, LoadMissing
    <2> QED  BY <2>1, <1>q
  <1>4. ASSUME NEW r \in Runners, NEW e \in Endpoints,
               PushOk(r, e) \/ PushGone(r, e) \/ PushError(r, e) \/ PushMisreported(r, e)
        PROVE  P
    <2>1. Quiet  BY <1>a, <1>4 DEF TypeOk, PushOk, PushGone, PushError, PushMisreported
    <2> QED  BY <2>1, <1>q
  <1>5. ASSUME NEW r \in Runners, RecordPush(r) PROVE P
    <2>1. Quiet  BY <1>a, <1>5 DEF TypeOk, RecordPush
    <2> QED  BY <2>1, <1>q
  <1>6. ASSUME NEW r \in Runners, EmailOk(r) \/ EmailError(r) \/ EmailMisreported(r) PROVE P
    <2>1. pc[r] = "email" /\ tx[r] \in Tx
      BY <1>a, <1>6 DEF EmailOk, EmailError, EmailMisreported, TxOpen, TxPcs
    <2>2. /\ pc' = [pc EXCEPT ![r] = "commit"]
          /\ UNCHANGED <<row, batch>>
          /\ \A o \in Runners \ {r} : tx'[o] = tx[o]
          /\ tx'[r].batch = tx[r].batch /\ tx'[r].pushBase = tx[r].pushBase
          /\ tx'[r].pushNew = tx[r].pushNew
      BY <1>a, <1>6, <2>1, RecordEmailTx DEF EmailOk, EmailError, EmailMisreported
    <2>3. Quiet  BY <1>a, <2>1, <2>2 DEF TypeOk
    <2> QED  BY <2>3, <1>q
  <1>7. ASSUME Outside PROVE P
    <2>1. Quiet  BY <1>7 DEF Outside, AgeOut, Subscribe, Unsubscribe, SaveSettings
    <2> QED  BY <2>1, <1>q
  <1>8. ASSUME NEW r \in Runners, Generate(r) PROVE P
    <2>1. \A b \in Batches : batch'[b] = Absent => batch[b] = Absent
      BY <1>8, BatchAssumption DEF Generate
    <2>2. \A o \in Runners, b \in Batches : HoldsPush(o, b)' => HoldsPush(o, b)
      BY <1>a, <1>8 DEF TypeOk, Generate
    <2> QED  BY <1>a, <1>8, <2>1, <2>2 DEF NoOrphanDelivery, LockedRows, Generate
  <1>9. ASSUME NEW r \in Runners, Purge(r) PROVE P
    <2>1. \A o \in Runners, b \in Batches : HoldsPush(o, b)' => HoldsPush(o, b) /\ b \notin Expired
      BY <1>a, <1>9 DEF TypeOk, Purge, Others
    <2> QED  BY <1>a, <1>9, <2>1 DEF TypeOk, NoOrphanDelivery, LockedRows, Purge, Channels
  <1>10. ASSUME NEW r \in Runners, NEW b \in Batches, LoadEmpty(r, b) PROVE P
    <2>1. batch[b] # Absent  BY <1>10, BatchAssumption DEF LoadEmpty
    <2>2. tx'[r].batch = b /\ tx'[r].pushBase = row[b]["web_push"]
      BY <1>a, <1>10 DEF TypeOk, LoadEmpty, NewTx
    <2>3. \A o \in Runners \ {r}, c \in Batches : HoldsPush(o, c)' <=> HoldsPush(o, c)
      BY <1>a, <1>10 DEF TypeOk, LoadEmpty
    <2>4. \A o \in Runners \ {r} : tx'[o] = tx[o]  BY <1>a, <1>10 DEF TypeOk, LoadEmpty
    <2>5. UNCHANGED <<row, batch>>  BY <1>10 DEF LoadEmpty
    <2>6. NoOrphanDelivery'  BY <1>a, <2>5 DEF NoOrphanDelivery
    <2>7. LockedRows'  BY <1>a, <2>1, <2>2, <2>3, <2>4, <2>5 DEF LockedRows
    <2> QED  BY <2>6, <2>7
  <1>11. ASSUME NEW r \in Runners, ReadEmail(r) PROVE P
    <2>1. tx[r] \in Tx /\ pc[r] = "flush"  BY <1>a, <1>11 DEF ReadEmail, TxOpen, TxPcs
    <2>2. /\ UNCHANGED <<row, batch>>
          /\ \A o \in Runners \ {r} : tx'[o] = tx[o] /\ pc'[o] = pc[o]
          /\ tx'[r].batch = tx[r].batch /\ tx'[r].pushBase = tx[r].pushBase
          /\ tx'[r].pushNew = tx[r].pushNew
      BY <1>a, <1>11, <2>1 DEF TypeOk, ReadEmail, Tx
    <2>3. tx[r].pushNew # NoRow /\ tx[r].pushNew # tx[r].pushBase =>
            /\ batch[tx[r].batch] # Absent
            /\ tx[r].pushBase # NoRow => row[tx[r].batch]["web_push"] # NoRow
      BY <1>a, <1>11, <2>1 DEF ReadEmail, PushClash, Clash, NoOrphanDelivery, Channels, Tx
    <2>4. NoOrphanDelivery'  BY <1>a, <2>2 DEF NoOrphanDelivery
    <2>5. LockedRows'  BY <1>a, <2>2, <2>3 DEF LockedRows
    <2> QED  BY <2>4, <2>5
  <1>12. ASSUME NEW r \in Runners, Commit(r) PROVE P
    <2> DEFINE t == tx[r]
    <2>1. t \in Tx /\ pc[r] = "commit"  BY <1>a, <1>12 DEF Commit, TxOpen, TxPcs
    <2>2. t.batch \in Batches  BY <2>1 DEF Tx
    <2>3. /\ UNCHANGED batch
          /\ \A b \in Batches \ {t.batch} : row'[b] = row[b]
          /\ row'[t.batch]["web_push"] = Merge(t.pushBase, t.pushNew, row[t.batch]["web_push"])
          /\ row'[t.batch]["email"] = Merge(t.emailBase, t.emailNew, row[t.batch]["email"])
      BY <1>a, <1>12, <2>2 DEF TypeOk, Commit
    <2>4. \A c \in Channels : row[t.batch][c] # NoRow => row'[t.batch][c] # NoRow
      BY <1>a, <2>1, <2>2, <2>3, MergeRow DEF TypeOk, Tx, Channels
    <2>5. ASSUME batch[t.batch] = Absent PROVE \A c \in Channels : row'[t.batch][c] = NoRow
      <3>1. row[t.batch]["web_push"] = NoRow /\ row[t.batch]["email"] = NoRow
        BY <1>a, <2>2, <2>5 DEF NoOrphanDelivery, Channels
      <3>2. t.pushNew = NoRow \/ t.pushNew = t.pushBase
        BY <1>a, <2>1, <2>2, <2>5 DEF LockedRows
      <3>3. t.emailNew = NoRow \/ t.emailNew = t.emailBase
        BY <1>12, <2>5, <3>1 DEF Commit, EmailClash, Clash
      <3> QED  BY <2>3, <3>1, <3>2, <3>3 DEF Merge, Channels
    <2>6. NoOrphanDelivery'  BY <1>a, <2>3, <2>5 DEF NoOrphanDelivery
    <2>7. \A o \in Runners, b \in Batches : HoldsPush(o, b)' => HoldsPush(o, b) /\ tx'[o] = tx[o]
      BY <1>a, <1>12 DEF TypeOk, Commit
    <2>8. LockedRows'  BY <1>a, <2>3, <2>4, <2>7 DEF LockedRows, Channels
    <2> QED  BY <2>6, <2>8
  <1> QED  BY <1>1, <1>2, <1>3, <1>4, <1>5, <1>6, <1>7, <1>8, <1>9, <1>10, <1>11, <1>12
           DEF Next, Start, Cycle, Dispatch, Faults

-----------------------------------------------------------------------------
(* What one push does, whatever came of it.                                 *)
LEMMA PushStepTx ==
    ASSUME TypeOk, TxOpen, NEW r \in Runners, NEW e \in Endpoints,
           PushOk(r, e) \/ PushGone(r, e) \/ PushError(r, e) \/ PushMisreported(r, e)
    PROVE  /\ UNCHANGED <<flock, pc, conf, queue, batch, before, old, row, lost, missed>>
           /\ pc[r] = "push"
           /\ \A o \in Runners \ {r} : tx'[o] = tx[o]
           /\ tx'[r].batch = tx[r].batch /\ tx'[r].push = tx[r].push
           /\ tx'[r].count = tx[r].count /\ tx'[r].fallback = tx[r].fallback
           /\ tx'[r].pushBase = tx[r].pushBase /\ tx'[r].emailBase = tx[r].emailBase
           /\ tx'[r].pushNew = tx[r].pushNew /\ tx'[r].emailNew = tx[r].emailNew
           /\ tx'[r].ok => tx[r].ok \/ "web_push" \in backed'[tx[r].batch]
           /\ tx'[r].ok => tx[r].ok \/ "web_push" \in tx'[r].left
           /\ \A b \in Batches : backed[b] \subseteq backed'[b]
  <1> USE DEF dbVars
  <1>1. tx[r] \in Tx /\ tx[r].batch \in Batches
    BY DEF TxOpen, TxPcs, Tx, PushOk, PushGone, PushError, PushMisreported
  <1>2. CASE PushOk(r, e)
    BY <1>1, <1>2 DEF TypeOk, PushOk, Leaves, Tx
  <1>3. CASE PushGone(r, e)
    BY <1>1, <1>3 DEF TypeOk, PushGone, Tx, history
  <1>4. CASE PushError(r, e)
    BY <1>1, <1>4 DEF TypeOk, PushError, Tx, history
  <1>5. CASE PushMisreported(r, e)
    BY <1>1, <1>5 DEF TypeOk, PushMisreported, Leaves, Tx
  <1> QED  BY <1>2, <1>3, <1>4, <1>5

(* A commit finds the rows it updates.                                      *)
LEMMA CommitFinds ==
    ASSUME Inv, NEW r \in Runners, Commit(r)
    PROVE  /\ tx[r].pushNew # NoRow /\ tx[r].pushBase # NoRow /\ tx[r].pushNew # tx[r].pushBase
                => row[tx[r].batch]["web_push"] # NoRow
           /\ tx[r].emailNew # NoRow /\ tx[r].emailBase # NoRow /\ tx[r].emailNew # tx[r].emailBase
                => row[tx[r].batch]["email"] # NoRow
  <1>1. tx[r] \in Tx /\ pc[r] = "commit"  BY OpenTx DEF TxPcs, Commit
  <1>2. LockedRows  BY DEF Inv
  <1> QED  BY <1>1, <1>2 DEF LockedRows, HoldsPush, Flushed, Tx, Commit, EmailClash, Clash

(* What is, or is about to be, recorded as sent has left.                   *)
LEMMA NextBacked ==
    ASSUME Inv, Next
    PROVE  BackedTx' /\ SentIsBacked'
  <1> USE DEF vars, runVars, dbVars, userVars, history, bounds
  <1>a. TypeOk /\ TxOpen /\ BackedTx /\ SentIsBacked  BY DEF Inv, Typed
  <1>b. TypeOk' /\ TxOpen'  BY NextType DEF Typed
  <1> DEFINE P == BackedTx' /\ SentIsBacked'
             Quiet == /\ UNCHANGED <<row, backed>>
                      /\ \A o \in Runners : tx'[o] = tx[o] \/ tx'[o] = NoTx
  <1>q. ASSUME Quiet PROVE P  BY <1>a, <1>q DEF BackedTx, SentIsBacked, RowSent
  <1>1. ASSUME NEW r \in Runners,
               Start(r) \/ Generate(r) \/ Select(r) \/ Finish(r) \/ PurgeFails(r)
        PROVE  P
    <2>1. Quiet  BY <1>a, <1>1 DEF TypeOk, Start, StartCron, StartJob, Generate, Select, Finish,
                                   PurgeFails, Stop
    <2> QED  BY <2>1, <1>q
  <1>2. ASSUME NEW r \in Runners, Crash(r) \/ DispatchFails(r) \/ FlushFails(r) PROVE P
    <2>1. Quiet
      BY <1>a, <1>2 DEF TypeOk, Crash, DispatchFails, FlushFails, Stop, Rollback, Ends
    <2> QED  BY <2>1, <1>q
  <1>3. ASSUME Outside PROVE P
    <2>1. Quiet  BY <1>3 DEF Outside, AgeOut, Subscribe, Unsubscribe, SaveSettings
    <2> QED  BY <2>1, <1>q
  <1>4. ASSUME NEW r \in Runners, Purge(r) PROVE P
    <2>1. UNCHANGED <<backed, tx>>  BY <1>4 DEF Purge
    <2>2. \A b \in Batches, c \in Channels : row'[b][c] # NoRow => row'[b][c] = row[b][c]
      BY <1>a, <1>4 DEF TypeOk, Purge
    <2> QED  BY <1>a, <2>1, <2>2 DEF BackedTx, SentIsBacked, RowSent
  <1>5. ASSUME NEW r \in Runners, NEW b \in Batches, LoadMissing(r, b) PROVE P
    <2>1. Quiet  BY <1>5 DEF LoadMissing
    <2> QED  BY <2>1, <1>q
  <1>6. ASSUME NEW r \in Runners, NEW b \in Batches, Load(r, b) PROVE P
    <2>1. /\ UNCHANGED <<row, backed>>
          /\ \A o \in Runners \ {r} : tx'[o] = tx[o]
          /\ tx'[r].push = PushPlan(conf[r], b) /\ tx'[r].ok = (PushPlan(conf[r], b) = "already")
          /\ tx'[r].pushNew = NoRow /\ tx'[r].emailNew = NoRow
      BY <1>a, <1>6 DEF TypeOk, Load, NewTx
    <2> QED  BY <1>a, <2>1 DEF BackedTx, SentIsBacked, RowSent
  <1>7. ASSUME NEW r \in Runners, NEW b \in Batches, LoadEmpty(r, b) PROVE P
    <2>1. /\ UNCHANGED <<row, backed>>
          /\ \A o \in Runners \ {r} : tx'[o] = tx[o]
          /\ tx'[r].push = "empty_digest"
          /\ tx'[r].pushNew.status = "skipped" /\ tx'[r].emailNew.status = "skipped"
      BY <1>a, <1>7 DEF TypeOk, LoadEmpty, NewTx, Skipped
    <2> QED  BY <1>a, <2>1 DEF BackedTx, SentIsBacked, RowSent
  <1>8. ASSUME NEW r \in Runners, NEW e \in Endpoints,
               PushOk(r, e) \/ PushGone(r, e) \/ PushError(r, e) \/ PushMisreported(r, e)
        PROVE  P
    <2>1. tx[r] \in Tx /\ tx[r] # NoTx
      BY <1>a, <1>8, OpenTx DEF TxPcs, PushOk, PushGone, PushError, PushMisreported
    <2>2. /\ UNCHANGED row
          /\ \A o \in Runners \ {r} : tx'[o] = tx[o]
          /\ tx'[r].batch = tx[r].batch /\ tx'[r].push = tx[r].push
          /\ tx'[r].pushNew = tx[r].pushNew /\ tx'[r].emailNew = tx[r].emailNew
      BY <1>a, <1>8, PushStepTx
    <2>3. tx'[r].ok => tx[r].ok \/ "web_push" \in backed'[tx[r].batch]
      BY <1>a, <1>8, PushStepTx
    <2>4. \A b \in Batches : backed[b] \subseteq backed'[b]
      BY <1>a, <1>8, PushStepTx
    <2>5. \A o \in Runners : tx[o] # NoTx => tx[o].batch \in Batches  BY <1>a DEF TypeOk, Tx
    <2>6. BackedTx'  BY <1>a, <2>1, <2>2, <2>3, <2>4, <2>5 DEF BackedTx
    <2>7. SentIsBacked'  BY <1>a, <2>2, <2>4 DEF SentIsBacked, RowSent
    <2> QED  BY <2>6, <2>7
  <1>9. ASSUME NEW r \in Runners, RecordPush(r) PROVE P
    <2>1. tx[r] \in Tx /\ tx[r] # NoTx  BY <1>a, <1>9, OpenTx DEF TxPcs, RecordPush
    <2>2. CASE tx[r].push = "already"
      <3>1. Quiet  BY <1>9, <2>2 DEF RecordPush
      <3> QED  BY <3>1, <1>q
    <2>3. CASE tx[r].push # "already"
      <3>1. /\ UNCHANGED <<row, backed>>
            /\ \A o \in Runners \ {r} : tx'[o] = tx[o]
            /\ tx'[r].batch = tx[r].batch /\ tx'[r].push = tx[r].push /\ tx'[r].ok = tx[r].ok
            /\ tx'[r].pushNew = PushRow(tx[r]) /\ tx'[r].emailNew = tx[r].emailNew
        BY <1>a, <1>9, <2>1, <2>3 DEF TypeOk, RecordPush, Tx
      <3>2. PushRow(tx[r]).status = "sent" => tx[r].push = "send" /\ tx[r].ok
        BY DEF PushRow, Skipped
      <3> QED  BY <1>a, <2>1, <3>1, <3>2 DEF BackedTx, SentIsBacked, RowSent
    <2> QED  BY <2>2, <2>3
  <1>10. ASSUME NEW r \in Runners, ReadEmail(r) PROVE P
    <2>1. tx[r] \in Tx /\ tx[r] # NoTx  BY <1>a, <1>10, OpenTx DEF TxPcs, ReadEmail
    <2>2. /\ UNCHANGED <<row, backed>>
          /\ \A o \in Runners \ {r} : tx'[o] = tx[o]
          /\ tx'[r].batch = tx[r].batch /\ tx'[r].push = tx[r].push /\ tx'[r].ok = tx[r].ok
          /\ tx'[r].pushNew = tx[r].pushNew
          /\ tx'[r].emailNew = NoRow \/ tx'[r].emailNew.status = "skipped"
      BY <1>a, <1>10, <2>1 DEF TypeOk, ReadEmail, Tx, Skipped
    <2> QED  BY <1>a, <2>1, <2>2 DEF BackedTx, SentIsBacked, RowSent
  <1>11. ASSUME NEW r \in Runners, EmailOk(r) \/ EmailError(r) \/ EmailMisreported(r) PROVE P
    <2>1. tx[r] \in Tx /\ tx[r] # NoTx
      BY <1>a, <1>11, OpenTx DEF TxPcs, EmailOk, EmailError, EmailMisreported
    <2>2. /\ \A o \in Runners \ {r} : tx'[o] = tx[o]
          /\ tx'[r].batch = tx[r].batch /\ tx'[r].push = tx[r].push /\ tx'[r].ok = tx[r].ok
          /\ tx'[r].pushNew = tx[r].pushNew
      BY <1>a, <1>11, <2>1, RecordEmailTx DEF EmailOk, EmailError, EmailMisreported
    <2>3. tx'[r].emailNew.status = "sent" => "email" \in backed'[tx[r].batch]
      <3>1. ASSUME EmailOk(r) PROVE "email" \in backed'[tx[r].batch]
        BY <1>a, <2>1, <3>1 DEF TypeOk, EmailOk, Leaves, Tx
      <3>2. ASSUME EmailError(r) \/ EmailMisreported(r) PROVE tx'[r].emailNew.status = "failed"
        <4>1. tx'[r].emailNew = [status |-> "failed", code |-> "email_failed"]
          BY <1>a, <2>1, <3>2, RecordEmailTx DEF EmailError, EmailMisreported
        <4> QED  BY <4>1
      <3> QED  BY <1>11, <3>1, <3>2
    <2>4. UNCHANGED row /\ \A b \in Batches : backed[b] \subseteq backed'[b]
      <3>1. UNCHANGED row
        BY <1>11 DEF EmailOk, EmailError, EmailMisreported, dbVars
      <3>2. CASE EmailError(r)  BY <3>1, <3>2 DEF EmailError, history
      <3>3. CASE EmailOk(r) \/ EmailMisreported(r)
        <4>1. backed' = [backed EXCEPT ![tx[r].batch] = @ \union {"email"}]
          BY <3>3 DEF EmailOk, EmailMisreported, Leaves
        <4> QED  BY <1>a, <3>1, <4>1 DEF TypeOk
      <3> QED  BY <1>11, <3>2, <3>3
    <2>5. \A o \in Runners : tx[o] # NoTx => tx[o].batch \in Batches  BY <1>a DEF TypeOk, Tx
    <2>6. BackedTx'  BY <1>a, <2>1, <2>2, <2>3, <2>4, <2>5 DEF BackedTx
    <2>7. SentIsBacked'  BY <1>a, <2>4 DEF SentIsBacked, RowSent
    <2> QED  BY <2>6, <2>7
  <1>12. ASSUME NEW r \in Runners, Commit(r) PROVE P
    <2> DEFINE t == tx[r]
    <2>1. t \in Tx /\ t # NoTx /\ pc[r] = "commit"  BY <1>a, <1>12, OpenTx DEF TxPcs, Commit
    <2>2. t.batch \in Batches  BY <2>1 DEF Tx
    <2>3. /\ UNCHANGED backed
          /\ \A o \in Runners : tx'[o] = tx[o] \/ tx'[o] = NoTx
          /\ \A b \in Batches \ {t.batch} : row'[b] = row[b]
          /\ row'[t.batch]["web_push"] = Merge(t.pushBase, t.pushNew, row[t.batch]["web_push"])
          /\ row'[t.batch]["email"] = Merge(t.emailBase, t.emailNew, row[t.batch]["email"])
      BY <1>a, <1>12, <2>2 DEF TypeOk, Commit, Ends
    <2>4. ASSUME row'[t.batch]["web_push"] # NoRow, row'[t.batch]["web_push"].status = "sent"
          PROVE  "web_push" \in backed[t.batch]
      <3>1. RowSent(t.batch, "web_push") \/ (t.pushNew # NoRow /\ t.pushNew.status = "sent")
        <4>1. CASE t.pushNew = NoRow  BY <2>3, <2>4, <4>1 DEF Merge, RowSent
        <4>2. CASE t.pushNew # NoRow
          <5>1. t.pushBase \in Row \union {NoRow} /\ t.pushNew \in Row \union {NoRow}
            BY <2>1 DEF Tx
          <5>2. row[t.batch]["web_push"] \in Row \union {NoRow}
            BY <1>a, <2>2 DEF TypeOk, Channels
          <5>3. t.pushBase # NoRow /\ t.pushNew # t.pushBase => row[t.batch]["web_push"] # NoRow
            BY <1>12, <4>2, CommitFinds
          <5> DEFINE m == Merge(t.pushBase, t.pushNew, row[t.batch]["web_push"])
          <5>4. m # NoRow /\ m.status = "sent"  BY <2>3, <2>4
          <5>5. \/ row[t.batch]["web_push"] # NoRow /\ row[t.batch]["web_push"].status = "sent"
                \/ t.pushNew # NoRow /\ t.pushNew.status = "sent"
            BY <5>1, <5>2, <5>3, <5>4, MergeSent
          <5> QED  BY <5>5 DEF RowSent
        <4> QED  BY <4>1, <4>2
      <3> QED  BY <1>a, <2>1, <2>2, <3>1 DEF BackedTx, SentIsBacked, Channels
    <2>5. ASSUME row'[t.batch]["email"] # NoRow, row'[t.batch]["email"].status = "sent"
          PROVE  "email" \in backed[t.batch]
      <3>1. RowSent(t.batch, "email") \/ (t.emailNew # NoRow /\ t.emailNew.status = "sent")
        <4>1. CASE t.emailNew = NoRow  BY <2>3, <2>5, <4>1 DEF Merge, RowSent
        <4>2. CASE t.emailNew # NoRow
          <5>1. t.emailBase \in Row \union {NoRow} /\ t.emailNew \in Row \union {NoRow}
            BY <2>1 DEF Tx
          <5>2. row[t.batch]["email"] \in Row \union {NoRow}
            BY <1>a, <2>2 DEF TypeOk, Channels
          <5>3. t.emailBase # NoRow /\ t.emailNew # t.emailBase => row[t.batch]["email"] # NoRow
            BY <1>12, <4>2, CommitFinds
          <5> DEFINE m == Merge(t.emailBase, t.emailNew, row[t.batch]["email"])
          <5>4. m # NoRow /\ m.status = "sent"  BY <2>3, <2>5
          <5>5. \/ row[t.batch]["email"] # NoRow /\ row[t.batch]["email"].status = "sent"
                \/ t.emailNew # NoRow /\ t.emailNew.status = "sent"
            BY <5>1, <5>2, <5>3, <5>4, MergeSent
          <5> QED  BY <5>5 DEF RowSent
        <4> QED  BY <4>1, <4>2
      <3> QED  BY <1>a, <2>1, <2>2, <3>1 DEF BackedTx, SentIsBacked, Channels
    <2>6. BackedTx'  BY <1>a, <2>3 DEF BackedTx
    <2>7. SentIsBacked'  BY <1>a, <2>2, <2>3, <2>4, <2>5 DEF SentIsBacked, RowSent, Channels
    <2> QED  BY <2>6, <2>7
  <1> QED  BY <1>1, <1>2, <1>3, <1>4, <1>5, <1>6, <1>7, <1>8, <1>9, <1>10, <1>11, <1>12
           DEF Next, Start, Cycle, Dispatch, Faults

-----------------------------------------------------------------------------
(* Inv is inductive.                                                        *)
LEMMA NextInv == Inv /\ [Next]_vars => Inv'
  <1> SUFFICES ASSUME Inv, [Next]_vars PROVE Inv'  OBVIOUS
  <1>1. CASE Next  BY <1>1, NextType, NextRows, NextBacked DEF Inv
  <1>2. CASE UNCHANGED vars
    BY <1>2 DEF vars, runVars, dbVars, userVars, history, bounds, Inv, Typed, TypeOk, TxOpen,
                NoOrphanDelivery, LockedRows, HoldsPush, Flushed, BackedTx, SentIsBacked, RowSent
  <1> QED  BY <1>1, <1>2

(* The invariant of every deployment, with or without delivery jobs.        *)
THEOREM Invariant == Spec => []Inv
  BY InitInv, NextInv, PTL DEF Spec

(* Every variable stays in its type, whatever runners are deployed.         *)
THEOREM TypeCorrect == Spec => []TypeOk
  <1>1. Inv => TypeOk  BY DEF Inv, Typed
  <1> QED  BY Invariant, <1>1, PTL

(* A row says "sent" only for what really left, with any number of          *)
(* dispatchers, crashes and lost replies.                                   *)
THEOREM SentBacked == Spec => []SentIsBacked
  <1>1. Inv => SentIsBacked  BY DEF Inv
  <1> QED  BY Invariant, <1>1, PTL

-----------------------------------------------------------------------------
(* The lock file: whoever runs holds it.                                    *)
Mutex == \A r \in Runners : pc[r] # "idle" => flock = r

(* What was selected is still to be announced when its turn comes.          *)
QueuePending == \A r \in Runners :
    /\ queue[r] # {} => pc[r] \in {"next"} \union TxPcs
    /\ \A b \in queue[r] : Pending(b)

(* What a transaction has read stays true until it ends, and it announces   *)
(* by one channel.                                                          *)
TxHeld(r) ==
    /\ Pending(tx[r].batch)
    /\ batch[tx[r].batch] = tx[r].count
    /\ tx[r].batch \notin queue[r]
    /\ tx[r].push # "already"
    /\ tx[r].pushBase = row[tx[r].batch]["web_push"]
    /\ tx[r].emailNew # NoRow => tx[r].emailBase = row[tx[r].batch]["email"]
    /\ tx[r].pushNew # NoRow /\ tx[r].pushNew.status = "sent" => tx[r].ok
    /\ tx[r].emailNew # NoRow /\ tx[r].emailNew.status = "sent" => ~tx[r].ok
    /\ pc[r] = "push" => tx[r].pushNew = NoRow /\ tx[r].emailNew = NoRow
    /\ pc[r] = "flush" => tx[r].emailNew = NoRow
    /\ pc[r] = "email" => ~tx[r].ok /\ tx[r].emailBase = row[tx[r].batch]["email"]
TxHolds == \A r \in Runners : tx[r] # NoTx => TxHeld(r)

(* A batch nothing is recorded for, or about to be: every transaction that  *)
(* told its user of it has been lost.                                       *)
Unrecorded(b) == /\ ~Sent(b) /\ ~(b \in old /\ batch[b] = Absent)
                 /\ \A r \in Runners : Dispatching(r, b) => tx[r].left = {}
Ledger == \A b \in Batches : /\ told[b] <= lost[b] + 1
                             /\ Unrecorded(b) => told[b] <= lost[b]

(* What is recorded as sent of a batch is one channel.                      *)
OneRecord == \A b \in Batches : ~(RowSent(b, "web_push") /\ RowSent(b, "email"))

(* A batch of which no message was missed: while it is not recorded, all    *)
(* that left for it left in the transaction under way; and both channels    *)
(* announce only what an unheard push precedes.  Email is the last to leave.*)
Open(b)     == ~Sent(b) /\ ~(b \in old /\ batch[b] = Absent)
LeftNow(b)  == \A c \in backed[b] : \E r \in Runners : Dispatching(r, b) /\ c \in tx[r].left
Explained(b) == backed[b] = Channels => \E r \in Runners : Unheard(r, b)
MailLast(r) == "email" \in tx[r].left => pc[r] = "commit" /\ ~tx[r].ok
Account == /\ \A r \in Runners : tx[r] # NoTx => MailLast(r)
           /\ \A b \in Batches : missed[b] = {} => Explained(b) /\ (Open(b) => LeftNow(b))

SoloInv == Inv /\ Mutex /\ QueuePending /\ TxHolds /\ OneRecord /\ Ledger /\ Account

(* The invariant holds at the start.                                        *)
LEMMA InitSolo == Init => SoloInv
  <1> SUFFICES ASSUME Init PROVE SoloInv  OBVIOUS
  <1>1. Inv  BY InitInv
  <1>2. Mutex /\ QueuePending /\ TxHolds  BY DEF Init, Mutex, QueuePending, TxHolds
  <1>3. OneRecord  BY DEF Init, OneRecord, RowSent, Channels
  <1>4. Ledger  BY DEF Init, Ledger
  <1>5. Account  BY DEF Init, Account, Explained, LeftNow, Channels
  <1> QED  BY <1>1, <1>2, <1>3, <1>4, <1>5 DEF SoloInv

(* While one runs the others are idle.                                      *)
LEMMA Alone ==
    ASSUME SoloInv, NEW r \in Runners, pc[r] # "idle"
    PROVE  \A o \in Runners \ {r} : pc[o] = "idle" /\ tx[o] = NoTx /\ queue[o] = {}
  BY DEF SoloInv, Mutex, QueuePending, Inv, Typed, TxOpen, TxPcs

-----------------------------------------------------------------------------
(* The lock, and where a queue may be non-empty.                            *)
LEMMA NextMutex ==
    ASSUME Jobs = {}, SoloInv, Next
    PROVE  Mutex'
  <1> USE DEF vars, runVars, Mutex
  <1>a. TypeOk /\ Mutex /\ Runners = Cron  BY DEF SoloInv, Inv, Typed, Runners
  <1>1. ASSUME NEW r \in Runners, Start(r) PROVE Mutex'
    BY <1>a, <1>1, RunnersAssumption DEF TypeOk, Start, StartCron, StartJob
  <1>2. ASSUME NEW r \in Runners, Generate(r) \/ Purge(r) \/ Select(r) PROVE Mutex'
    BY <1>a, <1>2 DEF TypeOk, Generate, Purge, Select
  <1>3. ASSUME NEW r \in Runners, Finish(r) \/ Crash(r) \/ PurgeFails(r) PROVE Mutex'
    <2>1. pc[r] # "idle"  BY <1>3 DEF Finish, Crash, PurgeFails
    <2>2. \A o \in Runners \ {r} : pc[o] = "idle"  BY <2>1, Alone
    <2>3. pc' = [pc EXCEPT ![r] = "idle"]  BY <1>3 DEF Finish, Crash, PurgeFails, Stop
    <2>4. \A o \in Runners : pc'[o] = "idle"  BY <1>a, <2>2, <2>3 DEF TypeOk
    <2> QED  BY <2>4
  <1>4. ASSUME NEW r \in Runners, NEW b \in Batches,
               Load(r, b) \/ LoadEmpty(r, b) \/ LoadMissing(r, b)
        PROVE  Mutex'
    BY <1>a, <1>4 DEF TypeOk, Load, LoadEmpty, LoadMissing
  <1>5. ASSUME NEW r \in Runners, NEW e \in Endpoints,
               PushOk(r, e) \/ PushGone(r, e) \/ PushError(r, e) \/ PushMisreported(r, e)
        PROVE  Mutex'
    BY <1>a, <1>5 DEF TypeOk, PushOk, PushGone, PushError, PushMisreported
  <1>6. ASSUME NEW r \in Runners, RecordPush(r) \/ ReadEmail(r) \/ Commit(r) PROVE Mutex'
    BY <1>a, <1>6 DEF TypeOk, RecordPush, ReadEmail, Commit
  <1>7. ASSUME NEW r \in Runners, EmailOk(r) \/ EmailError(r) \/ EmailMisreported(r) PROVE Mutex'
    BY <1>a, <1>7 DEF TypeOk, EmailOk, EmailError, EmailMisreported, RecordEmail
  <1>8. ASSUME NEW r \in Runners, FlushFails(r) \/ DispatchFails(r) PROVE Mutex'
    <2>1. pc[r] # "idle"
      BY <1>8 DEF FlushFails, DispatchFails, SoloInv, Inv, Typed, TxOpen, TxPcs
    <2> QED  BY <1>a, <1>8, <2>1 DEF TypeOk, FlushFails, DispatchFails, Rollback
  <1>9. ASSUME Outside PROVE Mutex'
    BY <1>a, <1>9 DEF Outside, AgeOut, Subscribe, Unsubscribe, SaveSettings
  <1> QED  BY <1>1, <1>2, <1>3, <1>4, <1>5, <1>6, <1>7, <1>8, <1>9
           DEF Next, Cycle, Dispatch, Faults

-----------------------------------------------------------------------------
(* Selected batches and open transactions stay as they were read.           *)

(* A pending batch stays pending while rows and batches stay.               *)
LEMMA PendingKept ==
    ASSUME UNCHANGED <<batch, row>>, NEW b \in Batches
    PROVE  Pending(b)' <=> Pending(b)
  BY DEF Pending, Sent, RowSent

(* Nothing that happens outside the runners touches what they rely on.      *)
LEMMA OutsideHolds ==
    ASSUME SoloInv, Outside
    PROVE  /\ UNCHANGED <<pc, queue, tx, batch, row, history, flock>>
           /\ \A b \in Batches : b \in old' => b \in old \/ batch[b] # Absent
           /\ old \subseteq old'
  BY DEF Outside, AgeOut, Subscribe, Unsubscribe, SaveSettings, runVars, dbVars, history

(* QueuePending and TxHolds are kept by every step.                         *)
LEMMA NextHolds ==
    ASSUME Jobs = {}, SoloInv, Next
    PROVE  QueuePending' /\ TxHolds'
  <1> USE DEF vars, runVars, dbVars, userVars, history, bounds
  <1>a. TypeOk /\ TxOpen /\ QueuePending /\ TxHolds  BY DEF SoloInv, Inv, Typed
  <1>i. Inv  BY DEF SoloInv
  <1> DEFINE P == QueuePending' /\ TxHolds'
  <1>0. \A r \in Runners : pc[r] # "idle" =>
           \A o \in Runners \ {r} : pc[o] = "idle" /\ tx[o] = NoTx /\ queue[o] = {}
    BY Alone
  (* Only r, whose transaction and queue are as described, is not idle.     *)
  <1>s. ASSUME NEW r \in Runners, pc[r] # "idle",
               \A o \in Runners \ {r} : pc'[o] = pc[o] /\ tx'[o] = tx[o] /\ queue'[o] = queue[o],
               queue'[r] # {} => pc'[r] \in {"next"} \union TxPcs,
               \A b \in queue'[r] : Pending(b)',
               tx'[r] = NoTx
        PROVE  P
    BY <1>0, <1>s DEF QueuePending, TxHolds
  (* The same when r goes on with its transaction.                          *)
  <1>t. ASSUME NEW r \in Runners, pc[r] # "idle", UNCHANGED <<batch, row>>,
               \A o \in Runners \ {r} : pc'[o] = pc[o] /\ tx'[o] = tx[o] /\ queue'[o] = queue[o],
               pc'[r] \in TxPcs, queue'[r] \subseteq queue[r], TxHeld(r)'
        PROVE  P
    <2>1. \A b \in queue'[r] : Pending(b)'  BY <1>a, <1>t, PendingKept DEF QueuePending, TypeOk
    <2> QED  BY <1>0, <1>t, <2>1 DEF QueuePending, TxHolds
  <1>1. ASSUME NEW r \in Runners, Start(r) PROVE P
    <2>1. UNCHANGED <<batch, row, tx, queue>> /\ queue[r] = {} /\ tx[r] = NoTx
          /\ \A o \in Runners \ {r} : pc'[o] = pc[o]
      BY <1>a, <1>1 DEF TypeOk, TxOpen, QueuePending, TxPcs, Start, StartCron, StartJob
    <2> QED  BY <1>a, <2>1 DEF QueuePending, TxHolds, TxHeld, Pending, Sent, RowSent
  <1>2. ASSUME NEW r \in Runners, Generate(r) \/ Purge(r) PROVE P
    <2>1. pc[r] \in {"generate", "purge"} /\ queue[r] = {} /\ tx[r] = NoTx
      BY <1>a, <1>2 DEF TypeOk, TxOpen, QueuePending, TxPcs, Generate, Purge
    <2>2. UNCHANGED <<tx, queue>> /\ \A o \in Runners \ {r} : pc'[o] = pc[o]
      BY <1>a, <1>2 DEF TypeOk, Generate, Purge
    <2> QED  BY <2>1, <2>2, <1>s
  <1>3. ASSUME NEW r \in Runners, Select(r) PROVE P
    <2>1. pc[r] = "select" /\ tx[r] = NoTx /\ UNCHANGED <<tx, batch, row>>
          /\ pc'[r] = "next" /\ queue'[r] \subseteq {b \in Batches : Pending(b)}
          /\ \A o \in Runners \ {r} : pc'[o] = pc[o] /\ queue'[o] = queue[o]
      BY <1>a, <1>3 DEF TypeOk, TxOpen, TxPcs, Select, Oldest
    <2>2. \A b \in queue'[r] : Pending(b)'  BY <2>1, PendingKept
    <2> QED  BY <2>1, <2>2, <1>s
  <1>4. ASSUME NEW r \in Runners, Finish(r) \/ Crash(r) \/ PurgeFails(r) PROVE P
    <2>1. pc[r] # "idle" /\ queue'[r] = {} /\ tx'[r] = NoTx
          /\ \A o \in Runners \ {r} : pc'[o] = pc[o] /\ tx'[o] = tx[o] /\ queue'[o] = queue[o]
      BY <1>a, <1>4 DEF TypeOk, Finish, Crash, PurgeFails, Stop
    <2> QED  BY <2>1, <1>s
  <1>5. ASSUME NEW r \in Runners, FlushFails(r) \/ DispatchFails(r) PROVE P
    <2>1. pc[r] # "idle" /\ tx'[r] = NoTx /\ pc'[r] = "next" /\ UNCHANGED <<batch, row, queue>>
          /\ \A o \in Runners \ {r} : pc'[o] = pc[o] /\ tx'[o] = tx[o]
      BY <1>a, <1>5 DEF TypeOk, TxOpen, TxPcs, FlushFails, DispatchFails, Rollback
    <2>2. \A b \in queue'[r] : Pending(b)'
      BY <1>a, <2>1, PendingKept DEF QueuePending, TypeOk
    <2> QED  BY <2>1, <2>2, <1>s
  <1>6. ASSUME Outside PROVE P
    <2>1. UNCHANGED <<pc, queue, tx, batch, row>>  BY <1>6, OutsideHolds
    <2> QED  BY <1>a, <2>1 DEF QueuePending, TxHolds, TxHeld, Pending, Sent, RowSent
  <1>7. ASSUME NEW r \in Runners, NEW b \in Batches, LoadEmpty(r, b) \/ LoadMissing(r, b) PROVE P
    BY <1>a, <1>7 DEF LoadEmpty, LoadMissing, QueuePending, Pending
  <1>8. ASSUME NEW r \in Runners, NEW b \in Batches, Load(r, b) PROVE P
    <2>1. pc[r] = "next" /\ pc'[r] = "push" /\ UNCHANGED <<batch, row>>
          /\ queue'[r] = queue[r] \ {b} /\ b \in queue[r]
          /\ \A o \in Runners \ {r} : pc'[o] = pc[o] /\ tx'[o] = tx[o] /\ queue'[o] = queue[o]
      BY <1>a, <1>8 DEF TypeOk, Load
    <2>2. tx'[r] = NewTx(r, b)  BY <1>a, <1>8 DEF TypeOk, Load
    <2>3. Pending(b) /\ Pending(b)'  BY <1>a, <2>1, PendingKept DEF QueuePending
    <2>4. PushPlan(conf[r], b) # "already"
      BY <2>3 DEF PushPlan, Pending, Sent, Channels
    <2>5. TxHeld(r)'  BY <2>1, <2>2, <2>3, <2>4 DEF TxHeld, NewTx
    <2> QED  BY <2>1, <2>5, <1>t DEF TxPcs
  <1>9. ASSUME NEW r \in Runners, NEW e \in Endpoints,
               PushOk(r, e) \/ PushGone(r, e) \/ PushError(r, e) \/ PushMisreported(r, e)
        PROVE  P
    <2>1. /\ pc[r] = "push" /\ UNCHANGED <<pc, queue, batch, row>>
          /\ \A o \in Runners \ {r} : tx'[o] = tx[o]
          /\ tx'[r].batch = tx[r].batch /\ tx'[r].push = tx[r].push
          /\ tx'[r].count = tx[r].count
          /\ tx'[r].pushBase = tx[r].pushBase
          /\ tx'[r].pushNew = tx[r].pushNew /\ tx'[r].emailNew = tx[r].emailNew
      BY <1>a, <1>9, PushStepTx
    <2>2. tx[r] \in Tx /\ tx[r] # NoTx  BY <1>i, <1>a, <2>1, OpenTx DEF TxPcs
    <2>3. TxHeld(r)  BY <1>a, <2>2 DEF TxHolds
    <2>4. Pending(tx[r].batch)'  BY <2>1, <2>3 DEF TxHeld, Pending, Sent, RowSent
    <2>5. tx[r].pushNew = NoRow  BY <2>1, <2>3 DEF TxHeld
    <2>6. TxHeld(r)'  BY <2>1, <2>3, <2>4, <2>5 DEF TxHeld
    <2> QED  BY <2>1, <2>6, <1>t DEF TxPcs
  <1>10. ASSUME NEW r \in Runners, RecordPush(r) PROVE P
    <2>1. pc[r] = "push" /\ pc'[r] = "flush" /\ UNCHANGED <<queue, batch, row>>
          /\ \A o \in Runners \ {r} : pc'[o] = pc[o] /\ tx'[o] = tx[o]
      BY <1>a, <1>10 DEF TypeOk, RecordPush
    <2>2. tx[r] \in Tx /\ tx[r] # NoTx  BY <1>i, <1>a, <2>1, OpenTx DEF TxPcs
    <2>3. TxHeld(r)  BY <1>a, <2>2 DEF TxHolds
    <2>4. /\ tx'[r].batch = tx[r].batch /\ tx'[r].push = tx[r].push /\ tx'[r].ok = tx[r].ok
          /\ tx'[r].count = tx[r].count
          /\ tx'[r].pushBase = Base(tx[r].pushBase, tx[r].batch, "web_push")
          /\ tx'[r].pushNew = PushRow(tx[r]) /\ tx'[r].emailNew = tx[r].emailNew
      BY <1>a, <1>10, <2>2, <2>3 DEF TypeOk, RecordPush, Tx, TxHeld
    <2>5. Pending(tx[r].batch)'  BY <2>1, <2>3, <2>4 DEF TxHeld, Pending, Sent, RowSent
    <2>6. PushRow(tx[r]).status = "sent" => tx[r].ok  BY DEF PushRow, Skipped
    <2>7. TxHeld(r)'  BY <2>1, <2>3, <2>4, <2>5, <2>6 DEF TxHeld, Base
    <2> QED  BY <2>1, <2>7, <1>t DEF TxPcs
  <1>11. ASSUME NEW r \in Runners, ReadEmail(r) PROVE P
    <2>1. pc[r] = "flush" /\ UNCHANGED <<queue, batch, row>>
          /\ pc'[r] = (IF EmailPlan(conf[r], tx[r]) = "send" THEN "email" ELSE "commit")
          /\ \A o \in Runners \ {r} : pc'[o] = pc[o] /\ tx'[o] = tx[o]
      BY <1>a, <1>11 DEF TypeOk, ReadEmail
    <2>2. tx[r] \in Tx /\ tx[r] # NoTx  BY <1>i, <1>a, <2>1, OpenTx DEF TxPcs
    <2>3. TxHeld(r)  BY <1>a, <2>2 DEF TxHolds
    <2>4. /\ tx'[r].batch = tx[r].batch /\ tx'[r].push = tx[r].push /\ tx'[r].ok = tx[r].ok
          /\ tx'[r].count = tx[r].count
          /\ tx'[r].pushBase = tx[r].pushBase /\ tx'[r].pushNew = tx[r].pushNew
          /\ tx'[r].emailBase = row[tx[r].batch]["email"]
          /\ tx'[r].emailNew = NoRow \/ tx'[r].emailNew.status = "skipped"
      BY <1>a, <1>11, <2>2 DEF TypeOk, ReadEmail, Tx, Skipped
    <2>5. Pending(tx[r].batch)'  BY <2>1, <2>3, <2>4 DEF TxHeld, Pending, Sent, RowSent
    <2>6. EmailPlan(conf[r], tx[r]) = "send" => ~tx[r].ok  BY DEF EmailPlan, EmailNeeded
    <2>7. TxHeld(r)'  BY <2>1, <2>3, <2>4, <2>5, <2>6 DEF TxHeld
    <2> QED  BY <2>1, <2>7, <1>t DEF TxPcs
  <1>12. ASSUME NEW r \in Runners, EmailOk(r) \/ EmailError(r) \/ EmailMisreported(r) PROVE P
    <2>1. pc[r] = "email" /\ UNCHANGED <<queue, batch, row>>
      BY <1>12 DEF EmailOk, EmailError, EmailMisreported
    <2>2. tx[r] \in Tx /\ tx[r] # NoTx  BY <1>i, <1>a, <2>1, OpenTx DEF TxPcs
    <2>3. TxHeld(r)  BY <1>a, <2>2 DEF TxHolds
    <2>4. /\ pc' = [pc EXCEPT ![r] = "commit"]
          /\ \A o \in Runners \ {r} : tx'[o] = tx[o]
          /\ tx'[r].batch = tx[r].batch /\ tx'[r].push = tx[r].push /\ tx'[r].ok = tx[r].ok
          /\ tx'[r].count = tx[r].count
          /\ tx'[r].pushBase = tx[r].pushBase /\ tx'[r].pushNew = tx[r].pushNew
          /\ tx'[r].emailBase = Base(tx[r].emailBase, tx[r].batch, "email")
      BY <1>a, <1>12, <2>2, RecordEmailTx DEF EmailOk, EmailError, EmailMisreported
    <2>5. Pending(tx[r].batch)'  BY <2>1, <2>3, <2>4 DEF TxHeld, Pending, Sent, RowSent
    <2>6. TxHeld(r)'  BY <1>a, <2>1, <2>3, <2>4, <2>5 DEF TxHeld, Base, TypeOk
    <2>7. pc'[r] = "commit" /\ \A o \in Runners \ {r} : pc'[o] = pc[o]
      BY <1>a, <2>4 DEF TypeOk
    <2> QED  BY <2>1, <2>4, <2>6, <2>7, <1>t DEF TxPcs
  <1>13. ASSUME NEW r \in Runners, Commit(r) PROVE P
    <2>1. pc[r] = "commit" /\ pc'[r] = "next" /\ tx'[r] = NoTx /\ UNCHANGED <<batch, queue>>
          /\ \A o \in Runners \ {r} : pc'[o] = pc[o] /\ tx'[o] = tx[o]
      BY <1>a, <1>13 DEF TypeOk, Commit
    <2>2. tx[r] \in Tx /\ tx[r] # NoTx  BY <1>i, <1>a, <2>1, OpenTx DEF TxPcs
    <2>3. TxHeld(r)  BY <1>a, <2>2 DEF TxHolds
    <2>4. \A b \in Batches \ {tx[r].batch} : row'[b] = row[b]
      BY <1>a, <1>13 DEF TypeOk, Commit
    <2>5. ASSUME NEW b \in queue'[r] PROVE Pending(b)'
      <3>1. b \in Batches /\ b # tx[r].batch /\ Pending(b)
        BY <1>a, <2>1, <2>3 DEF TxHeld, QueuePending, TypeOk
      <3>2. batch'[b] = batch[b] /\ row'[b] = row[b]  BY <2>1, <2>4, <3>1
      <3> QED  BY <3>1, <3>2 DEF Pending, Sent, RowSent
    <2> QED  BY <2>1, <2>5, <1>s
  <1> QED  BY <1>1, <1>2, <1>3, <1>4, <1>5, <1>6, <1>7, <1>8, <1>9, <1>10, <1>11, <1>12, <1>13
           DEF Next, Cycle, Dispatch, Faults

-----------------------------------------------------------------------------
(* The ledger of what was told and what was lost.                           *)

(* An upsert over the row it read records the announcement it was given.    *)
LEMMA MergeNewSent ==
    ASSUME NEW base \in Row \union {NoRow}, NEW new \in Row, new.status = "sent",
           base # NoRow => base.status # "sent"
    PROVE  Merge(base, new, base) # NoRow /\ Merge(base, new, base).status = "sent"
  <1>1. new # NoRow /\ new # base  BY RowAssumption
  <1>2. CASE base = NoRow  BY <1>1, <1>2 DEF Merge
  <1>3. CASE base # NoRow
    <2>1. base \in Row /\ Merge(base, new, base) # NoRow  BY <1>3, MergeRow
    <2>2. Merge(base, new, base) =
            [column \in {"status", "code"} |->
               IF new[column] # base[column] THEN new[column] ELSE base[column]]
      BY <1>1, <1>3 DEF Merge
    <2> QED  BY <2>1, <2>2
  <1> QED  BY <1>2, <1>3

(* What a commit leaves of the batch it dispatched: a channel is recorded   *)
(* as sent exactly when the transaction says so.                            *)
LEMMA CommitSent ==
    ASSUME SoloInv, NEW r \in Runners, Commit(r), NEW b \in Batches, tx[r].batch = b
    PROVE  /\ RowSent(b, "web_push")' <=>
                  tx[r].pushNew # NoRow /\ tx[r].pushNew.status = "sent"
           /\ RowSent(b, "email")' <=>
                  tx[r].emailNew # NoRow /\ tx[r].emailNew.status = "sent"
  <1>i. Inv /\ TypeOk /\ TxHolds  BY DEF SoloInv, Inv, Typed
  <1> DEFINE t == tx[r]
  <1>1. pc[r] = "commit" /\ tx'[r] = NoTx  BY <1>i DEF Commit, TypeOk
  <1>2. t \in Tx /\ t # NoTx /\ TxHeld(r)  BY <1>i, <1>1, OpenTx DEF TxPcs, TxHolds
  <1>3. b \in Batches /\ t.pushNew \in Row \union {NoRow} /\ t.emailNew \in Row \union {NoRow}
        /\ row[b]["web_push"] \in Row \union {NoRow} /\ row[b]["email"] \in Row \union {NoRow}
        /\ t.batch = b
    BY <1>i, <1>2 DEF Tx, TypeOk, Channels
  <1>4. ~RowSent(b, "web_push") /\ ~RowSent(b, "email")
    BY <1>2, <1>3 DEF TxHeld, Pending, Sent, Channels
  <1>5. /\ row'[b]["web_push"] = Merge(t.pushBase, t.pushNew, row[b]["web_push"])
        /\ row'[b]["email"] = Merge(t.emailBase, t.emailNew, row[b]["email"])
    BY <1>i, <1>3 DEF Commit, TypeOk
  <1>6. t.pushBase = row[b]["web_push"] /\ (t.emailNew # NoRow => t.emailBase = row[b]["email"])
    BY <1>2, <1>3 DEF TxHeld
  <1>7. ASSUME t.pushNew # NoRow, t.pushNew.status = "sent"
        PROVE  row'[b]["web_push"] # NoRow /\ row'[b]["web_push"].status = "sent"
    BY <1>3, <1>4, <1>5, <1>6, <1>7, MergeNewSent DEF RowSent
  <1>8. ASSUME t.emailNew # NoRow, t.emailNew.status = "sent"
        PROVE  row'[b]["email"] # NoRow /\ row'[b]["email"].status = "sent"
    BY <1>3, <1>4, <1>5, <1>6, <1>8, MergeNewSent DEF RowSent
  <1>9. ASSUME row'[b]["web_push"] # NoRow, row'[b]["web_push"].status = "sent"
        PROVE  t.pushNew # NoRow /\ t.pushNew.status = "sent"
    <2>1. Merge(row[b]["web_push"], t.pushNew, row[b]["web_push"]) = row'[b]["web_push"]
      BY <1>5, <1>6
    <2> QED  BY <1>3, <1>4, <1>9, <2>1, MergeSent DEF RowSent
  <1>10. ASSUME row'[b]["email"] # NoRow, row'[b]["email"].status = "sent"
         PROVE  t.emailNew # NoRow /\ t.emailNew.status = "sent"
    <2>1. CASE t.emailNew = NoRow
      BY <1>4, <1>5, <1>10, <2>1 DEF Merge, RowSent
    <2>2. CASE t.emailNew # NoRow
      <3>1. Merge(row[b]["email"], t.emailNew, row[b]["email"]) = row'[b]["email"]
        BY <1>5, <1>6, <2>2
      <3> QED  BY <1>3, <1>4, <1>10, <3>1, MergeSent DEF RowSent
    <2> QED  BY <2>1, <2>2
  <1>11. row'[b]["web_push"] # NoRow /\ row'[b]["web_push"].status = "sent"
           <=> t.pushNew # NoRow /\ t.pushNew.status = "sent"
    BY <1>7, <1>9
  <1>12. row'[b]["email"] # NoRow /\ row'[b]["email"].status = "sent"
           <=> t.emailNew # NoRow /\ t.emailNew.status = "sent"
    BY <1>8, <1>10
  <1> QED  BY <1>11, <1>12 DEF RowSent

(* Delivery rows change only by a purge or by the commit of a dispatch.     *)
LEMMA RowWriters ==
    ASSUME Next, row' # row
    PROVE  \E r \in Runners : Purge(r) \/ Commit(r)
  <1> USE DEF vars, dbVars
  <1>1. ASSUME NEW r \in Runners, ~Purge(r), ~Commit(r)
        PROVE  ~(Start(r) \/ Cycle(r) \/ Faults(r))
    <2>1. ~Start(r)  BY DEF Start, StartCron, StartJob
    <2>2. ~Generate(r) /\ ~Select(r) /\ ~PurgeFails(r) /\ ~Finish(r) /\ ~Crash(r)
      BY DEF Generate, Select, PurgeFails, Finish, Crash, Stop
    <2>3. ~FlushFails(r) /\ ~DispatchFails(r)
      BY DEF FlushFails, DispatchFails, Rollback
    <2>4. \A b \in Batches : ~(Load(r, b) \/ LoadEmpty(r, b) \/ LoadMissing(r, b))
      BY DEF Load, LoadEmpty, LoadMissing
    <2>5. \A e \in Endpoints :
             ~(PushOk(r, e) \/ PushGone(r, e) \/ PushError(r, e) \/ PushMisreported(r, e))
      BY DEF PushOk, PushGone, PushError, PushMisreported
    <2>6. ~RecordPush(r) /\ ~ReadEmail(r) /\ ~EmailOk(r) /\ ~EmailError(r) /\ ~EmailMisreported(r)
      BY DEF RecordPush, ReadEmail, EmailOk, EmailError, EmailMisreported
    <2> QED  BY <1>1, <2>1, <2>2, <2>3, <2>4, <2>5, <2>6 DEF Cycle, Dispatch, Faults
  <1>2. ~Outside  BY DEF Outside, AgeOut, Subscribe, Unsubscribe, SaveSettings
  <1> QED  BY <1>1, <1>2 DEF Next

(* A batch is recorded as sent by one channel only.                         *)
LEMMA NextOneRecord ==
    ASSUME Jobs = {}, SoloInv, Next
    PROVE  OneRecord'
  <1> USE DEF vars, dbVars, OneRecord
  <1>a. TypeOk /\ TxHolds /\ Inv /\ OneRecord  BY DEF SoloInv, Inv, Typed
  <1>1. CASE UNCHANGED row  BY <1>1, <1>a DEF RowSent
  <1>2. ASSUME NEW r \in Runners, Purge(r) PROVE OneRecord'
    <2>1. \A b \in Batches : row'[b] = row[b] \/ row'[b] = [c \in Channels |-> NoRow]
      BY <1>a, <1>2 DEF Purge, TypeOk
    <2> QED  BY <1>a, <2>1 DEF RowSent, Channels
  <1>3. ASSUME NEW r \in Runners, Commit(r) PROVE OneRecord'
    <2>1. pc[r] = "commit"  BY <1>3 DEF Commit
    <2>2. tx[r] \in Tx /\ tx[r] # NoTx  BY <1>a, <2>1, OpenTx DEF TxPcs
    <2>3. TxHeld(r)  BY <1>a, <2>2 DEF TxHolds
    <2>4. \A b \in Batches \ {tx[r].batch} : row'[b] = row[b]
      BY <1>a, <1>3 DEF TypeOk, Commit
    <2>5. ASSUME NEW b \in Batches, b = tx[r].batch
          PROVE  ~(RowSent(b, "web_push")' /\ RowSent(b, "email")')
      BY <1>3, <2>3, <2>5, CommitSent DEF TxHeld
    <2>6. ASSUME NEW b \in Batches, b # tx[r].batch
          PROVE  ~(RowSent(b, "web_push")' /\ RowSent(b, "email")')
      BY <1>a, <2>4, <2>6 DEF RowSent
    <2> QED  BY <2>5, <2>6
  <1> QED  BY <1>1, <1>2, <1>3, RowWriters

(* A row that says "sent" is lost only with its batch.                      *)
LEMMA RowsFinal ==
    ASSUME Jobs = {}, SoloInv, Next, NEW b \in Batches, NEW c \in Channels,
           RowSent(b, c), batch'[b] # Absent
    PROVE  RowSent(b, c)'
  <1>a. TypeOk /\ TxHolds /\ Inv  BY DEF SoloInv, Inv, Typed
  <1>1. CASE row' = row  BY <1>1 DEF RowSent
  <1>2. ASSUME NEW r \in Runners, Purge(r) PROVE RowSent(b, c)'
    <2>1. row'[b] = row[b]  BY <1>a, <1>2 DEF Purge, TypeOk
    <2> QED  BY <2>1 DEF RowSent
  <1>3. ASSUME NEW r \in Runners, Commit(r) PROVE RowSent(b, c)'
    <2>1. pc[r] = "commit"  BY <1>3 DEF Commit
    <2>2. TxHeld(r)  BY <1>a, <2>1, OpenTx DEF TxPcs, TxHolds
    <2>3. b # tx[r].batch  BY <2>2 DEF TxHeld, Pending, Sent
    <2>4. row'[b] = row[b]  BY <1>a, <1>3, <2>3 DEF TypeOk, Commit
    <2> QED  BY <2>4 DEF RowSent
  <1> QED  BY <1>1, <1>2, <1>3, RowWriters

(* The ledger balances: a message leaves for a batch only while nothing is  *)
(* recorded for it, and what leaves is recorded or lost.                    *)
LEMMA NextLedger ==
    ASSUME Jobs = {}, SoloInv, Next
    PROVE  Ledger'
  <1> USE DEF vars, runVars, dbVars, userVars, history, bounds
  <1>a. TypeOk /\ TxOpen /\ QueuePending /\ TxHolds /\ Inv /\ Ledger
    BY DEF SoloInv, Inv, Typed
  <1>b. told \in [Batches -> Nat] /\ lost \in [Batches -> Nat]  BY <1>a DEF TypeOk
  <1>0. \A r \in Runners : pc[r] # "idle" => \A o \in Runners \ {r} : tx[o] = NoTx
    BY Alone
  (* Nothing is told or lost, and nothing becomes unrecorded.               *)
  <1>q. ASSUME UNCHANGED <<told, lost>>, \A b \in Batches : Unrecorded(b)' => Unrecorded(b)
        PROVE  Ledger'
    BY <1>a, <1>q DEF Ledger
  (* r loses its transaction.                                               *)
  <1>e. ASSUME NEW r \in Runners, tx[r] # NoTx => tx[r] \in Tx /\ TxHeld(r),
               Ends(r, FALSE), tx'[r] = NoTx,
               \A o \in Runners \ {r} : tx'[o] = tx[o], UNCHANGED <<row, batch, old>>
        PROVE  Ledger'
    <2>1. CASE tx[r] # NoTx /\ tx[r].left # {}
      <3>1. tx[r].batch \in Batches /\ UNCHANGED told
            /\ lost' = [lost EXCEPT ![tx[r].batch] = @ + 1]
        BY <1>e, <2>1 DEF Ends, Tx
      <3>2. ASSUME NEW b \in Batches, b # tx[r].batch PROVE Unrecorded(b)' => Unrecorded(b)
        BY <1>e, <3>2 DEF Unrecorded, Dispatching, Sent, RowSent
      <3> QED  BY <1>a, <1>b, <3>1, <3>2 DEF Ledger
    <2>2. CASE ~(tx[r] # NoTx /\ tx[r].left # {})
      <3>1. UNCHANGED <<told, lost>>  BY <1>e, <2>2 DEF Ends
      <3>2. \A b \in Batches : Unrecorded(b)' => Unrecorded(b)
        BY <1>e, <2>2 DEF Unrecorded, Dispatching, Sent, RowSent
      <3> QED  BY <3>1, <3>2, <1>q
    <2> QED  BY <2>1, <2>2
  (* A message leaves.                                                      *)
  <1>l. ASSUME NEW r \in Runners, pc[r] \in TxPcs, NEW c \in Channels, Leaves(r, c),
               tx'[r] # NoTx, tx'[r].batch = tx[r].batch, c \in tx'[r].left,
               \A o \in Runners \ {r} : tx'[o] = tx[o], UNCHANGED <<row, batch, old>>
        PROVE  Ledger'
    <2>1. tx[r] \in Tx /\ tx[r] # NoTx  BY <1>a, <1>l, OpenTx
    <2>2. TxHeld(r) /\ tx[r].batch \in Batches  BY <1>a, <2>1 DEF TxHolds, Tx
    <2>3. \A o \in Runners \ {r} : tx[o] = NoTx  BY <1>0, <1>l DEF TxPcs
    <2>4. ~Unrecorded(tx[r].batch)'
      BY <1>l DEF Unrecorded, Dispatching
    <2>5. ASSUME NEW b \in Batches, b # tx[r].batch PROVE Unrecorded(b)' => Unrecorded(b)
      BY <1>l, <2>5 DEF Unrecorded, Dispatching, Sent, RowSent
    <2>6. CASE tx[r].left # {}
      <3>1. UNCHANGED <<told, lost>>  BY <1>l, <2>6 DEF Leaves
      <3>2. \A b \in Batches : Unrecorded(b)' => Unrecorded(b)
        BY <1>l, <2>4, <2>5
      <3> QED  BY <3>1, <3>2, <1>q
    <2>7. CASE tx[r].left = {}
      <3>1. told' = [told EXCEPT ![tx[r].batch] = @ + 1] /\ UNCHANGED lost
        BY <1>l, <2>7 DEF Leaves
      <3>2. Unrecorded(tx[r].batch)
        BY <2>2, <2>3, <2>7 DEF Unrecorded, Dispatching, TxHeld, Pending
      <3> QED  BY <1>a, <1>b, <1>l, <2>2, <2>4, <2>5, <3>1, <3>2 DEF Ledger
    <2> QED  BY <2>6, <2>7
  <1>1. ASSUME NEW r \in Runners,
               Start(r) \/ Generate(r) \/ Select(r) \/ Finish(r) \/ PurgeFails(r)
        PROVE  Ledger'
    <2>1. UNCHANGED <<told, lost, row, old>>
          /\ \A b \in Batches : b \in old => batch'[b] = batch[b]
      BY <1>a, <1>1 DEF TypeOk, Start, StartCron, StartJob, Generate, Select, Finish, PurgeFails, Stop
    <2>2. \A o \in Runners : tx'[o] = tx[o]
      BY <1>a, <1>1 DEF TypeOk, TxOpen, TxPcs, Start, StartCron, StartJob, Generate, Select, Finish,
         PurgeFails, Stop
    <2> QED  BY <1>q, <2>1, <2>2 DEF Unrecorded, Dispatching, Sent, RowSent
  <1>2. ASSUME NEW r \in Runners, Purge(r) PROVE Ledger'
    <2>1. UNCHANGED <<told, lost, old, tx>>  BY <1>2 DEF Purge
    <2>2. \A b \in Batches : IF b \in Expired THEN b \in old /\ batch'[b] = Absent
                                             ELSE batch'[b] = batch[b] /\ row'[b] = row[b]
      BY <1>a, <1>2 DEF Purge, TypeOk, Expired
    <2> QED  BY <1>q, <2>1, <2>2 DEF Unrecorded, Dispatching, Sent, RowSent
  <1>3. ASSUME NEW r \in Runners, NEW b \in Batches,
               Load(r, b) \/ LoadEmpty(r, b) \/ LoadMissing(r, b)
        PROVE  Ledger'
    <2>1. pc[r] = "next" /\ UNCHANGED <<told, lost, row, old, batch>>
      BY <1>3 DEF Load, LoadEmpty, LoadMissing
    <2>2. tx[r] = NoTx  BY <1>a, <2>1 DEF TxOpen, TxPcs
    <2>3. (tx'[r] = NoTx \/ tx'[r].left = {}) /\ \A o \in Runners \ {r} : tx'[o] = tx[o]
      <3>1. CASE Load(r, b)  BY <1>a, <3>1 DEF TypeOk, Load, NewTx
      <3>2. CASE LoadEmpty(r, b)
        <4>1. NewTx(r, b).left = {}  BY DEF NewTx
        <4> QED  BY <1>a, <3>2, <4>1 DEF TypeOk, LoadEmpty
      <3>3. CASE LoadMissing(r, b)  BY <1>a, <2>2, <3>3 DEF TypeOk, LoadMissing
      <3> QED  BY <1>3, <3>1, <3>2, <3>3
    <2> QED  BY <1>q, <2>1, <2>2, <2>3 DEF Unrecorded, Dispatching, Sent, RowSent
  <1>4. ASSUME NEW r \in Runners, NEW e \in Endpoints, PushOk(r, e) \/ PushMisreported(r, e)
        PROVE  Ledger'
    <2>1. pc[r] \in TxPcs /\ Leaves(r, "web_push") /\ UNCHANGED <<row, batch, old>>
      BY <1>4 DEF PushOk, PushMisreported, TxPcs
    <2>2. tx[r] \in Tx  BY <1>a, <2>1, OpenTx
    <2>3. tx'[r] # NoTx /\ tx'[r].batch = tx[r].batch /\ "web_push" \in tx'[r].left
      <3>1. tx'[r] = [tx[r] EXCEPT !.todo = tx[r].todo \ {e}, !.left = tx[r].left \union {"web_push"}]
            \/ tx'[r] = [tx[r] EXCEPT !.todo = tx[r].todo \ {e}, !.ok = TRUE,
                                     !.left = tx[r].left \union {"web_push"}]
        BY <1>a, <1>4 DEF TypeOk, PushOk, PushMisreported
      <3>2. tx'[r] \in Tx /\ tx'[r].batch = tx[r].batch /\ "web_push" \in tx'[r].left
        BY <2>2, <3>1 DEF Tx, Channels
      <3> QED  BY <3>2, TxAssumption
    <2>4. \A o \in Runners \ {r} : tx'[o] = tx[o]  BY <1>a, <1>4, PushStepTx
    <2> QED  BY <2>1, <2>3, <2>4, <1>l DEF Channels
  <1>5. ASSUME NEW r \in Runners, NEW e \in Endpoints, PushGone(r, e) \/ PushError(r, e)
        PROVE  Ledger'
    <2>1. UNCHANGED <<told, lost, row, batch, old>> /\ pc[r] \in TxPcs
      BY <1>5 DEF PushGone, PushError, TxPcs
    <2>2. tx[r] \in Tx /\ tx[r] # NoTx  BY <1>a, <2>1, OpenTx
    <2>3. /\ tx'[r].batch = tx[r].batch /\ tx'[r].left = tx[r].left
          /\ tx'[r] # NoTx
          /\ \A o \in Runners \ {r} : tx'[o] = tx[o]
      <3>1. tx'[r] = [tx[r] EXCEPT !.todo = tx[r].todo \ {e}, !.gone = tx[r].gone \union {e}]
            \/ tx'[r] = [tx[r] EXCEPT !.todo = tx[r].todo \ {e}]
        BY <1>a, <1>5 DEF TypeOk, PushGone, PushError
      <3>2. e \in Endpoints /\ \A o \in Runners \ {r} : tx'[o] = tx[o]
        BY <1>a, <1>5, PushStepTx
      <3>3. tx'[r].batch = tx[r].batch /\ tx'[r].left = tx[r].left
        BY <2>2, <3>1 DEF Tx
      <3>4. tx'[r] # NoTx
        BY <2>1, NextType, <1>a, <1>5, PushStepTx, TxAssumption DEF Typed, TxOpen
      <3> QED  BY <3>2, <3>3, <3>4
    <2> QED  BY <1>q, <2>1, <2>2, <2>3 DEF Unrecorded, Dispatching, Sent, RowSent
  <1>6. ASSUME NEW r \in Runners, RecordPush(r) \/ ReadEmail(r) \/ EmailError(r) PROVE Ledger'
    <2>1. UNCHANGED <<told, lost, row, batch, old>> /\ pc[r] \in TxPcs
      BY <1>6 DEF RecordPush, ReadEmail, EmailError, TxPcs
    <2>2. tx[r] \in Tx /\ tx[r] # NoTx  BY <1>a, <2>1, OpenTx
    <2>3. /\ tx'[r].batch = tx[r].batch /\ tx'[r].left = tx[r].left
          /\ \A o \in Runners \ {r} : tx'[o] = tx[o]
      <3>1. CASE RecordPush(r)
        BY <1>a, <2>2, <3>1 DEF TypeOk, RecordPush, Tx
      <3>2. CASE ReadEmail(r)
        BY <1>a, <2>2, <3>2 DEF TypeOk, ReadEmail, Tx
      <3>3. CASE EmailError(r)
        <4>1. RecordEmail(r, [status |-> "failed", code |-> "email_failed"], {})
          BY <3>3 DEF EmailError
        <4>2. tx'[r].batch = tx[r].batch /\ tx'[r].left = tx[r].left \union {}
              /\ \A o \in Runners \ {r} : tx'[o] = tx[o]
          BY <1>a, <2>2, <4>1, RecordEmailTx
        <4> QED  BY <4>2
      <3> QED  BY <1>6, <3>1, <3>2, <3>3
    <2>4. pc'[r] \in TxPcs
      BY <1>a, <1>6 DEF TypeOk, RecordPush, ReadEmail, EmailError, RecordEmail, TxPcs
    <2>5. tx'[r] # NoTx  BY <2>4, NextType, <1>a, TxAssumption DEF Typed, TxOpen
    <2> QED  BY <1>q, <2>1, <2>2, <2>3, <2>5 DEF Unrecorded, Dispatching, Sent, RowSent
  <1>7. ASSUME NEW r \in Runners, EmailOk(r) \/ EmailMisreported(r) PROVE Ledger'
    <2>1. pc[r] \in TxPcs /\ Leaves(r, "email") /\ UNCHANGED <<row, batch, old>>
      BY <1>7 DEF EmailOk, EmailMisreported, TxPcs
    <2>2. tx[r] \in Tx  BY <1>a, <2>1, OpenTx
    <2>3. /\ tx'[r].batch = tx[r].batch /\ tx'[r].left = tx[r].left \union {"email"}
          /\ \A o \in Runners \ {r} : tx'[o] = tx[o]
      BY <1>a, <1>7, <2>2, RecordEmailTx DEF EmailOk, EmailMisreported
    <2>4. pc'[r] \in TxPcs
      BY <1>a, <1>7 DEF TypeOk, EmailOk, EmailMisreported, RecordEmail, TxPcs
    <2>5. tx'[r] # NoTx  BY <2>4, NextType, <1>a, TxAssumption DEF Typed, TxOpen
    <2> QED  BY <2>1, <2>3, <2>5, <1>l DEF Channels
  <1>8. ASSUME NEW r \in Runners, Commit(r) PROVE Ledger'
    <2>1. /\ pc[r] \in TxPcs /\ tx'[r] = NoTx /\ Ends(r, Announces(tx[r]))
          /\ UNCHANGED <<batch, old>>
          /\ \A o \in Runners \ {r} : tx'[o] = tx[o]
      BY <1>a, <1>8 DEF TypeOk, Commit, TxPcs
    <2>2. tx[r] \in Tx /\ tx[r] # NoTx  BY <1>a, <2>1, OpenTx
    <2>3. TxHeld(r) /\ tx[r].batch \in Batches  BY <1>a, <2>2 DEF TxHolds, Tx
    <2>4. \A b \in Batches \ {tx[r].batch} : row'[b] = row[b]
      BY <1>a, <1>8 DEF TypeOk, Commit
    <2>5. ASSUME NEW b \in Batches, b # tx[r].batch PROVE Unrecorded(b)' => Unrecorded(b)
      BY <2>1, <2>4, <2>5 DEF Unrecorded, Dispatching, Sent, RowSent
    <2>6. CASE tx[r].left # {} /\ Announces(tx[r])
      <3>1. UNCHANGED <<told, lost>>  BY <2>1, <2>6 DEF Ends
      <3>2. ASSUME NEW b \in Batches, b = tx[r].batch PROVE Sent(b)'
        BY <1>8, <2>6, <3>2, CommitSent DEF Sent, Announces, Recorded, Channels
      <3> QED  BY <1>q, <2>5, <3>1, <3>2 DEF Unrecorded
    <2>7. CASE tx[r].left # {} /\ ~Announces(tx[r])
      <3>1. UNCHANGED told /\ lost' = [lost EXCEPT ![tx[r].batch] = @ + 1]
        BY <2>1, <2>2, <2>7 DEF Ends
      <3> QED  BY <1>a, <1>b, <2>3, <2>5, <3>1 DEF Ledger
    <2>8. CASE tx[r].left = {}
      <3>1. UNCHANGED <<told, lost>>  BY <2>1, <2>8 DEF Ends
      <3>2. ASSUME NEW b \in Batches, b = tx[r].batch PROVE Unrecorded(b)' => Unrecorded(b)
        BY <2>1, <2>3, <2>8, <3>2 DEF Unrecorded, Dispatching, TxHeld, Pending
      <3> QED  BY <1>q, <2>5, <3>1, <3>2
    <2> QED  BY <2>6, <2>7, <2>8
  <1>9. ASSUME NEW r \in Runners, FlushFails(r) \/ DispatchFails(r) \/ Crash(r) PROVE Ledger'
    <2>1. /\ Ends(r, FALSE) /\ tx'[r] = NoTx /\ UNCHANGED <<row, batch, old>>
          /\ \A o \in Runners \ {r} : tx'[o] = tx[o]
      BY <1>a, <1>9 DEF TypeOk, FlushFails, DispatchFails, Crash, Rollback, Stop
    <2>2. tx[r] # NoTx => tx[r] \in Tx /\ TxHeld(r)  BY <1>a DEF TypeOk, TxHolds
    <2> QED  BY <2>1, <2>2, <1>e
  <1>10. ASSUME Outside PROVE Ledger'
    <2>1. /\ UNCHANGED <<tx, batch, row, told, lost>>
          /\ old \subseteq old'
      BY <1>10, OutsideHolds
    <2> QED  BY <1>q, <2>1 DEF Unrecorded, Dispatching, Sent, RowSent
  <1> QED  BY <1>1, <1>2, <1>3, <1>4, <1>5, <1>6, <1>7, <1>8, <1>9, <1>10
           DEF Next, Cycle, Dispatch, Faults

-----------------------------------------------------------------------------
(* The channels by which messages left.                                     *)
LEMMA NextAccount ==
    ASSUME Jobs = {}, SoloInv, Next
    PROVE  Account'
  <1> USE DEF vars, runVars, dbVars, userVars, history, bounds
  <1>a. TypeOk /\ TxOpen /\ QueuePending /\ TxHolds /\ Inv /\ Account
    BY DEF SoloInv, Inv, Typed
  <1>b. backed \in [Batches -> SUBSET Channels] /\ missed \in [Batches -> SUBSET Channels]
    BY <1>a DEF TypeOk
  <1>0. \A r \in Runners : pc[r] # "idle" => \A o \in Runners \ {r} : tx[o] = NoTx
    BY Alone
  (* No transaction changes, and no batch becomes open.                     *)
  <1>q. ASSUME UNCHANGED <<backed, missed>>, \A b \in Batches : Open(b)' => Open(b),
               \A o \in Runners : tx'[o] = tx[o] /\ (tx[o] # NoTx => pc'[o] = pc[o])
        PROVE  Account'
    BY <1>a, <1>q DEF Account, MailLast, Explained, LeftNow, Unheard, Dispatching
  (* r goes on, and nothing leaves.                                         *)
  <1>k. ASSUME NEW r \in Runners, pc[r] \in TxPcs \ {"commit"}, tx'[r] # NoTx,
               tx'[r].batch = tx[r].batch, tx'[r].left = tx[r].left, tx'[r].ok = tx[r].ok,
               \A o \in Runners \ {r} : tx'[o] = tx[o],
               UNCHANGED <<row, batch, old, backed, missed>>
        PROVE  Account'
    <2>1. tx[r] # NoTx  BY <1>a, <1>k, OpenTx
    <2>2. \A o \in Runners \ {r} : tx[o] = NoTx  BY <1>0, <1>k DEF TxPcs
    <2>3. "email" \notin tx[r].left  BY <1>a, <1>k, <2>1 DEF Account, MailLast
    <2>4. \A o \in Runners : tx'[o] # NoTx => MailLast(o)'
      BY <1>k, <2>2, <2>3 DEF MailLast
    <2>5. \A b \in Batches : Open(b)' => Open(b)  BY <1>k DEF Open, Sent, RowSent
    <2>6. \A b \in Batches : Explained(b) => Explained(b)'
      BY <1>k, <2>1, <2>2 DEF Explained, Unheard, Dispatching
    <2>7. \A b \in Batches : LeftNow(b) => LeftNow(b)'
      BY <1>k, <2>1, <2>2 DEF LeftNow, Dispatching
    <2> QED  BY <1>a, <1>k, <2>4, <2>5, <2>6, <2>7 DEF Account
  (* r ends, and either nothing had left or it is recorded or missed.       *)
  <1>e. ASSUME NEW r \in Runners, NEW committed \in BOOLEAN,
               tx[r] # NoTx => tx[r] \in Tx, Ends(r, committed), tx'[r] = NoTx,
               pc[r] # "idle", \A o \in Runners \ {r} : tx'[o] = tx[o],
               \A b \in Batches : ~Dispatching(r, b) => (Open(b)' => Open(b)),
               \A b \in Batches : Dispatching(r, b) /\ missed'[b] = {} =>
                  ~Unheard(r, b) /\ (Open(b)' => Open(b) /\ tx[r].left = {})
        PROVE  Account'
    <2>1. \A o \in Runners : tx'[o] = NoTx  BY <1>0, <1>e
    <2>2. UNCHANGED backed /\ \A b \in Batches : missed[b] \subseteq missed'[b]
      BY <1>b, <1>e DEF Ends, Tx
    <2>3. ASSUME NEW b \in Batches, missed'[b] = {}, ~Dispatching(r, b)
          PROVE  Explained(b)' /\ (Open(b)' => LeftNow(b)')
      <3>1. missed[b] = {}  BY <2>2, <2>3
      <3>2. \A o \in Runners : ~Dispatching(o, b)  BY <1>0, <1>e, <2>3 DEF Dispatching
      <3>3. backed[b] # Channels  BY <1>a, <3>1, <3>2 DEF Account, Explained, Unheard
      <3>4. Open(b)' => backed[b] = {}  BY <1>a, <1>e, <2>3, <3>1, <3>2 DEF Account, LeftNow
      <3> QED  BY <2>2, <3>3, <3>4 DEF Explained, LeftNow
    <2>4. ASSUME NEW b \in Batches, missed'[b] = {}, Dispatching(r, b)
          PROVE  Explained(b)' /\ (Open(b)' => LeftNow(b)')
      <3>1. missed[b] = {} /\ tx[r] # NoTx /\ tx[r].batch = b  BY <2>2, <2>4 DEF Dispatching
      <3>2. \A o \in Runners \ {r} : ~Dispatching(o, b)  BY <1>0, <1>e DEF Dispatching
      <3>3. backed[b] # Channels
        BY <1>a, <1>e, <2>4, <3>1, <3>2 DEF Account, Explained, Unheard
      <3>4. ASSUME Open(b)' PROVE backed[b] = {}
        <4>1. Open(b) /\ tx[r].left = {}  BY <1>e, <2>4, <3>1, <3>4
        <4>2. LeftNow(b)  BY <1>a, <3>1, <4>1 DEF Account
        <4> QED  BY <3>2, <4>1, <4>2 DEF LeftNow
      <3> QED  BY <2>2, <3>3, <3>4 DEF Explained, LeftNow
    <2> QED  BY <2>1, <2>3, <2>4 DEF Account
  (* A message leaves.                                                      *)
  <1>l. ASSUME NEW r \in Runners, pc[r] \in TxPcs \ {"commit"}, NEW c \in Channels, Leaves(r, c),
               tx'[r] # NoTx, tx'[r].batch = tx[r].batch, tx'[r].left = tx[r].left \union {c},
               \A o \in Runners \ {r} : tx'[o] = tx[o], UNCHANGED <<row, batch, old>>,
               c = "email" => pc'[r] = "commit" /\ ~tx[r].ok /\ tx'[r].ok = tx[r].ok
        PROVE  Account'
    <2>1. tx[r] \in Tx /\ tx[r] # NoTx  BY <1>a, <1>l, OpenTx
    <2>2. TxHeld(r) /\ tx[r].batch \in Batches  BY <1>a, <2>1 DEF TxHolds, Tx
    <2>3. \A o \in Runners \ {r} : tx[o] = NoTx  BY <1>0, <1>l DEF TxPcs
    <2>4. "email" \notin tx[r].left  BY <1>a, <1>l, <2>1 DEF Account, MailLast
    <2>5. \A o \in Runners : tx'[o] # NoTx => MailLast(o)'
      BY <1>l, <2>3, <2>4 DEF MailLast, Channels
    <2>6. Open(tx[r].batch)  BY <2>2 DEF Open, TxHeld, Pending
    <2>7. ASSUME NEW b \in Batches, missed'[b] = {}, b = tx[r].batch
          PROVE  Explained(b)' /\ LeftNow(b)'
      <3>1. missed[b] = {} /\ backed'[b] = backed[b] \union {c}  BY <1>b, <1>l, <2>7 DEF Leaves
      <3>2. backed[b] \subseteq tx[r].left
        BY <1>a, <2>3, <2>6, <2>7, <3>1 DEF Account, LeftNow, Dispatching
      <3>3. LeftNow(b)'  BY <1>l, <2>7, <3>1, <3>2 DEF LeftNow, Dispatching
      <3>4. CASE c = "web_push"
        <4>1. "email" \notin backed'[b]  BY <2>4, <3>1, <3>2, <3>4
        <4> QED  BY <3>3, <4>1 DEF Explained, Channels
      <3>5. CASE c = "email"
        <4>1. "web_push" \in backed'[b] => "web_push" \in tx'[r].left
          BY <1>l, <3>1, <3>2, <3>5
        <4>2. Dispatching(r, b)'  BY <1>l, <2>7 DEF Dispatching
        <4>3. ~tx'[r].ok  BY <1>l, <3>5
        <4> QED  BY <3>3, <4>1, <4>2, <4>3 DEF Explained, Unheard, Channels
      <3> QED  BY <3>3, <3>4, <3>5 DEF Channels
    <2>8. ASSUME NEW b \in Batches, missed'[b] = {}, b # tx[r].batch
          PROVE  Explained(b)' /\ (Open(b)' => LeftNow(b)')
      <3>1. missed[b] = {} /\ backed'[b] = backed[b]  BY <1>b, <1>l, <2>8 DEF Leaves
      <3>2. \A o \in Runners : ~Dispatching(o, b)  BY <2>3, <2>8 DEF Dispatching
      <3>3. Open(b)' => Open(b)  BY <1>l DEF Open, Sent, RowSent
      <3> QED  BY <1>a, <3>1, <3>2, <3>3 DEF Account, Explained, LeftNow, Unheard
    <2>9. \A b \in Batches : missed'[b] = {} => Explained(b)' /\ (Open(b)' => LeftNow(b)')
      BY <2>7, <2>8
    <2> QED  BY <2>5, <2>9 DEF Account
  <1>1. ASSUME NEW r \in Runners,
               Start(r) \/ Generate(r) \/ Select(r) \/ Finish(r) \/ PurgeFails(r)
        PROVE  Account'
    <2>1. UNCHANGED <<backed, missed, row, old>>
          /\ \A b \in Batches : b \in old => batch'[b] = batch[b]
      BY <1>a, <1>1 DEF TypeOk, Start, StartCron, StartJob, Generate, Select, Finish, PurgeFails, Stop
    <2>2. \A o \in Runners : tx'[o] = tx[o] /\ (tx[o] # NoTx => pc'[o] = pc[o])
      BY <1>a, <1>1 DEF TypeOk, TxOpen, TxPcs, Start, StartCron, StartJob, Generate, Select, Finish,
         PurgeFails, Stop
    <2>3. \A b \in Batches : Open(b)' => Open(b)  BY <2>1 DEF Open, Sent, RowSent
    <2> QED  BY <1>q, <2>1, <2>2, <2>3
  <1>2. ASSUME NEW r \in Runners, Purge(r) PROVE Account'
    <2>1. UNCHANGED <<backed, missed, old, tx>>  BY <1>2 DEF Purge
    <2>2. \A b \in Batches : IF b \in Expired THEN b \in old /\ batch'[b] = Absent
                                             ELSE batch'[b] = batch[b] /\ row'[b] = row[b]
      BY <1>a, <1>2 DEF Purge, TypeOk, Expired
    <2>3. \A b \in Batches : Open(b)' => Open(b)  BY <2>1, <2>2 DEF Open, Sent, RowSent
    <2>4. \A o \in Runners : tx[o] # NoTx => pc'[o] = pc[o]
      BY <1>a, <1>2 DEF Purge, TypeOk, TxOpen, TxPcs
    <2> QED  BY <1>q, <2>1, <2>3, <2>4
  <1>3. ASSUME NEW r \in Runners, NEW b \in Batches,
               Load(r, b) \/ LoadEmpty(r, b) \/ LoadMissing(r, b)
        PROVE  Account'
    <2>1. pc[r] = "next" /\ UNCHANGED <<backed, missed, row, old, batch>>
      BY <1>3 DEF Load, LoadEmpty, LoadMissing
    <2>2. tx[r] = NoTx /\ \A o \in Runners \ {r} : tx[o] = NoTx
      BY <1>a, <1>0, <2>1 DEF TxOpen, TxPcs
    <2>3. (tx'[r] = NoTx \/ tx'[r].left = {}) /\ \A o \in Runners \ {r} : tx'[o] = tx[o]
      <3>1. CASE Load(r, b)  BY <1>a, <3>1 DEF TypeOk, Load, NewTx
      <3>2. CASE LoadEmpty(r, b)
        <4>1. NewTx(r, b).left = {}  BY DEF NewTx
        <4> QED  BY <1>a, <3>2, <4>1 DEF TypeOk, LoadEmpty
      <3>3. CASE LoadMissing(r, b)  BY <1>a, <2>2, <3>3 DEF TypeOk, LoadMissing
      <3> QED  BY <1>3, <3>1, <3>2, <3>3
    <2>4. \A o \in Runners : tx'[o] # NoTx => MailLast(o)'  BY <2>2, <2>3 DEF MailLast
    <2>5. ASSUME NEW d \in Batches, missed'[d] = {}
          PROVE  Explained(d)' /\ (Open(d)' => LeftNow(d)')
      <3>1. Explained(d) /\ (Open(d) => LeftNow(d))  BY <1>a, <2>1, <2>5 DEF Account
      <3>2. backed[d] # Channels /\ (Open(d) => backed[d] = {})
        BY <2>2, <3>1 DEF Explained, LeftNow, Unheard, Dispatching
      <3>3. Open(d)' => Open(d)  BY <2>1 DEF Open, Sent, RowSent
      <3> QED  BY <2>1, <3>2, <3>3 DEF Explained, LeftNow
    <2> QED  BY <2>4, <2>5 DEF Account
  <1>4. ASSUME NEW r \in Runners, NEW e \in Endpoints, PushOk(r, e) \/ PushMisreported(r, e)
        PROVE  Account'
    <2>1. /\ pc[r] \in TxPcs \ {"commit"} /\ Leaves(r, "web_push")
          /\ UNCHANGED <<row, batch, old>>
      BY <1>4 DEF PushOk, PushMisreported, TxPcs
    <2>2. tx[r] \in Tx  BY <1>a, <2>1, OpenTx
    <2>3. /\ tx'[r] # NoTx /\ tx'[r].batch = tx[r].batch
          /\ tx'[r].left = tx[r].left \union {"web_push"}
      <3>1. tx'[r] = [tx[r] EXCEPT !.todo = tx[r].todo \ {e}, !.left = tx[r].left \union {"web_push"}]
            \/ tx'[r] = [tx[r] EXCEPT !.todo = tx[r].todo \ {e}, !.ok = TRUE,
                                     !.left = tx[r].left \union {"web_push"}]
        BY <1>a, <1>4 DEF TypeOk, PushOk, PushMisreported
      <3>2. /\ tx'[r] \in Tx /\ tx'[r].batch = tx[r].batch
            /\ tx'[r].left = tx[r].left \union {"web_push"}
        BY <2>2, <3>1 DEF Tx, Channels
      <3> QED  BY <3>2, TxAssumption
    <2>4. \A o \in Runners \ {r} : tx'[o] = tx[o]  BY <1>a, <1>4, PushStepTx
    <2> QED  BY <2>1, <2>3, <2>4, <1>l DEF Channels
  <1>5. ASSUME NEW r \in Runners, NEW e \in Endpoints, PushGone(r, e) \/ PushError(r, e)
        PROVE  Account'
    <2>1. UNCHANGED <<backed, missed, row, batch, old>> /\ pc[r] \in TxPcs \ {"commit"}
      BY <1>5 DEF PushGone, PushError, TxPcs
    <2>2. tx[r] \in Tx /\ tx[r] # NoTx  BY <1>a, <2>1, OpenTx
    <2>3. tx'[r] = [tx[r] EXCEPT !.todo = tx[r].todo \ {e}, !.gone = tx[r].gone \union {e}]
          \/ tx'[r] = [tx[r] EXCEPT !.todo = tx[r].todo \ {e}]
      BY <1>a, <1>5 DEF TypeOk, PushGone, PushError
    <2>4. \A o \in Runners \ {r} : tx'[o] = tx[o]  BY <1>a, <1>5, PushStepTx
    <2>5. tx'[r].batch = tx[r].batch /\ tx'[r].left = tx[r].left /\ tx'[r].ok = tx[r].ok
      BY <2>2, <2>3 DEF Tx
    <2>6. tx'[r] # NoTx
      BY <2>1, NextType, <1>a, <1>5, PushStepTx, TxAssumption DEF Typed, TxOpen
    <2> QED  BY <1>k, <2>1, <2>4, <2>5, <2>6
  <1>6. ASSUME NEW r \in Runners, RecordPush(r) \/ ReadEmail(r) \/ EmailError(r) PROVE Account'
    <2>1. UNCHANGED <<backed, missed, row, batch, old>> /\ pc[r] \in TxPcs \ {"commit"}
      BY <1>6 DEF RecordPush, ReadEmail, EmailError, TxPcs
    <2>2. tx[r] \in Tx /\ tx[r] # NoTx  BY <1>a, <2>1, OpenTx
    <2>3. /\ tx'[r].batch = tx[r].batch /\ tx'[r].left = tx[r].left /\ tx'[r].ok = tx[r].ok
          /\ \A o \in Runners \ {r} : tx'[o] = tx[o]
      <3>1. CASE RecordPush(r)
        BY <1>a, <2>2, <3>1 DEF TypeOk, RecordPush, Tx
      <3>2. CASE ReadEmail(r)
        BY <1>a, <2>2, <3>2 DEF TypeOk, ReadEmail, Tx
      <3>3. CASE EmailError(r)
        <4>1. RecordEmail(r, [status |-> "failed", code |-> "email_failed"], {})
          BY <3>3 DEF EmailError
        <4>2. /\ tx'[r].batch = tx[r].batch /\ tx'[r].left = tx[r].left \union {}
              /\ tx'[r].ok = tx[r].ok /\ \A o \in Runners \ {r} : tx'[o] = tx[o]
          BY <1>a, <2>2, <4>1, RecordEmailTx
        <4> QED  BY <4>2
      <3> QED  BY <1>6, <3>1, <3>2, <3>3
    <2>4. pc'[r] \in TxPcs
      BY <1>a, <1>6 DEF TypeOk, RecordPush, ReadEmail, EmailError, RecordEmail, TxPcs
    <2>5. tx'[r] # NoTx  BY <2>4, NextType, <1>a, TxAssumption DEF Typed, TxOpen
    <2> QED  BY <1>k, <2>1, <2>3, <2>5
  <1>7. ASSUME NEW r \in Runners, EmailOk(r) \/ EmailMisreported(r) PROVE Account'
    <2>1. /\ pc[r] = "email" /\ pc[r] \in TxPcs \ {"commit"} /\ Leaves(r, "email")
          /\ UNCHANGED <<row, batch, old>>
      BY <1>7 DEF EmailOk, EmailMisreported, TxPcs
    <2>2. tx[r] \in Tx /\ tx[r] # NoTx  BY <1>a, <2>1, OpenTx
    <2>3. /\ tx'[r].batch = tx[r].batch /\ tx'[r].left = tx[r].left \union {"email"}
          /\ tx'[r].ok = tx[r].ok /\ \A o \in Runners \ {r} : tx'[o] = tx[o]
      BY <1>a, <1>7, <2>2, RecordEmailTx DEF EmailOk, EmailMisreported
    <2>4. pc'[r] = "commit"
      BY <1>a, <1>7 DEF TypeOk, EmailOk, EmailMisreported, RecordEmail
    <2>5. tx'[r] # NoTx
      BY <2>4, NextType, <1>a, TxAssumption DEF Typed, TxOpen, TxPcs
    <2>6. ~tx[r].ok  BY <1>a, <2>1, <2>2 DEF TxHolds, TxHeld
    <2> QED  BY <2>1, <2>3, <2>4, <2>5, <2>6, <1>l DEF Channels
  <1>8. ASSUME NEW r \in Runners, Commit(r) PROVE Account'
    <2>1. /\ pc[r] \in TxPcs /\ tx'[r] = NoTx /\ Ends(r, Announces(tx[r]))
          /\ UNCHANGED <<batch, old>>
          /\ \A o \in Runners \ {r} : tx'[o] = tx[o]
      BY <1>a, <1>8 DEF TypeOk, Commit, TxPcs
    <2>2. tx[r] \in Tx /\ tx[r] # NoTx  BY <1>a, <2>1, OpenTx
    <2>3. TxHeld(r) /\ tx[r].batch \in Batches  BY <1>a, <2>2 DEF TxHolds, Tx
    <2>4. \A b \in Batches \ {tx[r].batch} : row'[b] = row[b]
      BY <1>a, <1>8 DEF TypeOk, Commit
    <2>5. \A b \in Batches : ~Dispatching(r, b) => (Open(b)' => Open(b))
      BY <2>1, <2>2, <2>4 DEF Open, Dispatching, Sent, RowSent
    <2>6. ASSUME NEW b \in Batches, Dispatching(r, b), missed'[b] = {}
          PROVE  ~Unheard(r, b) /\ (Open(b)' => Open(b) /\ tx[r].left = {})
      <3>0. b = tx[r].batch  BY <2>6 DEF Dispatching
      <3>1. tx[r].left \subseteq (IF Announces(tx[r]) THEN Recorded(tx[r]) ELSE {})
        BY <1>b, <2>1, <2>2, <2>6, <3>0 DEF Ends
      <3>2. tx[r].left \subseteq Recorded(tx[r])  BY <3>1
      <3>3. "web_push" \in tx[r].left => tx[r].ok
        BY <2>3, <3>2 DEF Recorded, TxHeld
      <3>4. Recorded(tx[r]) # {} => Sent(b)'
        BY <1>8, <3>0, CommitSent DEF Sent, Recorded, Channels
      <3>5. Open(b)  BY <2>3, <3>0 DEF Open, TxHeld, Pending
      <3> QED  BY <3>2, <3>3, <3>4, <3>5 DEF Open, Unheard
    <2>7. pc[r] # "idle" /\ Announces(tx[r]) \in BOOLEAN  BY <2>1 DEF TxPcs, Announces
    <2> QED  BY <1>e, <2>1, <2>2, <2>5, <2>6, <2>7
  <1>9. ASSUME NEW r \in Runners, FlushFails(r) \/ DispatchFails(r) \/ Crash(r) PROVE Account'
    <2>1. /\ Ends(r, FALSE) /\ tx'[r] = NoTx /\ UNCHANGED <<row, batch, old>>
          /\ \A o \in Runners \ {r} : tx'[o] = tx[o]
      BY <1>a, <1>9 DEF TypeOk, FlushFails, DispatchFails, Crash, Rollback, Stop
    <2>2. tx[r] # NoTx => tx[r] \in Tx  BY <1>a DEF TypeOk
    <2>3. pc[r] # "idle"
      BY <1>a, <1>9 DEF FlushFails, DispatchFails, Crash, TxOpen, TxPcs
    <2>4. \A b \in Batches : Open(b)' => Open(b)  BY <2>1 DEF Open, Sent, RowSent
    <2>5. ASSUME NEW b \in Batches, Dispatching(r, b), missed'[b] = {}
          PROVE  ~Unheard(r, b) /\ (Open(b)' => Open(b) /\ tx[r].left = {})
      <3>1. b = tx[r].batch /\ tx[r] # NoTx  BY <2>5 DEF Dispatching
      <3>2. tx[r].left = {}  BY <1>b, <2>1, <2>5, <3>1 DEF Ends
      <3> QED  BY <2>4, <3>2 DEF Unheard
    <2> QED  BY <1>e, <2>1, <2>2, <2>3, <2>4, <2>5
  <1>10. ASSUME Outside PROVE Account'
    <2>1. UNCHANGED <<pc, tx, batch, row, backed, missed>> /\ old \subseteq old'
      BY <1>10, OutsideHolds
    <2>2. \A b \in Batches : Open(b)' => Open(b)  BY <2>1 DEF Open, Sent, RowSent
    <2> QED  BY <1>q, <2>1, <2>2
  <1> QED  BY <1>1, <1>2, <1>3, <1>4, <1>5, <1>6, <1>7, <1>8, <1>9, <1>10
           DEF Next, Cycle, Dispatch, Faults

-----------------------------------------------------------------------------
(* A stutter keeps the invariant.                                           *)
LEMMA StutterSolo == SoloInv /\ UNCHANGED vars => SoloInv'
  <1> SUFFICES ASSUME SoloInv, UNCHANGED vars PROVE SoloInv'  OBVIOUS
  <1> USE DEF vars, runVars, dbVars, userVars, history, bounds
  <1>1. Inv'  BY NextInv DEF SoloInv
  <1>2. Mutex' /\ QueuePending'
    BY DEF SoloInv, Mutex, QueuePending, Pending, Sent, RowSent
  <1>3. TxHolds'  BY DEF SoloInv, TxHolds, TxHeld, Pending, Sent, RowSent
  <1>4. OneRecord'  BY DEF SoloInv, OneRecord, RowSent
  <1>5. Ledger'  BY DEF SoloInv, Ledger, Unrecorded, Dispatching, Sent, RowSent
  <1>6. Account'
    BY DEF SoloInv, Account, MailLast, Explained, Open, LeftNow, Unheard, Dispatching, Sent, RowSent
  <1> QED  BY <1>1, <1>2, <1>3, <1>4, <1>5, <1>6 DEF SoloInv

(* With one dispatcher at a time the strengthened invariant always holds.   *)
THEOREM SoloInvariant == Jobs = {} => (Spec => []SoloInv)
  <1> SUFFICES ASSUME Jobs = {} PROVE Spec => []SoloInv  OBVIOUS
  <1>1. SoloInv /\ [Next]_vars => SoloInv'
    <2>1. SoloInv /\ Next => SoloInv'
      BY NextInv, NextMutex, NextHolds, NextOneRecord, NextLedger, NextAccount DEF SoloInv
    <2> QED  BY <2>1, StutterSolo
  <1> QED  BY InitSolo, <1>1, PTL DEF Spec

(* With one dispatcher at a time a user is told of a batch again only after *)
(* a transaction that had told was lost, so without faults exactly once.    *)
THEOREM OnceRecorded == Jobs = {} => (Spec => []AtMostOnceRecorded)
  <1> SUFFICES ASSUME Jobs = {} PROVE Spec => []AtMostOnceRecorded  OBVIOUS
  <1>1. SoloInv => AtMostOnceRecorded  BY DEF SoloInv, Ledger, AtMostOnceRecorded
  <1> QED  BY SoloInvariant, <1>1, PTL

(* With one dispatcher at a time a user is told of a batch by both channels *)
(* only if a message left that was not recorded, or a push left of which    *)
(* the transaction under way has heard nothing.                             *)
THEOREM ByOneChannel == Jobs = {} => (Spec => []OneChannel)
  <1> SUFFICES ASSUME Jobs = {} PROVE Spec => []OneChannel  OBVIOUS
  <1>1. SoloInv => OneChannel  BY DEF SoloInv, OneRecord, Account, Explained, OneChannel
  <1> QED  BY SoloInvariant, <1>1, PTL

(* With one dispatcher at a time the batch being announced is neither       *)
(* regenerated, purged nor recorded by another before its commit.           *)
THEOREM SnapshotKept == Jobs = {} => (Spec => []SnapshotHolds)
  <1> SUFFICES ASSUME Jobs = {} PROVE Spec => []SnapshotHolds  OBVIOUS
  <1>1. SoloInv => SnapshotHolds
    BY DEF SoloInv, TxHolds, TxHeld, SnapshotHolds, Dispatching, Pending
  <1> QED  BY SoloInvariant, <1>1, PTL

(* With one dispatcher at a time a row that says "sent" keeps saying so     *)
(* until retention deletes its batch.                                       *)
THEOREM SentStays == Jobs = {} => (Spec => SentIsFinal)
  <1> SUFFICES ASSUME Jobs = {} PROVE Spec => SentIsFinal  OBVIOUS
  <1> DEFINE A == \A b \in Batches, c \in Channels :
                    RowSent(b, c) /\ batch'[b] # Absent => RowSent(b, c)'
  <1>1. SoloInv /\ [Next]_vars => [A]_vars
    <2> SUFFICES ASSUME SoloInv, Next PROVE A  OBVIOUS
    <2> QED  BY RowsFinal
  <1> QED  BY SoloInvariant, <1>1, PTL DEF Spec, SentIsFinal
=============================================================================
