------------------------ MODULE DigestPromiseProofs -------------------------
(***************************************************************************)
(* With no delivery job in the web processes (Jobs = {}) DigestDelivery    *)
(* implements Announcements: a dispatch transaction is an attempt, its     *)
(* commit records it or fails it, whatever ends it otherwise fails it, and *)
(* every other step leaves the stage of every batch as it is, but those of *)
(* generation and retention.                                               *)
(***************************************************************************)
EXTENDS DigestDeliveryProofs

(* What a transaction is about to record as sent has left in it.            *)
TxLeft(r) == /\ tx[r].push = "send" /\ tx[r].ok => "web_push" \in tx[r].left
             /\ tx[r].pushNew # NoRow /\ tx[r].pushNew.status = "sent" => "web_push" \in tx[r].left
             /\ tx[r].emailNew # NoRow /\ tx[r].emailNew.status = "sent" => "email" \in tx[r].left
LeftTx == \A r \in Runners : tx[r] # NoTx => TxLeft(r)

-----------------------------------------------------------------------------
LEMMA NextLeft ==
    ASSUME SoloInv, LeftTx, Next
    PROVE  LeftTx'
  <1> USE DEF vars, runVars, dbVars, userVars, history, bounds
  <1>a. TypeOk /\ TxOpen /\ TxHolds /\ Inv  BY DEF SoloInv, Inv, Typed
  <1>q. ASSUME \A o \in Runners : tx'[o] = tx[o] \/ tx'[o] = NoTx PROVE LeftTx'
    BY <1>q DEF LeftTx, TxLeft
  <1>r. ASSUME NEW r \in Runners, \A o \in Runners \ {r} : tx'[o] = tx[o], TxLeft(r)' PROVE LeftTx'
    BY <1>r DEF LeftTx, TxLeft
  <1>1. ASSUME NEW r \in Runners,
               Start(r) \/ Generate(r) \/ Purge(r) \/ Select(r) \/ Finish(r) \/ PurgeFails(r)
        PROVE  LeftTx'
    BY <1>a, <1>1, <1>q DEF TypeOk, Start, StartCron, StartJob, Generate, Purge, Select, Finish,
       PurgeFails, Stop
  <1>2. ASSUME NEW r \in Runners, Crash(r) \/ DispatchFails(r) \/ FlushFails(r) \/ Commit(r) PROVE LeftTx'
    BY <1>a, <1>2, <1>q DEF TypeOk, Crash, DispatchFails, FlushFails, Commit, Stop, Rollback
  <1>3. ASSUME Outside PROVE LeftTx'
    BY <1>3, <1>q DEF Outside, AgeOut, Subscribe, Unsubscribe, SaveSettings
  <1>4. ASSUME NEW r \in Runners, NEW b \in Batches, Load(r, b) \/ LoadEmpty(r, b) \/ LoadMissing(r, b)
        PROVE  LeftTx'
    <2>1. CASE LoadMissing(r, b)
      BY <2>1, <1>q DEF LoadMissing
    <2>2. CASE Load(r, b)
      <3>1. /\ \A o \in Runners \ {r} : tx'[o] = tx[o]
            /\ tx'[r].push = PushPlan(conf[r], b) /\ tx'[r].ok = (PushPlan(conf[r], b) = "already")
            /\ tx'[r].pushNew = NoRow /\ tx'[r].emailNew = NoRow
        BY <1>a, <2>2 DEF TypeOk, Load, NewTx
      <3> QED  BY <3>1, <1>r DEF TxLeft
    <2>3. CASE LoadEmpty(r, b)
      <3>1. /\ \A o \in Runners \ {r} : tx'[o] = tx[o]
            /\ tx'[r].push = "empty_digest"
            /\ tx'[r].pushNew.status = "skipped" /\ tx'[r].emailNew.status = "skipped"
        BY <1>a, <2>3 DEF TypeOk, LoadEmpty, NewTx, Skipped
      <3> QED  BY <3>1, <1>r DEF TxLeft
    <2> QED  BY <1>4, <2>1, <2>2, <2>3
  <1>5. ASSUME NEW r \in Runners, NEW e \in Endpoints,
               PushOk(r, e) \/ PushGone(r, e) \/ PushError(r, e) \/ PushMisreported(r, e)
        PROVE  LeftTx'
    <2>1. tx[r] \in Tx /\ tx[r] # NoTx /\ pc[r] = "push"
      BY <1>a, <1>5, OpenTx DEF TxPcs, PushOk, PushGone, PushError, PushMisreported
    <2>2. TxHeld(r) /\ TxLeft(r)  BY <1>a, <2>1 DEF TxHolds, LeftTx
    <2>3. /\ \A o \in Runners \ {r} : tx'[o] = tx[o]
          /\ tx'[r].push = tx[r].push /\ tx'[r].pushNew = tx[r].pushNew /\ tx'[r].emailNew = tx[r].emailNew
      BY <1>a, <1>5, PushStepTx
    <2>4. tx'[r].ok => tx[r].ok \/ "web_push" \in tx'[r].left
      BY <1>a, <1>5, PushStepTx
    <2>5. tx[r].left \subseteq tx'[r].left
      <3>1. CASE PushOk(r, e)  BY <1>a, <2>1, <3>1 DEF TypeOk, PushOk, Tx
      <3>2. CASE PushGone(r, e)  BY <1>a, <2>1, <3>2 DEF TypeOk, PushGone, Tx
      <3>3. CASE PushError(r, e)  BY <1>a, <2>1, <3>3 DEF TypeOk, PushError, Tx
      <3>4. CASE PushMisreported(r, e)  BY <1>a, <2>1, <3>4 DEF TypeOk, PushMisreported, Tx
      <3> QED  BY <1>5, <3>1, <3>2, <3>3, <3>4
    <2>6. TxLeft(r)'  BY <2>1, <2>2, <2>3, <2>4, <2>5 DEF TxLeft, TxHeld
    <2> QED  BY <2>3, <2>6, <1>r
  <1>6. ASSUME NEW r \in Runners, RecordPush(r) PROVE LeftTx'
    <2>1. tx[r] \in Tx /\ tx[r] # NoTx  BY <1>a, <1>6, OpenTx DEF TxPcs, RecordPush
    <2>2. TxHeld(r) /\ TxLeft(r)  BY <1>a, <2>1 DEF TxHolds, LeftTx
    <2>3. /\ \A o \in Runners \ {r} : tx'[o] = tx[o]
          /\ tx'[r].push = tx[r].push /\ tx'[r].ok = tx[r].ok /\ tx'[r].left = tx[r].left
          /\ tx'[r].pushNew = PushRow(tx[r]) /\ tx'[r].emailNew = tx[r].emailNew
      BY <1>a, <1>6, <2>1, <2>2 DEF TypeOk, TxHeld, RecordPush, Tx
    <2>4. PushRow(tx[r]).status = "sent" => tx[r].push = "send" /\ tx[r].ok
      BY DEF PushRow, Skipped
    <2>5. TxLeft(r)'  BY <2>2, <2>3, <2>4 DEF TxLeft
    <2> QED  BY <2>3, <2>5, <1>r
  <1>7. ASSUME NEW r \in Runners, ReadEmail(r) PROVE LeftTx'
    <2>1. tx[r] \in Tx /\ tx[r] # NoTx  BY <1>a, <1>7, OpenTx DEF TxPcs, ReadEmail
    <2>2. TxLeft(r)  BY <2>1 DEF LeftTx
    <2>3. /\ \A o \in Runners \ {r} : tx'[o] = tx[o]
          /\ tx'[r].push = tx[r].push /\ tx'[r].ok = tx[r].ok /\ tx'[r].left = tx[r].left
          /\ tx'[r].pushNew = tx[r].pushNew
          /\ tx'[r].emailNew = NoRow \/ tx'[r].emailNew.status = "skipped"
      BY <1>a, <1>7, <2>1 DEF TypeOk, ReadEmail, Tx, Skipped
    <2>4. TxLeft(r)'  BY <2>2, <2>3 DEF TxLeft
    <2> QED  BY <2>3, <2>4, <1>r
  <1>8. ASSUME NEW r \in Runners, EmailOk(r) \/ EmailError(r) \/ EmailMisreported(r) PROVE LeftTx'
    <2>1. tx[r] \in Tx /\ tx[r] # NoTx
      BY <1>a, <1>8, OpenTx DEF TxPcs, EmailOk, EmailError, EmailMisreported
    <2>2. TxLeft(r)  BY <2>1 DEF LeftTx
    <2>3. ASSUME NEW new, NEW leaving, RecordEmail(r, new, leaving), new.status = "sent" => "email" \in leaving
          PROVE  LeftTx'
      <3>1. /\ \A o \in Runners \ {r} : tx'[o] = tx[o]
            /\ tx'[r].push = tx[r].push /\ tx'[r].ok = tx[r].ok /\ tx'[r].pushNew = tx[r].pushNew
            /\ tx'[r].emailNew = new /\ tx'[r].left = tx[r].left \union leaving
        BY <1>a, <2>1, <2>3, RecordEmailTx
      <3>2. TxLeft(r)'  BY <2>2, <2>3, <3>1 DEF TxLeft
      <3> QED  BY <3>1, <3>2, <1>r
    <2>4. CASE EmailOk(r)
      BY <2>3, <2>4 DEF EmailOk
    <2>5. CASE EmailError(r)
      BY <2>3, <2>5 DEF EmailError
    <2>6. CASE EmailMisreported(r)
      BY <2>3, <2>6 DEF EmailMisreported
    <2> QED  BY <1>8, <2>4, <2>5, <2>6
  <1> QED  BY <1>1, <1>2, <1>3, <1>4, <1>5, <1>6, <1>7, <1>8 DEF Next, Cycle, Dispatch, Faults

-----------------------------------------------------------------------------
(* The mapping.                                                             *)

(* One batch gets another stage.                                            *)
LEMMA StageStep ==
    ASSUME NEW b \in Batches, NEW s, Stage(b)' = s, \A a \in Batches \ {b} : Stage(a)' = Stage(a)
    PROVE  AllStages' = [AllStages EXCEPT ![b] = s]
  BY DEF AllStages

LEMMA StagesKept ==
    ASSUME \A b \in Batches : Stage(b)' = Stage(b)
    PROVE  UNCHANGED AllStages
  BY DEF AllStages

(* What the stage of a batch is made of.                                    *)
LEMMA StageKept ==
    ASSUME NEW b \in Batches, batch'[b] = batch[b], row'[b] = row[b], b \in old <=> b \in old',
           (\E r \in Runners : Dispatching(r, b)) <=> (\E r \in Runners : Dispatching(r, b))'
    PROVE  Stage(b)' = Stage(b)
  BY DEF Stage, RowSent

(* With one dispatcher, what is said is what has left in its transaction.   *)
LEMMA SaidIs ==
    ASSUME NEW r \in Runners, \A o \in Runners \ {r} : tx[o] = NoTx
    PROVE  /\ Said = IF tx[r] = NoTx THEN {} ELSE tx[r].left
           /\ \A b : (\E o \in Runners : Dispatching(o, b)) <=> Dispatching(r, b)
  BY DEF Said, Dispatching

LEMMA SaidIsThen ==
    ASSUME NEW r \in Runners, \A o \in Runners \ {r} : tx'[o] = NoTx
    PROVE  /\ Said' = IF tx'[r] = NoTx THEN {} ELSE tx'[r].left
           /\ \A b : (\E o \in Runners : Dispatching(o, b))' <=> Dispatching(r, b)'
  BY DEF Said, Dispatching

(* A step that is none for the batches.                                     *)
LEMMA NoStep ==
    ASSUME UNCHANGED <<batch, row, old, told, lost>>,
           \A o \in Runners : /\ tx'[o] = NoTx <=> tx[o] = NoTx
                              /\ tx[o] # NoTx => tx'[o].batch = tx[o].batch /\ tx'[o].left = tx[o].left
    PROVE  UNCHANGED Promise!vars
  <1>1. \A b, o : o \in Runners => (Dispatching(o, b) <=> Dispatching(o, b)')  BY DEF Dispatching
  <1>2. \A b \in Batches : Stage(b)' = Stage(b)  BY <1>1 DEF Stage, RowSent
  <1>3. UNCHANGED AllStages  BY <1>2, StagesKept
  <1>4. UNCHANGED Said
    <2>1. {o \in Runners : tx'[o] # NoTx} = {o \in Runners : tx[o] # NoTx}  OBVIOUS
    <2> QED  BY <2>1 DEF Said
  <1> QED  BY <1>3, <1>4 DEF Promise!vars

(* The stage of the batch of an open transaction.                           *)
LEMMA AttemptStage ==
    ASSUME SoloInv, NEW r \in Runners, tx[r] # NoTx
    PROVE  /\ tx[r] \in Tx /\ tx[r].batch \in Batches /\ pc[r] # "idle"
           /\ Stage(tx[r].batch) = "attempt"
           /\ \A b \in Batches \ {tx[r].batch} : Stage(b) # "attempt"
           /\ Said = tx[r].left
           /\ batch[tx[r].batch] # Absent /\ batch[tx[r].batch] # 0 /\ ~Sent(tx[r].batch)
           /\ \A o \in Runners \ {r} : tx[o] = NoTx
  <1>1. pc[r] \in TxPcs /\ tx[r] \in Tx  BY DEF SoloInv, Inv, Typed, TxOpen
  <1>2. \A o \in Runners \ {r} : tx[o] = NoTx  BY <1>1, Alone DEF TxPcs
  <1>3. TxHeld(r) /\ tx[r].batch \in Batches  BY <1>1 DEF SoloInv, TxHolds, Tx
  <1>4. batch[tx[r].batch] \in Nat \union {Absent}  BY <1>3 DEF SoloInv, Inv, Typed, TypeOk
  <1>5. batch[tx[r].batch] # Absent /\ batch[tx[r].batch] # 0 /\ ~Sent(tx[r].batch)
    BY <1>3, <1>4 DEF TxHeld, Pending
  <1>6. Dispatching(r, tx[r].batch) /\ \A b : b # tx[r].batch => ~Dispatching(r, b)  BY DEF Dispatching
  <1>7. Stage(tx[r].batch) = "attempt"  BY <1>5, <1>6 DEF Stage, Sent, Channels
  <1>8. \A b \in Batches \ {tx[r].batch} : ~ \E o \in Runners : Dispatching(o, b)
    BY <1>2, <1>6 DEF Dispatching
  <1>9. \A b \in Batches \ {tx[r].batch} : Stage(b) # "attempt"  BY <1>8 DEF Stage
  <1>10. Said = tx[r].left  BY <1>2, SaidIs
  <1> QED  BY <1>1, <1>2, <1>3, <1>5, <1>7, <1>9, <1>10 DEF TxPcs

(* Who runs outside a transaction runs while no batch is being announced.   *)
LEMMA QuietStage ==
    ASSUME SoloInv, NEW r \in Runners, pc[r] # "idle", tx[r] = NoTx
    PROVE  /\ Promise!Quiet /\ Said = {}
           /\ \A o \in Runners : tx[o] = NoTx
  <1>1. \A o \in Runners : tx[o] = NoTx  BY Alone
  <1>2. \A b \in Batches : Stage(b) # "attempt"  BY <1>1 DEF Stage, Dispatching
  <1> QED  BY <1>1, <1>2, SaidIs DEF Promise!Quiet, AllStages

-----------------------------------------------------------------------------
(* Steps of a runner, and of the users.                                     *)

(* A dispatch transaction opens.                                            *)
LEMMA LoadAttempts ==
    ASSUME SoloInv, NEW r \in Runners, NEW b \in Batches, Load(r, b)
    PROVE  Promise!Attempt(b)
  <1>a. TypeOk /\ TxOpen /\ QueuePending  BY DEF SoloInv, Inv, Typed
  <1>1. pc[r] = "next" /\ tx[r] = NoTx /\ Pending(b)  BY <1>a DEF Load, TxOpen, TxPcs, QueuePending
  <1>2. Promise!Quiet /\ Said = {} /\ \A o \in Runners : tx[o] = NoTx  BY <1>1, QuietStage
  <1>3. /\ tx'[r] = NewTx(r, b) /\ \A o \in Runners \ {r} : tx'[o] = NoTx
        /\ UNCHANGED <<batch, row, old, told, lost>>
    BY <1>a, <1>2 DEF Load, TypeOk, dbVars, history
  <1>4. NewTx(r, b).batch = b /\ NewTx(r, b).left = {} /\ tx'[r] # NoTx
    BY <1>a, <1>1, <1>3, NewTxType, TxAssumption DEF NewTx, Load
  <1>5. Said' = {}  BY <1>3, <1>4, SaidIsThen
  <1>6. Dispatching(r, b)' /\ \A a \in Batches \ {b} : ~Dispatching(r, a)'
    BY <1>3, <1>4 DEF Dispatching
  <1>7. \A a \in Batches : ~ \E o \in Runners : Dispatching(o, a)  BY <1>2 DEF Dispatching
  <1>8. Stage(b) = "due"
    <2>1. batch[b] # Absent /\ batch[b] # 0 /\ ~Sent(b)  BY <1>1 DEF Pending
    <2> QED  BY <2>1, <1>7 DEF Stage, Sent, Channels
  <1>9. Stage(b)' = "attempt"
    <2>1. batch'[b] # Absent /\ ~RowSent(b, "web_push")' /\ ~RowSent(b, "email")'
      BY <1>1, <1>3 DEF Pending, Sent, RowSent, Channels
    <2>2. (\E o \in Runners : Dispatching(o, b))'  BY <1>6
    <2> QED  BY <2>1, <2>2 DEF Stage
  <1>10. \A a \in Batches \ {b} : Stage(a)' = Stage(a)
    <2>1. \A a \in Batches \ {b} : ~(\E o \in Runners : Dispatching(o, a))'  BY <1>3, <1>6, SaidIsThen
    <2> QED  BY <1>3, <1>7, <2>1 DEF Stage, RowSent
  <1>11. AllStages' = [AllStages EXCEPT ![b] = "attempt"]  BY <1>9, <1>10, StageStep
  <1>12. AllStages[b] = "due"  BY <1>8 DEF AllStages
  <1> QED  BY <1>2, <1>3, <1>5, <1>11, <1>12 DEF Promise!Attempt

(* A message leaves in a transaction.                                       *)
LEMMA LeavesSays ==
    ASSUME SoloInv, NEW r \in Runners, NEW c \in Channels, tx[r] # NoTx, Leaves(r, c),
           UNCHANGED <<batch, row, old>>, \A o \in Runners \ {r} : tx'[o] = tx[o],
           tx'[r] # NoTx, tx'[r].batch = tx[r].batch, tx'[r].left = tx[r].left \union {c}
    PROVE  Promise!Say(tx[r].batch, c)
  <1>1. /\ tx[r].batch \in Batches /\ Stage(tx[r].batch) = "attempt" /\ Said = tx[r].left
        /\ \A o \in Runners \ {r} : tx[o] = NoTx
    BY AttemptStage
  <1>2. Said' = Said \union {c}  BY <1>1, SaidIsThen
  <1>3. UNCHANGED AllStages
    <2>1. \A b, o : o \in Runners => (Dispatching(o, b) <=> Dispatching(o, b)')  BY DEF Dispatching
    <2>2. \A b \in Batches : Stage(b)' = Stage(b)  BY <2>1 DEF Stage, RowSent
    <2> QED  BY <2>2, StagesKept
  <1>4. AllStages[tx[r].batch] = "attempt"  BY <1>1 DEF AllStages
  <1> QED  BY <1>1, <1>2, <1>3, <1>4 DEF Promise!Say, Leaves

(* A transaction ends without a record.                                     *)
LEMMA EndFails ==
    ASSUME SoloInv, NEW r \in Runners, NEW b \in Batches, tx[r] # NoTx, tx[r].batch = b,
           Ends(r, FALSE), tx'[r] = NoTx,
           UNCHANGED <<batch, old>>, \A a \in Batches \ {b} : row'[a] = row[a],
           ~Sent(b)', \A o \in Runners \ {r} : tx'[o] = tx[o]
    PROVE  Promise!Fail(b)
  <1>1. /\ Stage(b) = "attempt" /\ Said = tx[r].left
        /\ \A o \in Runners \ {r} : tx[o] = NoTx
        /\ batch[b] # Absent /\ batch[b] # 0
    BY AttemptStage
  <1>2. Said' = {}  BY <1>1, SaidIsThen
  <1>3. \A a \in Batches : ~(\E o \in Runners : Dispatching(o, a))'  BY <1>1 DEF Dispatching
  <1>4. Stage(b)' = "due"  BY <1>1, <1>3 DEF Stage, Sent, Channels
  <1>5. \A a \in Batches \ {b} : Stage(a)' = Stage(a)
    <2>1. \A a \in Batches \ {b} : ~ \E o \in Runners : Dispatching(o, a)  BY <1>1 DEF Dispatching
    <2> QED  BY <1>3, <2>1 DEF Stage, RowSent
  <1>6. AllStages' = [AllStages EXCEPT ![b] = "due"]  BY <1>4, <1>5, StageStep
  <1>7. AllStages[b] = "attempt"  BY <1>1 DEF AllStages
  <1> QED  BY <1>1, <1>2, <1>6, <1>7 DEF Promise!Fail, Ends

(* A commit fails the attempt, or records it under the channel by which a   *)
(* message left.                                                            *)
LEMMA CommitEnds ==
    ASSUME SoloInv, LeftTx, NEW r \in Runners, Commit(r), NEW b \in Batches, tx[r].batch = b
    PROVE  Promise!Fail(b) \/ \E c \in Channels : Promise!Record(b, c)
  <1>a. TypeOk /\ Inv /\ TxHolds  BY DEF SoloInv, Inv, Typed
  <1>1. tx[r] \in Tx /\ tx[r] # NoTx  BY <1>a, OpenTx DEF Commit, TxPcs
  <1>2. /\ Stage(b) = "attempt" /\ Said = tx[r].left
        /\ \A o \in Runners \ {r} : tx[o] = NoTx
        /\ batch[b] # Absent /\ batch[b] # 0
    BY <1>1, AttemptStage
  <1>3. RowSent(b, "web_push")' <=> tx[r].pushNew # NoRow /\ tx[r].pushNew.status = "sent"
    BY CommitSent
  <1>4. RowSent(b, "email")' <=> tx[r].emailNew # NoRow /\ tx[r].emailNew.status = "sent"
    BY CommitSent
  <1>5. /\ tx'[r] = NoTx /\ \A o \in Runners \ {r} : tx'[o] = tx[o]
        /\ UNCHANGED <<batch, old>> /\ \A a \in Batches \ {b} : row'[a] = row[a]
    BY <1>a DEF Commit, TypeOk
  <1>6. /\ Announces(tx[r]) => UNCHANGED <<told, lost>>
        /\ ~Announces(tx[r]) => Ends(r, FALSE)
    BY DEF Commit, Ends
  <1>9. Sent(b)' <=> Announces(tx[r])
    <2>1. /\ "web_push" \in Recorded(tx[r]) <=> RowSent(b, "web_push")'
          /\ "email" \in Recorded(tx[r]) <=> RowSent(b, "email")'
      BY <1>3, <1>4 DEF Recorded, Channels
    <2>2. Announces(tx[r]) <=> "web_push" \in Recorded(tx[r]) \/ "email" \in Recorded(tx[r])
      BY DEF Announces, Recorded, Channels
    <2> QED  BY <2>1, <2>2 DEF Sent, Channels
  <1>7. CASE ~Sent(b)'
    <2>1. ~Announces(tx[r])  BY <1>7, <1>9
    <2> QED  BY <1>1, <1>5, <1>6, <1>7, <2>1, EndFails
  <1>8. CASE Sent(b)'
    <2>1. UNCHANGED <<told, lost, old>>  BY <1>5, <1>6, <1>8, <1>9
    <2>2. PICK c \in Channels : c \in Said /\ Stage(b)' = c
      <3>1. CASE RowSent(b, "web_push")'
        <4>1. "web_push" \in Said  BY <1>1, <1>2, <1>3, <3>1 DEF LeftTx, TxLeft
        <4>2. Stage(b)' = "web_push"  BY <1>2, <1>5, <3>1 DEF Stage
        <4> QED  BY <4>1, <4>2 DEF Channels
      <3>2. CASE ~RowSent(b, "web_push")' /\ RowSent(b, "email")'
        <4>1. "email" \in Said  BY <1>1, <1>2, <1>4, <3>2 DEF LeftTx, TxLeft
        <4>2. Stage(b)' = "email"  BY <1>2, <1>5, <3>2 DEF Stage
        <4> QED  BY <4>1, <4>2 DEF Channels
      <3> QED  BY <1>8, <3>1, <3>2 DEF Sent, Channels
    <2>3. \A a \in Batches \ {b} : Stage(a)' = Stage(a)
      <3>1. \A a \in Batches \ {b} : ~ \E o \in Runners : Dispatching(o, a)  BY <1>2 DEF Dispatching
      <3>2. \A a \in Batches \ {b} : ~(\E o \in Runners : Dispatching(o, a))'
        BY <1>2, <1>5 DEF Dispatching
      <3> QED  BY <1>5, <3>1, <3>2 DEF Stage, RowSent
    <2>4. Said' = {}  BY <1>2, <1>5, SaidIsThen
    <2>5. AllStages' = [AllStages EXCEPT ![b] = c]  BY <2>2, <2>3, StageStep
    <2>6. AllStages[b] = "attempt"  BY <1>2 DEF AllStages
    <2>7. Promise!Record(b, c)  BY <2>1, <2>2, <2>4, <2>5, <2>6 DEF Promise!Record
    <2> QED  BY <2>7
  <1> QED  BY <1>7, <1>8

LEMMA GenerateGenerates ==
    ASSUME SoloInv, NEW r \in Runners, Generate(r)
    PROVE  Promise!Generate
  <1>a. TypeOk /\ TxOpen /\ NoOrphanDelivery  BY DEF SoloInv, Inv, Typed
  <1>1. pc[r] # "idle" /\ tx[r] = NoTx  BY <1>a DEF Generate, TxOpen, TxPcs
  <1>2. Promise!Quiet /\ \A o \in Runners : tx[o] = NoTx  BY <1>1, QuietStage
  <1>3. UNCHANGED <<tx, old, row, told, lost>>  BY DEF Generate, history
  <1>4. PICK R \in SUBSET (Batches \ old) : \E count \in [R -> 0..MaxCount] :
          batch' = [b \in Batches |-> IF b \in R THEN count[b] ELSE batch[b]]
    BY DEF Generate
  <1>5. \A b \in R : batch'[b] # Absent
    BY <1>4, BatchAssumption
  <1>6. \A b \in Batches : ~(\E o \in Runners : Dispatching(o, b)) /\ ~(\E o \in Runners : Dispatching(o, b))'
    BY <1>2, <1>3 DEF Dispatching
  <1>7. ASSUME NEW b \in Batches
        PROVE  Stage(b)' = Stage(b) \/ (Stage(b) \in {"nothing", "due"} /\ Stage(b)' \in {"nothing", "due"} /\ b \notin old)
    <2>1. CASE b \notin R
      <3>1. batch'[b] = batch[b]  BY <1>4, <2>1
      <3> QED  BY <1>3, <1>6, <3>1, StageKept
    <2>2. CASE b \in R
      <3>1. \A c \in Channels : RowSent(b, c)' <=> RowSent(b, c)  BY <1>3 DEF RowSent
      <3>2. batch[b] = Absent => \A c \in Channels : ~RowSent(b, c)
        BY <1>a DEF NoOrphanDelivery, RowSent
      <3>3. b \notin old /\ b \notin old' /\ batch'[b] # Absent  BY <1>3, <1>4, <1>5, <2>2
      <3> QED  BY <1>6, <3>1, <3>2, <3>3 DEF Stage, Channels
    <2> QED  BY <2>1, <2>2
  <1>8. UNCHANGED Said  BY <1>3 DEF Said
  <1> QED  BY <1>2, <1>3, <1>7, <1>8 DEF Promise!Generate, Promise!Generated, AllStages

LEMMA PurgeRetires ==
    ASSUME SoloInv, NEW r \in Runners, Purge(r)
    PROVE  Promise!Retire
  <1>a. TypeOk /\ TxOpen  BY DEF SoloInv, Inv, Typed
  <1>1. pc[r] # "idle" /\ tx[r] = NoTx  BY <1>a DEF Purge, TxOpen, TxPcs
  <1>2. Promise!Quiet /\ \A o \in Runners : tx[o] = NoTx  BY <1>1, QuietStage
  <1>3. UNCHANGED <<tx, old, told, lost>>  BY DEF Purge, history
  <1>4. \A b \in Batches : IF b \in Expired THEN b \in old /\ batch'[b] = Absent
                                            ELSE batch'[b] = batch[b] /\ row'[b] = row[b]
    BY <1>a DEF Purge, TypeOk, Expired
  <1>5. \A b \in Batches : (\E o \in Runners : Dispatching(o, b)) <=> (\E o \in Runners : Dispatching(o, b))'
    BY <1>3 DEF Dispatching
  <1>6. ASSUME NEW b \in Batches PROVE Stage(b)' = Stage(b) \/ (Stage(b)' = "gone" /\ b \in old)
    <2>1. CASE b \in Expired  BY <1>3, <1>4, <2>1 DEF Stage
    <2>2. CASE b \notin Expired  BY <1>3, <1>4, <1>5, <2>2, StageKept
    <2> QED  BY <2>1, <2>2
  <1>7. UNCHANGED Said  BY <1>3 DEF Said
  <1> QED  BY <1>2, <1>3, <1>6, <1>7 DEF Promise!Retire, AllStages

LEMMA OutsideAges ==
    ASSUME SoloInv, Outside
    PROVE  Promise!Age \/ UNCHANGED Promise!vars
  <1> USE DEF runVars, dbVars, userVars, history
  <1>1. ASSUME NEW b \in Batches, AgeOut(b) PROVE Promise!Age
    <2>1. /\ UNCHANGED <<batch, row, tx, told, lost>>
          /\ old' = old \union {b} /\ batch[b] # Absent
      BY <1>1 DEF AgeOut
    <2>2. \A a, o : Dispatching(o, a) <=> Dispatching(o, a)'  BY <2>1 DEF Dispatching
    <2>3. \A a \in Batches : Stage(a)' = Stage(a)  BY <2>1, <2>2 DEF Stage, RowSent
    <2>4. UNCHANGED AllStages /\ UNCHANGED Said  BY <2>1, <2>3, StagesKept DEF Said
    <2> QED  BY <2>1, <2>4 DEF Promise!Age
  <1>2. CASE UNCHANGED <<batch, row, old, tx, told, lost>>
    BY <1>2, NoStep
  <1>3. (\E b \in Batches : AgeOut(b)) \/ UNCHANGED <<batch, row, old, tx, told, lost>>
    BY DEF Outside, Subscribe, Unsubscribe, SaveSettings
  <1> QED  BY <1>1, <1>2, <1>3 DEF Outside

(* A process or a transaction that ends early.                              *)
LEMMA FailureFails ==
    ASSUME SoloInv, NEW r \in Runners, Crash(r) \/ DispatchFails(r) \/ FlushFails(r)
    PROVE  (\E b \in Batches : Promise!Fail(b)) \/ UNCHANGED Promise!vars
  <1>a. TypeOk  BY DEF SoloInv, Inv, Typed
  <1>1. /\ UNCHANGED <<batch, row, old>> /\ Ends(r, FALSE)
        /\ tx'[r] = NoTx /\ \A o \in Runners \ {r} : tx'[o] = tx[o]
    BY <1>a DEF Crash, DispatchFails, FlushFails, Stop, Rollback, TypeOk, dbVars
  <1>2. CASE tx[r] = NoTx
    <2>1. UNCHANGED <<told, lost>>  BY <1>1, <1>2 DEF Ends
    <2> QED  BY <1>1, <1>2, <2>1, NoStep
  <1>3. CASE tx[r] # NoTx
    <2>1. PICK b \in Batches : tx[r].batch = b /\ ~Sent(b)  BY <1>3, AttemptStage
    <2>2. ~Sent(b)'  BY <1>1, <2>1 DEF Sent, RowSent
    <2>3. Promise!Fail(b)  BY <1>1, <1>3, <2>1, <2>2, EndFails
    <2> QED  BY <2>3
  <1> QED  BY <1>2, <1>3

(* A message that leaves, whatever is known of it.                          *)
LEMMA MessageSays ==
    ASSUME SoloInv, NEW r \in Runners,
           \/ \E e \in Endpoints : PushOk(r, e) \/ PushMisreported(r, e)
           \/ EmailOk(r) \/ EmailMisreported(r)
    PROVE  \E b \in Batches, c \in Channels : Promise!Say(b, c)
  <1>a. TypeOk /\ TxOpen /\ Inv  BY DEF SoloInv, Inv, Typed
  <1> USE DEF dbVars
  <1>1. pc[r] \in TxPcs  BY DEF PushOk, PushMisreported, EmailOk, EmailMisreported, TxPcs
  <1>2. tx[r] \in Tx /\ tx[r] # NoTx /\ tx[r].batch \in Batches  BY <1>a, <1>1, OpenTx DEF Tx
  <1>3. ASSUME NEW c \in Channels, Leaves(r, c), UNCHANGED <<batch, row, old>>, NEW t \in Tx,
               tx' = [tx EXCEPT ![r] = t], t.batch = tx[r].batch, t.left = tx[r].left \union {c}
        PROVE  Promise!Say(tx[r].batch, c)
    <2>1. tx'[r] = t /\ \A o \in Runners \ {r} : tx'[o] = tx[o]  BY <1>a, <1>3 DEF TypeOk
    <2> QED  BY <1>2, <1>3, <2>1, TxAssumption, LeavesSays
  <1>4. ASSUME NEW e \in Endpoints, PushOk(r, e) PROVE Promise!Say(tx[r].batch, "web_push")
    <2> DEFINE t == [tx[r] EXCEPT !.todo = tx[r].todo \ {e}, !.ok = TRUE,
                                  !.left = tx[r].left \union {"web_push"}]
    <2>1. t \in Tx /\ t.batch = tx[r].batch /\ t.left = tx[r].left \union {"web_push"}
      BY <1>2 DEF Tx, Channels
    <2> QED  BY <1>3, <1>4, <2>1 DEF PushOk, Channels
  <1>5. ASSUME NEW e \in Endpoints, PushMisreported(r, e) PROVE Promise!Say(tx[r].batch, "web_push")
    <2> DEFINE t == [tx[r] EXCEPT !.todo = tx[r].todo \ {e}, !.left = tx[r].left \union {"web_push"}]
    <2>1. t \in Tx /\ t.batch = tx[r].batch /\ t.left = tx[r].left \union {"web_push"}
      BY <1>2 DEF Tx, Channels
    <2> QED  BY <1>3, <1>5, <2>1 DEF PushMisreported, Channels
  <1>6. ASSUME EmailOk(r) \/ EmailMisreported(r) PROVE Promise!Say(tx[r].batch, "email")
    <2>1. PICK new : RecordEmail(r, new, {"email"})  BY <1>6 DEF EmailOk, EmailMisreported
    <2>2. /\ \A o \in Runners \ {r} : tx'[o] = tx[o]
          /\ tx'[r].batch = tx[r].batch /\ tx'[r].left = tx[r].left \union {"email"}
      BY <1>a, <1>2, <2>1, RecordEmailTx
    <2>3. tx'[r] # NoTx
      <3>1. pc'[r] = "commit"  BY <1>a, <2>1 DEF RecordEmail, TypeOk
      <3>2. TxOpen' BY <1>a, <1>6, NextType DEF Typed, Next, Cycle, Dispatch, Faults
      <3> QED  BY <3>1, <3>2, TxAssumption DEF TxOpen, TxPcs
    <2>4. Leaves(r, "email") /\ UNCHANGED <<batch, row, old>>
      BY <1>6 DEF EmailOk, EmailMisreported
    <2> QED  BY <1>2, <2>2, <2>3, <2>4, LeavesSays DEF Channels
  <1> QED  BY <1>2, <1>4, <1>5, <1>6 DEF Channels

(* Every other step of a runner is none for the batches.                    *)
LEMMA OwnSteps ==
    ASSUME SoloInv, Next, NEW r \in Runners,
           \/ Start(r) \/ Select(r) \/ Finish(r) \/ PurgeFails(r)
           \/ \E b \in Batches : LoadMissing(r, b)
           \/ \E e \in Endpoints : PushGone(r, e) \/ PushError(r, e)
           \/ RecordPush(r) \/ ReadEmail(r) \/ EmailError(r)
    PROVE  UNCHANGED Promise!vars
  <1> USE DEF dbVars, history
  <1>a. TypeOk /\ TxOpen /\ Inv /\ TxHolds  BY DEF SoloInv, Inv, Typed
  <1>b. TxOpen'  BY <1>a, NextType DEF Typed
  <1>1. CASE Start(r) \/ Select(r) \/ \E b \in Batches : LoadMissing(r, b)
    <2>1. UNCHANGED <<batch, row, old, told, lost, tx>>
      BY <1>1 DEF Start, StartCron, StartJob, Select, LoadMissing
    <2> QED  BY <2>1, NoStep
  <1>2. CASE Finish(r) \/ PurgeFails(r)
    <2>1. UNCHANGED <<batch, row, old, told, lost>> /\ tx' = [tx EXCEPT ![r] = NoTx]
      BY <1>2 DEF Finish, PurgeFails, Stop
    <2>2. tx[r] = NoTx  BY <1>a, <1>2 DEF TxOpen, TxPcs, Finish, PurgeFails
    <2>3. \A o \in Runners : tx'[o] = tx[o]  BY <1>a, <2>1, <2>2 DEF TypeOk
    <2> QED  BY <2>1, <2>3, NoStep
  <1>3. ASSUME tx[r] # NoTx, pc'[r] \in TxPcs, UNCHANGED <<batch, row, old, told, lost>>,
               \A o \in Runners \ {r} : tx'[o] = tx[o],
               tx'[r].batch = tx[r].batch, tx'[r].left = tx[r].left
        PROVE  UNCHANGED Promise!vars
    <2>1. tx'[r] # NoTx  BY <1>b, <1>3, TxAssumption DEF TxOpen
    <2> QED  BY <1>3, <2>1, NoStep
  <1>4. CASE \E e \in Endpoints : PushGone(r, e) \/ PushError(r, e)
    <2>1. PICK e \in Endpoints : PushGone(r, e) \/ PushError(r, e)  BY <1>4
    <2>2. pc[r] = "push" /\ UNCHANGED <<batch, row, old, told, lost, pc>>
      BY <2>1 DEF PushGone, PushError
    <2>3. tx[r] \in Tx /\ tx[r] # NoTx  BY <1>a, <2>2, OpenTx DEF TxPcs
    <2>4. tx'[r].batch = tx[r].batch /\ \A o \in Runners \ {r} : tx'[o] = tx[o]
      BY <1>a, <2>1, PushStepTx
    <2>5. tx'[r].left = tx[r].left  BY <1>a, <2>1, <2>3 DEF PushGone, PushError, TypeOk, Tx
    <2> QED  BY <1>3, <2>2, <2>3, <2>4, <2>5 DEF TxPcs
  <1>5. CASE RecordPush(r) \/ ReadEmail(r)
    <2>1. pc[r] \in TxPcs /\ UNCHANGED <<batch, row, old, told, lost>>
      BY <1>5 DEF RecordPush, ReadEmail, TxPcs
    <2>2. tx[r] \in Tx /\ tx[r] # NoTx  BY <1>a, <2>1, OpenTx
    <2>3. /\ \A o \in Runners \ {r} : tx'[o] = tx[o]
          /\ tx'[r].batch = tx[r].batch /\ tx'[r].left = tx[r].left
      <3>1. CASE RecordPush(r)  BY <1>a, <2>2, <3>1 DEF TypeOk, RecordPush, Tx
      <3>2. CASE ReadEmail(r)  BY <1>a, <2>2, <3>2 DEF TypeOk, ReadEmail, Tx
      <3> QED  BY <1>5, <3>1, <3>2
    <2>4. pc'[r] \in TxPcs  BY <1>a, <1>5 DEF TypeOk, RecordPush, ReadEmail, TxPcs
    <2> QED  BY <1>3, <2>1, <2>2, <2>3, <2>4
  <1>6. CASE EmailError(r)
    <2>1. pc[r] \in TxPcs /\ UNCHANGED <<batch, row, old, told, lost>>
      BY <1>6 DEF EmailError, TxPcs
    <2>2. tx[r] \in Tx /\ tx[r] # NoTx  BY <1>a, <2>1, OpenTx
    <2>3. RecordEmail(r, [status |-> "failed", code |-> "email_failed"], {})
      BY <1>6 DEF EmailError
    <2>4. /\ pc' = [pc EXCEPT ![r] = "commit"]
          /\ \A o \in Runners \ {r} : tx'[o] = tx[o]
          /\ tx'[r].batch = tx[r].batch /\ tx'[r].left = tx[r].left \union {}
      BY <1>a, <2>2, <2>3, RecordEmailTx
    <2>5. pc'[r] \in TxPcs /\ tx'[r].left = tx[r].left  BY <1>a, <2>4 DEF TypeOk, TxPcs
    <2> QED  BY <1>3, <2>1, <2>2, <2>4, <2>5
  <1> QED  BY <1>1, <1>2, <1>4, <1>5, <1>6

-----------------------------------------------------------------------------
(* The refinement.                                                          *)
LEMMA NextPromise ==
    ASSUME SoloInv, LeftTx, Next
    PROVE  [Promise!Next]_(Promise!vars)
  <1>a. TypeOk /\ Inv /\ QueuePending /\ TxHolds  BY DEF SoloInv, Inv, Typed
  <1>1. ASSUME NEW r \in Runners,
               \/ Start(r) \/ Select(r) \/ Finish(r) \/ PurgeFails(r)
               \/ \E b \in Batches : LoadMissing(r, b)
               \/ \E e \in Endpoints : PushGone(r, e) \/ PushError(r, e)
               \/ RecordPush(r) \/ ReadEmail(r) \/ EmailError(r)
        PROVE  UNCHANGED Promise!vars
    BY <1>1, OwnSteps
  <1>2. ASSUME NEW r \in Runners, Generate(r) \/ Purge(r) PROVE Promise!Next
    BY <1>2, GenerateGenerates, PurgeRetires DEF Promise!Next
  <1>3. ASSUME NEW r \in Runners, NEW b \in Batches, Load(r, b) PROVE Promise!Next
    BY <1>3, LoadAttempts DEF Promise!Next
  <1>4. ASSUME NEW r \in Runners, NEW b \in Batches, LoadEmpty(r, b) PROVE FALSE
    BY <1>a, <1>4 DEF LoadEmpty, QueuePending, Pending
  <1>5. ASSUME NEW r \in Runners,
               \/ \E e \in Endpoints : PushOk(r, e) \/ PushMisreported(r, e)
               \/ EmailOk(r) \/ EmailMisreported(r)
        PROVE  Promise!Next
    BY <1>5, MessageSays DEF Promise!Next
  <1>6. ASSUME NEW r \in Runners, Commit(r) PROVE Promise!Next
    <2>1. tx[r] \in Tx  BY <1>a, <1>6, OpenTx DEF Commit, TxPcs
    <2>2. PICK b \in Batches : tx[r].batch = b  BY <2>1 DEF Tx
    <2> QED  BY <1>6, <2>2, CommitEnds DEF Promise!Next
  <1>7. ASSUME NEW r \in Runners, Crash(r) \/ DispatchFails(r) \/ FlushFails(r)
        PROVE  Promise!Next \/ UNCHANGED Promise!vars
    BY <1>7, FailureFails DEF Promise!Next
  <1>8. ASSUME Outside PROVE Promise!Next \/ UNCHANGED Promise!vars
    BY <1>8, OutsideAges DEF Promise!Next
  <1> QED  BY <1>1, <1>2, <1>3, <1>4, <1>5, <1>6, <1>7, <1>8 DEF Next, Cycle, Dispatch, Faults

LEMMA StutterPromise ==
    ASSUME UNCHANGED vars
    PROVE  UNCHANGED Promise!vars /\ (LeftTx => LeftTx')
  <1> USE DEF vars, runVars, dbVars, history
  <1>1. UNCHANGED Promise!vars  BY NoStep
  <1> QED  BY <1>1 DEF LeftTx, TxLeft

LEMMA InitPromise ==
    ASSUME Init
    PROVE  LeftTx /\ Promise!Init
  <1>1. \A r \in Runners : tx[r] = NoTx  BY DEF Init
  <1>2. \A b \in Batches : Stage(b) = "nothing"  BY DEF Init, Stage
  <1>3. AllStages = [b \in Batches |-> "nothing"]  BY <1>2 DEF AllStages
  <1>4. Said = {}  BY <1>1 DEF Said
  <1>5. told = [b \in Batches |-> 0] /\ lost = [b \in Batches |-> 0] /\ old = {}  BY DEF Init
  <1> QED  BY <1>1, <1>3, <1>4, <1>5 DEF LeftTx, Promise!Init

(* With one dispatcher at a time the digest keeps its promise: whatever     *)
(* cron, its failures and the users do is an announcement, a failed one,    *)
(* a generation, a retirement, or nothing to the batches.                   *)
THEOREM PromiseKept == Jobs = {} => (Spec => KeepsPromise)
  <1> SUFFICES ASSUME Jobs = {} PROVE Spec => KeepsPromise  OBVIOUS
  <1>1. Init => LeftTx /\ Promise!Init  BY InitPromise
  <1>2. SoloInv /\ LeftTx /\ [Next]_vars => LeftTx'  BY NextLeft, StutterPromise
  <1>3. SoloInv /\ LeftTx /\ [Next]_vars => [Promise!Next]_(Promise!vars)
    BY NextPromise, StutterPromise
  <1> QED  BY SoloInvariant, <1>1, <1>2, <1>3, PTL DEF Spec, KeepsPromise, Promise!Spec
=============================================================================
