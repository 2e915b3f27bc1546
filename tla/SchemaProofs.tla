---------------------------- MODULE SchemaProofs ----------------------------
(***************************************************************************)
(* Proofs about Schema, for any number of administrators and starts of the *)
(* application and whatever version older code has left: types, that the   *)
(* version is true, that the head is complete, and that a run which        *)
(* nothing overlaps does not fail.                                         *)
(*                                                                         *)
(* A migration runs in one transaction, and the version it stamps is       *)
(* locked until the commit: of the upgrades that began with the version    *)
(* that is stored now (Live) at most one will commit, and until then only  *)
(* starts of the application do, each of which leaves whole tables.  So    *)
(* whatever an upgrade looks for and does not find in the inspector's list *)
(* of tables is either created by it or whole (Looked), and everything     *)
(* behind it in its plan is provided (Behind).  A downgrade runs beside no *)
(* other migration (Exclusive) and takes away nothing that the version it  *)
(* goes to promises (Spares).                                              *)
(*                                                                         *)
(* What holds of one process is said of its place c and its job j, over    *)
(* the database d and the version v.                                       *)
(***************************************************************************)
EXTENDS Schema, SequenceTheorems, TLAPS

Old       == {"users", "qso_reports"}
Names     == Tables \union {"alembic_version"}
PartNames == {"table", "lotw", "billing", "mail", "email", "index", "uq_endpoint", "ix_endpoint"}
Kinds     == {"inspect", "create", "add", "drop", "remove", "declare"}
StepType  == [kind : Kinds, table : Names, part : PartNames]
JobType   == [steps : Seq(StepType), names : SUBSET Names, own : SUBSET Objects, gone : SUBSET Objects,
              base : 0..Head4, at : 0..Head4, target : 0..Head4, spoilt : BOOLEAN]

Table(t)    == <<t, "table">>
Index       == <<"stripe_events", "index">>
IxEndpoint  == <<"web_push_subscriptions", "ix_endpoint">>
UqEndpoint  == <<"web_push_subscriptions", "uq_endpoint">>
In(o, S)    == o \in S \/ (o = IxEndpoint /\ UqEndpoint \in S)

Items(s)      == {s[i] : i \in DOMAIN s}
Up(p, c, j)   == p \in Admins /\ c # "idle" /\ j.base < j.target
Down(c, j)    == c # "idle" /\ j.target < j.base
Seen(j, d)    == d \union j.own

-----------------------------------------------------------------------------
(* Where a process is, and where its migration.                             *)
Place(c, j) ==
    /\ c = "idle" => j = NoJob
    /\ c \in {"look", "act"} => j.steps # <<>>
    /\ c = "act" => Head(j.steps).kind # "inspect"
    /\ c \in {"stamp", "commit"} => j.steps = <<>>
    /\ c = "stamp" => j.at # j.target
    /\ c = "commit" => j.at = j.target
    /\ j.spoilt => c = "look"

Course(p, c, j) ==
    /\ p \in Apps => j.at = j.target /\ j.base = j.target
    /\ p \in Admins /\ c # "idle" =>
         \/ j.target = Head4 /\ j.base <= j.at /\ j.base < Head4
         \/ j.target <= j.at /\ j.at <= j.base /\ j.target < j.base

-----------------------------------------------------------------------------
(* What is still to do.  Step i of an upgrade to version v:                 *)
UpStep(s, i, v) ==
    LET t == s[i].table IN
    /\ s[i].kind \in {"inspect", "create", "add"}
    /\ s[i].kind = "create" => /\ t \notin Old /\ s[i].part = "table"
                               /\ \A k \in DOMAIN s : k > i => s[k] # s[i]
                               /\ i + 1 \in DOMAIN s => s[i + 1].kind # "add"
    /\ s[i] = Create("stripe_events") =>
         i + 2 = Len(s) /\ s[i + 1] = Inspect /\ s[i + 2] = Add("stripe_events", "index")
    /\ s[i].kind = "add" => s[i].part # "table"
    /\ s[i].kind = "add" /\ t \in Old => <<t, s[i].part>> \in Declared(t)
    /\ s[i].kind = "add" /\ t \notin Old => /\ Table(t) \in Made(v)
                                            /\ \A k \in DOMAIN s : k > i => s[k].kind = "add"
UpPlan(s, v) == \A i \in DOMAIN s : UpStep(s, i, v)

(* A step of a downgrade to version v or below.                             *)
DownStep(step, v) ==
    /\ step.kind \in {"inspect", "drop", "remove"}
    /\ step.kind = "drop" => /\ <<step.table, step.part>> \notin Made(v) \union {UqEndpoint, Index}
                             /\ step.part # "table"
    /\ step.kind = "remove" => step.table \notin Old /\ \A part \in PartNames : <<step.table, part>> \notin Made(v)

AppStep(step) == step = Inspect \/ \E t \in Tables : step = Declare(t)

Plan(p, c, j) ==
    /\ p \in Apps => \A step \in Items(j.steps) : AppStep(step)
    /\ Up(p, c, j) => IF j.at < Head4 THEN UpPlan(j.steps, j.at + 1) ELSE j.steps = <<>>
    /\ Down(c, j) => \A step \in Items(j.steps) : DownStep(step, j.target)

-----------------------------------------------------------------------------
(* What has been done.                                                      *)
Spares(v, S) == /\ \A o \in S : o \notin Made(v) /\ o \notin OldTables
                /\ UqEndpoint \in S => IxEndpoint \notin Made(v)
Change(p, c, j) ==
    /\ ~Down(c, j) => j.gone = {}
    /\ Down(c, j) => /\ j.own = {} /\ Spares(j.target, j.gone)
                     /\ Index \in j.gone => Table("stripe_events") \in j.gone
    /\ p \in Admins => j.own \intersect OldTables = {}
    /\ p \in Apps => \A t \in Tables : Table(t) \in j.own => Declared(t) \subseteq j.own

(* The tables that no migration creates come and stay together, and before  *)
(* those that refer to them.                                                *)
Root(p, c, j, d) ==
    /\ Table("notification_preferences") \in Seen(j, d) => Table("users") \in Seen(j, d)
    /\ p \in Apps => \A t \in Old :
         /\ c = "idle" \/ Declare(t) \in Items(j.steps) \/ Table(t) \in Seen(j, d)
         /\ t \in j.names => Table(t) \in Seen(j, d)
Rooted(d) == Table("notification_preferences") \in d => Table("users") \in d
Roots(d)  == /\ Table("users") \in d <=> Table("qso_reports") \in d
             /\ Rooted(d)

-----------------------------------------------------------------------------
(* An upgrade that may still commit.                                        *)
Live(p, c, j, v) == Up(p, c, j) /\ ~j.spoilt /\ v = j.base

(* Provided, or a part of a table that no migration creates and that is not *)
(* there.                                                                   *)
Settled(o, S) == IF o[1] \in Old THEN Table(o[1]) \in S => o \in S ELSE In(o, S)
Looked(j, d) ==
    /\ \A t \in j.names : Table(t) \in Seen(j, d)
    /\ (j.steps # <<>> => Head(j.steps).kind # "inspect") =>
         /\ \A t \in Old \ j.names : Table(t) \in d => Declared(t) \subseteq d
         /\ (\A step \in Items(j.steps) : step.kind = "add") =>
               \A step \in Items(j.steps) : step.table \in Old \union j.names
Behind(j, d) ==
    /\ \A o \in Made(j.at) : Settled(o, Seen(j, d))
    /\ j.at < Head4 => \A o \in Made(j.at + 1) :
          \/ Settled(o, Seen(j, d))
          \/ \E step \in Items(j.steps) : step.kind \in {"create", "add"} /\ o = <<step.table, step.part>>
    /\ Create("stripe_events") \in Items(j.steps) => j.at = 1
    /\ j.at = 0 \/ Create("stripe_events") \in Items(j.steps) => Table("stripe_events") \notin j.own

Sound(p, c, j, d, v) ==
    /\ Place(c, j) /\ Course(p, c, j) /\ Plan(p, c, j) /\ Change(p, c, j) /\ Root(p, c, j, d)
    /\ Live(p, c, j, v) => Looked(j, d) /\ Behind(j, d)

-----------------------------------------------------------------------------
(* A downgrade runs beside no migration; a stamp is locked.                 *)
Exclusive == \A p, q \in Admins : Down(pc[p], job[p]) /\ p # q => pc[q] = "idle"
Stamped   == \A p \in Procs : job[p].at # job[p].base =>
                /\ version = job[p].base
                /\ \A q \in Procs : q # p => job[q].at = job[q].base

(* The version does not lie.                                                *)
Promised(v, S) == OldTables \subseteq S /\ \A o \in Made(v) : In(o, S)
Truth(d, v) == /\ v > 0 => Promised(v, d)
               /\ v < 2 /\ Table("stripe_events") \in d => Index \in d

Typed     == TypeOk /\ job \in [Procs -> JobType]
SchemaInv == /\ Typed /\ Exclusive /\ Stamped /\ Roots(db) /\ Truth(db, version)
             /\ \A p \in Procs : Sound(p, pc[p], job[p], db, version)

-----------------------------------------------------------------------------
(* Sequences of steps.                                                      *)
LEMMA TailFacts ==
    ASSUME NEW s \in Seq(StepType), s # <<>>
    PROVE  /\ Head(s) = s[1] /\ Head(s) \in StepType /\ Tail(s) \in Seq(StepType)
           /\ 1 \in DOMAIN s /\ Len(Tail(s)) = Len(s) - 1 /\ Len(s) \in Nat
           /\ \A i \in DOMAIN Tail(s) : i \in Nat /\ i + 1 \in DOMAIN s /\ Tail(s)[i] = s[i + 1]
           /\ Items(s) = {Head(s)} \union Items(Tail(s))
<1>1. /\ Head(s) = s[1] /\ Head(s) \in StepType /\ Tail(s) \in Seq(StepType)
      /\ 1 \in DOMAIN s /\ Len(Tail(s)) = Len(s) - 1 /\ Len(s) \in Nat
      /\ DOMAIN s = 1..Len(s) /\ DOMAIN Tail(s) = 1..Len(Tail(s))
      /\ \A i \in DOMAIN Tail(s) : i \in Nat /\ i + 1 \in DOMAIN s /\ Tail(s)[i] = s[i + 1]
  OBVIOUS
<1>2. \A i \in DOMAIN s : i = 1 \/ (i - 1 \in DOMAIN Tail(s) /\ s[i] = Tail(s)[i - 1])
  BY <1>1
<1>3. Items(s) \subseteq {Head(s)} \union Items(Tail(s))
  <2>. SUFFICES ASSUME NEW i \in DOMAIN s PROVE s[i] \in {Head(s)} \union Items(Tail(s))
    BY DEF Items
  <2>1. CASE i = 1
    BY <1>1, <2>1
  <2>2. CASE i # 1
    BY <1>2, <2>2 DEF Items
  <2>. QED BY <2>1, <2>2
<1>4. {Head(s)} \union Items(Tail(s)) \subseteq Items(s)
  BY <1>1 DEF Items
<1>. QED BY <1>1, <1>3, <1>4

LEMMA NoItems == Items(<<>>) = {}
  BY DEF Items

LEMMA PlanTail ==
    ASSUME NEW s \in Seq(StepType), s # <<>>, NEW v, UpPlan(s, v)
    PROVE  UpPlan(Tail(s), v)
<1>1. SUFFICES ASSUME NEW i \in DOMAIN Tail(s) PROVE UpStep(Tail(s), i, v)
  BY DEF UpPlan
<1>2. /\ i + 1 \in DOMAIN s /\ Tail(s)[i] = s[i + 1] /\ i \in Nat /\ Len(s) \in Nat
      /\ Len(Tail(s)) = Len(s) - 1 /\ DOMAIN s = 1..Len(s) /\ DOMAIN Tail(s) = 1..Len(Tail(s))
      /\ \A k \in DOMAIN Tail(s) : k \in Nat /\ k + 1 \in DOMAIN s /\ Tail(s)[k] = s[k + 1]
  BY TailFacts
<1>3. UpStep(s, i + 1, v)
  BY <1>2 DEF UpPlan
<1>4. s[i + 1] = Create("stripe_events") =>
         i + 2 = Len(Tail(s)) /\ Tail(s)[i + 1] = Inspect /\ Tail(s)[i + 2] = Add("stripe_events", "index")
  <2>. SUFFICES ASSUME s[i + 1] = Create("stripe_events")
                PROVE  i + 2 = Len(Tail(s)) /\ Tail(s)[i + 1] = Inspect /\ Tail(s)[i + 2] = Add("stripe_events", "index")
    OBVIOUS
  <2>1. (i + 1) + 2 = Len(s) /\ s[(i + 1) + 1] = Inspect /\ s[(i + 1) + 2] = Add("stripe_events", "index")
    BY <1>3 DEF UpStep
  <2>2. i + 1 \in DOMAIN Tail(s) /\ i + 2 \in DOMAIN Tail(s) /\ i + 2 = Len(Tail(s))
    <3>1. i \in Nat /\ Len(s) \in Nat /\ Len(Tail(s)) = Len(s) - 1 /\ DOMAIN Tail(s) = 1..Len(Tail(s))
      BY <1>2
    <3>2. (i + 1) + 2 = Len(s)
      BY <2>1
    <3>3. \A n, m \in Nat : m = n - 1 /\ i + 3 = n => i + 1 \in 1..m /\ i + 2 \in 1..m /\ i + 2 = m
      BY <3>1
    <3>4. Len(Tail(s)) \in Nat /\ i + 3 = Len(s)
      <4>1. Tail(s) \in Seq(StepType)
        BY TailFacts
      <4>2. Len(Tail(s)) \in Nat
        BY <4>1
      <4>3. \A n \in Nat : (i + 1) + 2 = n => i + 3 = n
        BY <3>1
      <4>. QED BY <3>1, <3>2, <4>2, <4>3
    <3>. QED BY <3>1, <3>3, <3>4
  <2>3. Tail(s)[i + 1] = s[(i + 1) + 1] /\ Tail(s)[i + 2] = s[(i + 2) + 1] /\ (i + 2) + 1 = (i + 1) + 2
    BY <1>2, <2>2
  <2>. QED BY <2>1, <2>2, <2>3
<1>5. \A k \in DOMAIN Tail(s) : k > i => k + 1 > i + 1 /\ k + 1 \in DOMAIN s /\ Tail(s)[k] = s[k + 1]
  BY <1>2
<1>6. i + 1 \in DOMAIN Tail(s) => (i + 1) + 1 \in DOMAIN s /\ Tail(s)[i + 1] = s[(i + 1) + 1]
  BY <1>2
<1>. QED BY <1>2, <1>3, <1>4, <1>5, <1>6 DEF UpStep

-----------------------------------------------------------------------------
(* The migrations as they are written.                                      *)
Parts(s) == {<<s[k].table, s[k].part>> : k \in {i \in DOMAIN s : s[i].kind \in {"create", "add"}}}

LEMMA MadeFacts ==
    /\ Made(0) = {}
    /\ \A v \in 0..3 : Made(v + 1) = Made(v) \union Parts(Upgrades[v + 1])
    /\ \A v, w \in 0..Head4 : v <= w => Made(v) \subseteq Made(w)
<1>1. Made(0) = {}
  BY DEF Made
<1>2. \A v \in 0..3 : 1..(v + 1) = (1..v) \union {v + 1}
  OBVIOUS
<1>3. \A v \in 0..3 : Made(v + 1) = Made(v) \union Parts(Upgrades[v + 1])
  BY <1>2 DEF Made, Parts
<1>4. \A v, w \in 0..Head4 : v <= w => 1..v \subseteq 1..w
  OBVIOUS
<1>5. \A v, w \in 0..Head4 : v <= w => Made(v) \subseteq Made(w)
  BY <1>4 DEF Made
<1>. QED BY <1>1, <1>3, <1>5

Parts1 == {<<"users", "lotw">>}
Parts2 == {<<"users", "billing">>, <<"users", "index">>, <<"qso_reports", "index">>,
           Table("stripe_events"), Index}
Parts3 == {<<"users", "mail">>, Table("notification_preferences"), Table("web_push_subscriptions"),
           Table("qsl_digest_batches"), Table("notification_deliveries"),
           <<"notification_preferences", "index">>, <<"web_push_subscriptions", "index">>, IxEndpoint,
           <<"qsl_digest_batches", "index">>, <<"notification_deliveries", "index">>}
Parts4 == {<<"notification_preferences", "email">>}

Upgrade3Is ==
    /\ DOMAIN Upgrade3 = 1..12 /\ Len(Upgrade3) = 12
    /\ \A i \in 1..12 : i = 1 \/ i = 2 \/ i = 3 \/ i = 4 \/ i = 5 \/ i = 6 \/ i = 7 \/ i = 8 \/ i = 9 \/ i = 10 \/ i = 11 \/ i = 12
    /\ Upgrade3[1] = Inspect /\ Upgrade3[2] = Add("users", "mail")
    /\ Upgrade3[3] = Create("notification_preferences") /\ Upgrade3[4] = Create("web_push_subscriptions")
    /\ Upgrade3[5] = Create("qsl_digest_batches") /\ Upgrade3[6] = Create("notification_deliveries")
    /\ Upgrade3[7] = Inspect /\ Upgrade3[8] = Add("notification_preferences", "index")
    /\ Upgrade3[9] = Add("web_push_subscriptions", "index") /\ Upgrade3[10] = Add("web_push_subscriptions", "ix_endpoint")
    /\ Upgrade3[11] = Add("qsl_digest_batches", "index") /\ Upgrade3[12] = Add("notification_deliveries", "index")
LEMMA Upgrade3Facts == Upgrade3Is
  BY DEF Upgrade3Is, Upgrade3, DigestTables, DigestIndexes

LEMMA PartsFacts == Parts(Upgrade1) = Parts1 /\ Parts(Upgrade2) = Parts2 /\ Parts(Upgrade3) = Parts3 /\ Parts(Upgrade4) = Parts4
<1>. USE DEF Parts, Step, Inspect, Create, Add, Table, Index, IxEndpoint
<1>1. Parts(Upgrade1) = Parts1
  BY DEF Parts1, Upgrade1
<1>2. Parts(Upgrade2) = Parts2
  <2>1. /\ DOMAIN Upgrade2 = 1..8
        /\ Upgrade2[1] = Inspect /\ Upgrade2[2] = Add("users", "billing") /\ Upgrade2[3] = Add("users", "index")
        /\ Upgrade2[4] = Add("qso_reports", "index") /\ Upgrade2[5] = Inspect
        /\ Upgrade2[6] = Create("stripe_events") /\ Upgrade2[7] = Inspect
        /\ Upgrade2[8] = Add("stripe_events", "index")
    BY DEF Upgrade2, StripeEvents
  <2>2. \A i \in 1..8 : i = 1 \/ i = 2 \/ i = 3 \/ i = 4 \/ i = 5 \/ i = 6 \/ i = 7 \/ i = 8
    OBVIOUS
  <2>3. Parts(Upgrade2) \subseteq Parts2
    BY <2>1, <2>2 DEF Parts2
  <2>4. Parts2 \subseteq Parts(Upgrade2)
    BY <2>1, <2>2 DEF Parts2
  <2>. QED BY <2>3, <2>4
<1>3. Parts(Upgrade3) = Parts3
  <2>1. Upgrade3Is
    BY Upgrade3Facts
  <2>3. Parts(Upgrade3) \subseteq Parts3
    BY <2>1 DEF Parts3, Upgrade3Is
  <2>4. Parts3 \subseteq Parts(Upgrade3)
    BY <2>1 DEF Parts3, Upgrade3Is
  <2>. QED BY <2>3, <2>4
<1>4. Parts(Upgrade4) = Parts4
  BY DEF Parts4, Upgrade4
<1>. QED BY <1>1, <1>2, <1>3, <1>4

LEMMA MadeAre ==
    /\ Made(0) = {} /\ Made(1) = Parts1 /\ Made(2) = Parts1 \union Parts2
    /\ Made(3) = Parts1 \union Parts2 \union Parts3
    /\ Made(4) = Parts1 \union Parts2 \union Parts3 \union Parts4
<1>1. Upgrades[1] = Upgrade1 /\ Upgrades[2] = Upgrade2 /\ Upgrades[3] = Upgrade3 /\ Upgrades[4] = Upgrade4
  BY DEF Upgrades
<1>2. Made(0 + 1) = Made(0) \union Parts(Upgrades[0 + 1])  BY MadeFacts
<1>3. Made(1 + 1) = Made(1) \union Parts(Upgrades[1 + 1])  BY MadeFacts
<1>4. Made(2 + 1) = Made(2) \union Parts(Upgrades[2 + 1])  BY MadeFacts
<1>5. Made(3 + 1) = Made(3) \union Parts(Upgrades[3 + 1])  BY MadeFacts
<1>. QED BY <1>1, <1>2, <1>3, <1>4, <1>5, MadeFacts, PartsFacts

(* The upgrade after version v.                                             *)
Proper(s, v) == /\ s \in Seq(StepType) /\ s # <<>> /\ Head(s) = Inspect /\ UpPlan(s, v + 1)
                /\ Create("stripe_events") \in Items(s) => v = 1
                /\ Parts(Upgrades[v + 1]) \subseteq Parts(s)

LEMMA UpgradesFacts == (\A v \in 0..3 : Proper(Upgrades[v + 1], v)) /\ Proper(VersionTable \o Upgrade1, 0)
<1>. USE DEF Step, Inspect, Create, Add, Table, Index, IxEndpoint
<1>t. /\ StepType = [kind : Kinds, table : Names, part : PartNames]
      /\ Kinds = {"inspect", "create", "add", "drop", "remove", "declare"}
  BY DEF StepType, Kinds
<1>d. /\ {<<"users", "lotw">>, <<"users", "billing">>, <<"users", "mail">>, <<"users", "index">>} \subseteq Declared("users")
      /\ <<"qso_reports", "index">> \in Declared("qso_reports")
  BY DEF Declared, UsersParts
<1>u. Upgrades[1] = Upgrade1 /\ Upgrades[2] = Upgrade2 /\ Upgrades[3] = Upgrade3 /\ Upgrades[4] = Upgrade4
  BY DEF Upgrades
<1>m. /\ Table("stripe_events") \in Made(2) /\ Table("notification_preferences") \in Made(4)
      /\ {Table("notification_preferences"), Table("web_push_subscriptions"),
          Table("qsl_digest_batches"), Table("notification_deliveries")} \subseteq Made(3)
  BY MadeAre DEF Parts1, Parts2, Parts3, Parts4
<1>1. Proper(Upgrade1, 0)
  <2>1. Upgrade1 \in Seq(StepType) /\ Upgrade1 # <<>> /\ Head(Upgrade1) = Inspect
    BY <1>t DEF Upgrade1, Names, Tables, PartNames
  <2>2. UpPlan(Upgrade1, 1)
    BY <1>d DEF UpPlan, UpStep, Upgrade1, Old
  <2>3. Create("stripe_events") \notin Items(Upgrade1)
    BY DEF Items, Upgrade1
  <2>. QED BY <1>u, <2>1, <2>2, <2>3 DEF Proper
<1>2. Proper(Upgrade2, 1)
  <2>1. Upgrade2 \in Seq(StepType) /\ Upgrade2 # <<>> /\ Head(Upgrade2) = Inspect
    BY <1>t DEF Upgrade2, StripeEvents, Names, Tables, PartNames
  <2>2. UpPlan(Upgrade2, 2)
    BY <1>d, <1>m DEF UpPlan, UpStep, Upgrade2, StripeEvents, Old
  <2>. QED BY <1>u, <2>1, <2>2 DEF Proper
<1>3. Proper(Upgrade3, 2)
  <2>1. Upgrade3 \in Seq(StepType) /\ Upgrade3 # <<>> /\ Head(Upgrade3) = Inspect
    BY <1>t DEF Upgrade3, DigestTables, DigestIndexes, Names, Tables, PartNames
  <2>2. UpPlan(Upgrade3, 3)
    <3>. SUFFICES ASSUME NEW i \in 1..12 PROVE UpStep(Upgrade3, i, 3)
      BY Upgrade3Facts DEF UpPlan, Upgrade3Is
    <3>. USE Upgrade3Facts, <1>d, <1>m DEF Upgrade3Is, UpStep, Old
    <3>1. CASE i \in {1, 7}  BY <3>1
    <3>2. CASE i = 2  BY <3>2
    <3>3. CASE i \in {3, 4}  BY <3>3
    <3>4. CASE i \in {5, 6}  BY <3>4
    <3>5. CASE i \in {8, 9, 10}  BY <3>5
    <3>6. CASE i \in {11, 12}  BY <3>6
    <3>. QED BY <3>1, <3>2, <3>3, <3>4, <3>5, <3>6
  <2>3. Create("stripe_events") \notin Items(Upgrade3)
    BY DEF Items, Upgrade3, DigestTables, DigestIndexes
  <2>. QED BY <1>u, <2>1, <2>2, <2>3 DEF Proper
<1>4. Proper(Upgrade4, 3)
  <2>1. Upgrade4 \in Seq(StepType) /\ Upgrade4 # <<>> /\ Head(Upgrade4) = Inspect
    BY <1>t DEF Upgrade4, Names, Tables, PartNames
  <2>2. UpPlan(Upgrade4, 4)
    BY <1>m DEF UpPlan, UpStep, Upgrade4, Old
  <2>3. Create("stripe_events") \notin Items(Upgrade4)
    BY DEF Items, Upgrade4
  <2>. QED BY <1>u, <2>1, <2>2, <2>3 DEF Proper
<1>5. Proper(VersionTable \o Upgrade1, 0)
  <2>. DEFINE s == VersionTable \o Upgrade1
  <2>1. s \in Seq(StepType) /\ s # <<>> /\ Head(s) = Inspect
    BY <1>t DEF VersionTable, Upgrade1, Names, Tables, PartNames
  <2>2. UpPlan(s, 1)
    BY <1>d DEF UpPlan, UpStep, VersionTable, Upgrade1, Old
  <2>3. Create("stripe_events") \notin Items(s)
    BY DEF Items, VersionTable, Upgrade1
  <2>4. Parts(Upgrade1) \subseteq Parts(s)
    BY PartsFacts DEF Parts1, Parts, VersionTable, Upgrade1
  <2>. QED BY <1>u, <2>1, <2>2, <2>3, <2>4 DEF Proper
<1>6. \A v \in 0..3 : v = 0 \/ v = 1 \/ v = 2 \/ v = 3
  OBVIOUS
<1>. QED BY <1>u, <1>1, <1>2, <1>3, <1>4, <1>5, <1>6

LEMMA DowngradesFacts ==
    \A v \in 1..Head4 : /\ Downgrades[v] \in Seq(StepType) /\ Downgrades[v] # <<>>
                        /\ \A step \in Items(Downgrades[v]) : DownStep(step, v - 1)
<1>. USE DEF Step, Inspect, Drop, Remove, Table, Index, IxEndpoint, UqEndpoint
<1>t. /\ StepType = [kind : Kinds, table : Names, part : PartNames]
      /\ Kinds = {"inspect", "create", "add", "drop", "remove", "declare"}
  BY DEF StepType, Kinds
<1>u. Downgrades[1] = Downgrade1 /\ Downgrades[2] = Downgrade2 /\ Downgrades[3] = Downgrade3 /\ Downgrades[4] = Downgrade4
  BY DEF Downgrades
<1>1. /\ Downgrade1 \in Seq(StepType) /\ Downgrade1 # <<>>
      /\ \A step \in Items(Downgrade1) : DownStep(step, 0)
  BY <1>t, MadeAre DEF Downgrade1, Names, Tables, PartNames, Items, DownStep, Old
<1>2. /\ Downgrade2 \in Seq(StepType) /\ Downgrade2 # <<>>
      /\ \A step \in Items(Downgrade2) : DownStep(step, 1)
  BY <1>t, MadeAre DEF Downgrade2, Names, Tables, PartNames, Items, DownStep, Old, Parts1
<1>3. /\ Downgrade3 \in Seq(StepType) /\ Downgrade3 # <<>>
      /\ \A step \in Items(Downgrade3) : DownStep(step, 2)
  BY <1>t, MadeAre DEF Downgrade3, Names, Tables, PartNames, Items, DownStep, Old, Parts1, Parts2
<1>4. /\ Downgrade4 \in Seq(StepType) /\ Downgrade4 # <<>>
      /\ \A step \in Items(Downgrade4) : DownStep(step, 3)
  BY <1>t, MadeAre DEF Downgrade4, Names, Tables, PartNames, Items, DownStep, Old, Parts1, Parts2, Parts3
<1>5. \A v \in 1..Head4 : v = 1 \/ v = 2 \/ v = 3 \/ v = 4
  BY DEF Head4
<1>. QED BY <1>u, <1>1, <1>2, <1>3, <1>4, <1>5

LEMMA CreateAllFacts ==
    /\ CreateAll \in Seq(StepType) /\ CreateAll # <<>>
    /\ \A step \in Items(CreateAll) : AppStep(step)
    /\ \A t \in Old : Declare(t) \in Items(CreateAll)
<1>. USE DEF Step, Inspect, Declare
<1>1. CreateAll \in Seq(StepType) /\ CreateAll # <<>>
  BY DEF CreateAll, StepType, Kinds, Names, Tables, PartNames
<1>2. \A step \in Items(CreateAll) : AppStep(step)
  BY DEF CreateAll, Items, AppStep, Tables
<1>3. CreateAll[3] = Declare("users") /\ CreateAll[6] = Declare("qso_reports") /\ 3 \in DOMAIN CreateAll /\ 6 \in DOMAIN CreateAll
  BY DEF CreateAll
<1>4. \A t \in Old : Declare(t) \in Items(CreateAll)
  BY <1>3 DEF Items, Old
<1>. QED BY <1>1, <1>2, <1>4

-----------------------------------------------------------------------------
(* A process without a job.                                                 *)
LEMMA IdleSound ==
    ASSUME NEW p \in Procs, NEW d, NEW v, Rooted(d)
    PROVE  NoJob \in JobType /\ Sound(p, "idle", NoJob, d, v)
<1>. USE DEF NoJob
<1>1. NoJob \in JobType
  <2>1. <<>> \in Seq(StepType)
    OBVIOUS
  <2>. QED BY <2>1 DEF JobType, Head4
<1>2. Items(NoJob.steps) = {}
  BY DEF Items
<1>3. Place("idle", NoJob) /\ Course(p, "idle", NoJob)
  BY DEF Place, Course
<1>4. Plan(p, "idle", NoJob) /\ Change(p, "idle", NoJob)
  BY <1>2 DEF Plan, Change, Up, Down
<1>5. Root(p, "idle", NoJob, d)
  BY DEF Root, Rooted, Seen
<1>6. ~Live(p, "idle", NoJob, v)
  BY DEF Live, Up
<1>. QED BY <1>1, <1>3, <1>4, <1>5, <1>6 DEF Sound

(* A job begins.                                                            *)
Fresh(j, s, v) == /\ j \in JobType /\ j.steps = s /\ j.names = {} /\ j.own = {} /\ j.gone = {}
                  /\ j.base = v /\ j.at = v /\ ~j.spoilt

LEMMA UpgradeBegins ==
    ASSUME NEW p \in Admins, NEW v \in 0..3, NEW d, Truth(d, v), Rooted(d),
           NEW s, Proper(s, v), NEW j, Fresh(j, s, v), j.target = Head4
    PROVE  Sound(p, "look", j, d, v)
<1>1. p \notin Apps /\ v < Head4
  BY ProcAssumption DEF Head4
<1>2. /\ j \in JobType /\ j.steps = s /\ j.names = {} /\ j.own = {} /\ j.gone = {}
      /\ j.base = v /\ j.at = v /\ ~j.spoilt /\ v \in Int
  BY DEF Fresh
<1>3. s # <<>> /\ Head(s).kind = "inspect" /\ UpPlan(s, v + 1)
  BY DEF Proper, Inspect, Step
<1>4. Place("look", j) /\ Course(p, "look", j) /\ Plan(p, "look", j) /\ Change(p, "look", j)
  BY <1>1, <1>2, <1>3 DEF Place, Course, Plan, Change, Up, Down, Head4
<1>5. Root(p, "look", j, d)
  BY <1>1, <1>2 DEF Root, Rooted, Seen
<1>6. Looked(j, d)
  BY <1>2, <1>3 DEF Looked
<1>7. Behind(j, d)
  <2>1. Seen(j, d) = d
    BY <1>2 DEF Seen
  <2>2. \A o \in Made(v) : Settled(o, d)
    <3>1. CASE v = 0
      BY <3>1, MadeFacts
    <3>2. CASE v > 0
      BY <3>2 DEF Truth, Promised, Settled, In, Old, IxEndpoint
    <3>. QED BY <1>2, <3>1, <3>2
  <2>3. \A o \in Made(v + 1) : o \in Made(v) \/ o \in Parts(s)
    BY MadeFacts DEF Proper
  <2>4. \A o \in Parts(s) : \E step \in Items(s) : step.kind \in {"create", "add"} /\ o = <<step.table, step.part>>
    BY DEF Parts, Items
  <2>5. Create("stripe_events") \in Items(s) => v = 1
    BY DEF Proper
  <2>. QED BY <1>2, <2>1, <2>2, <2>3, <2>4, <2>5 DEF Behind
<1>. QED BY <1>4, <1>5, <1>6, <1>7 DEF Sound

LEMMA DowngradeBegins ==
    ASSUME NEW p \in Admins, NEW v \in 1..Head4, NEW d, Rooted(d), NEW target \in 0..Head4, target < v,
           NEW j, Fresh(j, Downgrades[v], v), j.target = target
    PROVE  Sound(p, "look", j, d, v)
<1>1. p \notin Apps
  BY ProcAssumption
<1>2. /\ j \in JobType /\ j.steps = Downgrades[v] /\ j.names = {} /\ j.own = {} /\ j.gone = {}
      /\ j.base = v /\ j.at = v /\ ~j.spoilt /\ v \in Int /\ target \in Int
  BY DEF Fresh
<1>3. \A step \in Items(Downgrades[v]) : DownStep(step, target)
  <2>1. v - 1 \in 0..Head4 /\ target <= v - 1
    BY DEF Head4
  <2>2. Made(target) \subseteq Made(v - 1)
    BY <2>1, MadeFacts
  <2>. QED BY <2>2, DowngradesFacts DEF DownStep
<1>4. Place("look", j) /\ Course(p, "look", j)
  BY <1>1, <1>2, DowngradesFacts DEF Place, Course
<1>5. Plan(p, "look", j) /\ Change(p, "look", j)
  BY <1>1, <1>2, <1>3 DEF Plan, Change, Up, Down, Spares
<1>6. Root(p, "look", j, d) /\ ~Live(p, "look", j, v)
  BY <1>1, <1>2 DEF Root, Rooted, Seen, Live, Up
<1>. QED BY <1>4, <1>5, <1>6 DEF Sound

LEMMA AppBegins ==
    ASSUME NEW p \in Apps, NEW v \in 0..Head4, NEW d, Rooted(d), NEW j, Fresh(j, CreateAll, v), j.target = v
    PROVE  Sound(p, "look", j, d, v)
<1>1. p \notin Admins
  BY ProcAssumption
<1>2. /\ j \in JobType /\ j.steps = CreateAll /\ j.names = {} /\ j.own = {} /\ j.gone = {}
      /\ j.base = v /\ j.at = v /\ ~j.spoilt /\ v \in Int
  BY DEF Fresh
<1>4. Place("look", j) /\ Course(p, "look", j)
  BY <1>1, <1>2, CreateAllFacts DEF Place, Course
<1>5. Plan(p, "look", j) /\ Change(p, "look", j)
  BY <1>1, <1>2, CreateAllFacts DEF Plan, Change, Up, Down
<1>6. Root(p, "look", j, d) /\ ~Live(p, "look", j, v)
  BY <1>1, <1>2, CreateAllFacts DEF Root, Rooted, Seen, Live, Up
<1>. QED BY <1>4, <1>5, <1>6 DEF Sound

-----------------------------------------------------------------------------
(* A job goes on after its first step, or after the last.                   *)
Same(j, k) == k.base = j.base /\ k.at = j.at /\ k.target = j.target

LEMMA Onward ==
    ASSUME NEW p \in Procs, NEW c \in {"look", "act"}, NEW j \in JobType, Place(c, j), Course(p, c, j), Plan(p, c, j),
           NEW k \in JobType, Same(j, k), k.steps = Tail(j.steps) \/ k.steps = <<>>,
           k.spoilt => k.steps # <<>>,
           NEW c1, c1 = After(k, k.steps)
    PROVE  /\ Place(c1, k) /\ Course(p, c1, k) /\ Plan(p, c1, k)
           /\ c1 \in {"look", "stamp", "commit"}
           /\ Up(p, c1, k) <=> Up(p, c, j)
           /\ Down(c1, k) <=> Down(c, j)
           /\ Items(k.steps) \subseteq Items(j.steps)
           /\ j.steps # <<>> /\ j.steps \in Seq(StepType)
           /\ Up(p, c, j) => j.at < Head4 /\ UpPlan(j.steps, j.at + 1)
<1>1. j.steps # <<>> /\ j.steps \in Seq(StepType)
  BY DEF Place, JobType
<1>2. Items(k.steps) \subseteq Items(j.steps)
  <2>1. CASE k.steps = Tail(j.steps)
    BY <1>1, <2>1, TailFacts
  <2>2. CASE k.steps = <<>>
    BY <2>2 DEF Items
  <2>. QED BY <2>1, <2>2
<1>3. Place(c1, k) /\ c1 \in {"look", "stamp", "commit"}
  BY DEF Place, After, Same
<1>4. /\ Up(p, c1, k) <=> Up(p, c, j)
      /\ Down(c1, k) <=> Down(c, j)
  BY <1>3 DEF Up, Down, Same
<1>5. Course(p, c1, k)
  BY <1>3 DEF Course, Same
<1>6. Up(p, c, j) => j.at < Head4 /\ UpPlan(j.steps, j.at + 1)
  BY <1>1 DEF Plan
<1>7. Up(p, c, j) => UpPlan(k.steps, j.at + 1)
  <2>1. CASE k.steps = Tail(j.steps)
    BY <1>1, <1>6, <2>1, PlanTail
  <2>2. CASE k.steps = <<>>
    BY <2>2 DEF UpPlan
  <2>. QED BY <2>1, <2>2
<1>8. Plan(p, c1, k)
  BY <1>2, <1>4, <1>6, <1>7 DEF Plan, Same
<1>. QED BY <1>1, <1>2, <1>3, <1>4, <1>5, <1>6, <1>8

(* Of an upgrade: what its next step is, and what is left after it.         *)
LEMMA UpHead ==
    ASSUME NEW s \in Seq(StepType), s # <<>>, NEW v, UpPlan(s, v)
    PROVE  LET h == Head(s) IN
           /\ h.kind \in {"inspect", "create", "add"}
           /\ h.kind = "create" => /\ h.table \notin Old /\ h.part = "table"
                                   /\ h \notin Items(Tail(s))
                                   /\ Tail(s) # <<>> => Head(Tail(s)).kind # "add"
           /\ h = Create("stripe_events") => /\ Tail(s) # <<>>
                                             /\ Items(s) = {h, Inspect, Add("stripe_events", "index")}
           /\ \A step \in Items(s) : step.kind = "add" =>
                step.part # "table" /\ (step.table \in Old \/ Table(step.table) \in Made(v))
           /\ h.kind = "add" /\ h.table \in Old => <<h.table, h.part>> \in Declared(h.table)
           /\ h.kind = "add" /\ h.table \notin Old => \A step \in Items(s) : step.kind = "add"
<1>. DEFINE h == Head(s)
<1>1. /\ h = s[1] /\ 1 \in DOMAIN s /\ Tail(s) \in Seq(StepType) /\ Len(s) \in Nat
      /\ \A i \in DOMAIN Tail(s) : i \in Nat /\ i + 1 \in DOMAIN s /\ Tail(s)[i] = s[i + 1]
      /\ Items(s) = {h} \union Items(Tail(s)) /\ Len(Tail(s)) = Len(s) - 1
      /\ DOMAIN s = 1..Len(s) /\ DOMAIN Tail(s) = 1..Len(Tail(s))
  BY TailFacts
<1>2. UpStep(s, 1, v)
  BY <1>1 DEF UpPlan
<1>3. h.kind = "create" => h \notin Items(Tail(s))
  <2>. SUFFICES ASSUME h.kind = "create", NEW i \in DOMAIN Tail(s) PROVE Tail(s)[i] # h
    BY DEF Items
  <2>1. i + 1 \in DOMAIN s /\ i + 1 > 1 /\ Tail(s)[i] = s[i + 1]
    BY <1>1
  <2>. QED BY <1>1, <1>2, <2>1 DEF UpStep
<1>4. h.kind = "create" /\ Tail(s) # <<>> => Head(Tail(s)).kind # "add"
  <2>1. Tail(s) # <<>> => 1 \in DOMAIN Tail(s) /\ Head(Tail(s)) = Tail(s)[1]
    BY <1>1, TailFacts
  <2>2. 1 \in DOMAIN Tail(s) => 1 + 1 \in DOMAIN s /\ Tail(s)[1] = s[1 + 1]
    BY <1>1
  <2>. QED BY <1>1, <1>2, <2>1, <2>2 DEF UpStep
<1>5. ASSUME h = Create("stripe_events")
      PROVE  Tail(s) # <<>> /\ Items(s) = {h, Inspect, Add("stripe_events", "index")}
  <2>1. 1 + 2 = Len(s) /\ s[1 + 1] = Inspect /\ s[1 + 2] = Add("stripe_events", "index")
    BY <1>1, <1>2, <1>5 DEF UpStep
  <2>n. \A n \in Nat : 1 + 2 = n => 1..n = {1, 2, 3} /\ n - 1 = 2
    OBVIOUS
  <2>2. DOMAIN s = {1, 2, 3} /\ Len(s) - 1 = 2
    BY <1>1, <2>1, <2>n
  <2>3. Items(s) = {s[1], s[2], s[3]}
    BY <2>2 DEF Items
  <2>4. Tail(s) # <<>>
    <3>1. Len(Tail(s)) = 2
      BY <1>1, <2>2
    <3>2. 1 \in DOMAIN Tail(s)
      BY <1>1, <3>1
    <3>3. \A r \in Seq(StepType) : 1 \in DOMAIN r => r # <<>>
      OBVIOUS
    <3>. QED BY <1>1, <3>2, <3>3
  <2>. QED BY <1>1, <2>1, <2>3, <2>4
<1>6. h.kind = "add" /\ h.table \notin Old => \A step \in Items(s) : step.kind = "add"
  <2>. SUFFICES ASSUME h.kind = "add", h.table \notin Old, NEW i \in DOMAIN s PROVE s[i].kind = "add"
    BY DEF Items
  <2>1. i = 1 \/ i > 1
    BY <1>1
  <2>. QED BY <1>1, <1>2, <2>1 DEF UpStep
<1>7. \A step \in Items(s) : step.kind = "add" =>
         step.part # "table" /\ (step.table \in Old \/ Table(step.table) \in Made(v))
  BY DEF Items, UpPlan, UpStep
<1>. QED BY <1>1, <1>2, <1>3, <1>4, <1>5, <1>6, <1>7 DEF UpStep

-----------------------------------------------------------------------------
(* One look.                                                                *)
LEMMA SettledGrows ==
    ASSUME NEW S, NEW S1, S \subseteq S1, \A t \in Old : Table(t) \in S1 => Table(t) \in S,
           NEW o, Settled(o, S)
    PROVE  Settled(o, S1)
  BY DEF Settled, In

LEMMA UpIsNoApp ==
    ASSUME NEW p \in Procs, NEW c, NEW j \in JobType, Up(p, c, j)
    PROVE  p \in Admins /\ p \notin Apps /\ ~Down(c, j)
<1>1. j.base \in Int /\ j.target \in Int
  BY DEF JobType
<1>. QED BY <1>1, ProcAssumption DEF Up, Down

LEMMA InspectSound ==
    ASSUME NEW p \in Procs, NEW j \in JobType, NEW d, NEW v, Sound(p, "look", j, d, v),
           ~j.spoilt, Head(j.steps).kind = "inspect",
           NEW k \in JobType, Same(j, k), k.steps = Tail(j.steps), k.own = j.own, k.gone = j.gone, ~k.spoilt,
           k.names = {t \in Names : Table(t) \in Seen(j, d) \ j.gone},
           NEW c1, c1 = After(k, k.steps)
    PROVE  Sound(p, c1, k, d, v)
<1>0. /\ Place("look", j) /\ Course(p, "look", j) /\ Plan(p, "look", j) /\ Change(p, "look", j) /\ Root(p, "look", j, d)
      /\ Live(p, "look", j, v) => Looked(j, d) /\ Behind(j, d)
  BY DEF Sound
<1>1. /\ Place(c1, k) /\ Course(p, c1, k) /\ Plan(p, c1, k)
      /\ c1 \in {"look", "stamp", "commit"}
      /\ Up(p, c1, k) <=> Up(p, "look", j)
      /\ Down(c1, k) <=> Down("look", j)
      /\ j.steps # <<>> /\ j.steps \in Seq(StepType)
      /\ Up(p, "look", j) => j.at < Head4 /\ UpPlan(j.steps, j.at + 1)
  BY <1>0, Onward
<1>2. Items(j.steps) = {Head(j.steps)} \union Items(k.steps)
  BY <1>1, TailFacts
<1>3. Change(p, c1, k)
  BY <1>0, <1>1 DEF Change, Same
<1>4. Root(p, c1, k, d)
  <2>1. \A t \in Old : Declare(t) \in Items(j.steps) => Declare(t) \in Items(k.steps)
    BY <1>2 DEF Declare, Step
  <2>. QED BY <1>0, <1>1, <2>1 DEF Root, Seen
<1>5. ASSUME Live(p, c1, k, v) PROVE Looked(k, d) /\ Behind(k, d)
  <2>1. Up(p, "look", j) /\ Looked(j, d) /\ Behind(j, d)
    BY <1>0, <1>1, <1>5 DEF Live, Same
  <2>2. j.gone = {} /\ p \in Admins
    BY <1>0, <2>1, UpIsNoApp DEF Change
  <2>3. Seen(k, d) = Seen(j, d) /\ k.at = j.at /\ j.at < Head4
    BY <1>1, <2>1 DEF Seen, Same
  <2>4. k.names = {t \in Names : Table(t) \in Seen(j, d)}
    BY <2>2
  <2>5. \A t \in Old \ k.names : Table(t) \notin d
    BY <2>4 DEF Old, Names, Tables, Seen
  <2>6. ASSUME \A step \in Items(k.steps) : step.kind = "add", NEW step \in Items(k.steps), step.table \notin Old
        PROVE  step.table \in k.names
    <3>1. step \in Items(j.steps) /\ step.kind = "add" /\ Table(step.table) \in Made(j.at + 1)
      BY <1>1, <1>2, <2>1, <2>6, UpHead
    <3>2. \A other \in Items(j.steps) : other.kind \in {"create", "add"} => other.kind = "add" /\ other.part # "table"
      BY <1>1, <1>2, <2>1, <2>6, UpHead
    <3>3. Settled(Table(step.table), Seen(j, d))
      BY <2>1, <2>3, <3>1, <3>2 DEF Behind, Table
    <3>4. Table(step.table) \in Seen(j, d)
      BY <2>6, <3>3 DEF Settled, In, Table, IxEndpoint
    <3>5. step \in StepType
      BY <1>1, <3>1 DEF Items
    <3>. QED BY <2>4, <3>4, <3>5 DEF StepType
  <2>7. Looked(k, d)
    BY <2>3, <2>4, <2>5, <2>6 DEF Looked
  <2>8. Behind(k, d)
    BY <1>2, <2>1, <2>3 DEF Behind
  <2>. QED BY <2>7, <2>8
<1>. QED BY <1>1, <1>3, <1>4, <1>5 DEF Sound

LEMMA WaitSound ==
    ASSUME NEW p \in Procs, NEW j \in JobType, NEW d, NEW v, Sound(p, "look", j, d, v),
           ~j.spoilt, Head(j.steps).kind # "inspect"
    PROVE  Sound(p, "act", j, d, v)
<1>1. Place("act", j) /\ Course(p, "act", j) /\ Plan(p, "act", j)
  BY DEF Sound, Place, Course, Plan, Up, Down
<1>2. Change(p, "act", j) /\ Root(p, "act", j, d)
  BY DEF Sound, Change, Root, Down
<1>3. Live(p, "act", j, v) => Looked(j, d) /\ Behind(j, d)
  BY DEF Sound, Live, Up
<1>. QED BY <1>1, <1>2, <1>3 DEF Sound

LEMMA SkipSound ==
    ASSUME NEW p \in Procs, NEW j \in JobType, NEW d, NEW v, Sound(p, "look", j, d, v), Truth(d, v),
           ~j.spoilt, NEW h, h = Head(j.steps), h.kind # "inspect",
           h.kind \in {"create", "declare"} => h.table \in j.names,
           h.kind = "add" => h.table \notin j.names \/ <<h.table, h.part>> \in Seen(j, d) \ j.gone,
           NEW k \in JobType, Same(j, k), k.steps = Skip(h, j.steps), k.own = j.own, k.gone = j.gone, ~k.spoilt,
           k.names = j.names,
           NEW c1, c1 = After(k, k.steps)
    PROVE  Sound(p, c1, k, d, v)
<1>0. /\ Place("look", j) /\ Course(p, "look", j) /\ Plan(p, "look", j) /\ Change(p, "look", j) /\ Root(p, "look", j, d)
      /\ Live(p, "look", j, v) => Looked(j, d) /\ Behind(j, d)
      /\ j.steps \in Seq(StepType) /\ j.steps # <<>> /\ h \in Items(j.steps)
  <2>1. j.steps \in Seq(StepType) /\ j.steps # <<>>
    BY DEF Sound, Place, JobType
  <2>. QED BY <2>1, TailFacts DEF Sound
<1>a. Up(p, "look", j) => /\ j.at < Head4 /\ UpPlan(j.steps, j.at + 1) /\ p \in Admins /\ p \notin Apps
                          /\ ~Down("look", j) /\ h.kind \in {"create", "add"}
  BY <1>0, UpIsNoApp, UpHead DEF Plan
<1>b. h = Create("stripe_events") => Up(p, "look", j)
  <2>1. p \in Apps => h.kind \in {"inspect", "declare"}
    BY <1>0 DEF Plan, AppStep, Declare, Inspect, Step
  <2>2. Down("look", j) => h.kind \in {"inspect", "drop", "remove"}
    BY <1>0 DEF Plan, DownStep
  <2>3. p \in Admins => Up(p, "look", j) \/ Down("look", j)
    BY <1>0 DEF Course, Up, Down, Head4, JobType
  <2>. QED BY <2>1, <2>2, <2>3 DEF Create, Step, Procs
<1>s. CASE h = Create("stripe_events")
  <2>1. UpPlan(j.steps, j.at + 1) /\ Items(j.steps) = {h, Inspect, Add("stripe_events", "index")}
    BY <1>0, <1>a, <1>b, <1>s, UpHead
  <2>2. k.steps = <<>>
    <3>1. Len(j.steps) = 3
      <4>1. 1 \in DOMAIN j.steps /\ h = j.steps[1] /\ Len(j.steps) \in Nat
        BY <1>0, TailFacts
      <4>2. 1 + 2 = Len(j.steps)
        BY <1>s, <2>1, <4>1 DEF UpPlan, UpStep
      <4>. QED BY <4>1, <4>2
    <3>2. k.steps = SubSeq(j.steps, 4, 3)
      BY <1>s, <3>1 DEF Skip
    <3>3. 4 \in Int /\ 3 \in Int /\ 3 < 4
      OBVIOUS
    <3>4. SubSeq(j.steps, 4, 3) = <<>>
      BY <3>3, SubSeqEmpty
    <3>. QED BY <3>2, <3>4
  <2>3. /\ Place(c1, k) /\ Course(p, c1, k) /\ Plan(p, c1, k)
        /\ c1 \in {"look", "stamp", "commit"}
        /\ Up(p, c1, k) <=> Up(p, "look", j)
        /\ Down(c1, k) <=> Down("look", j)
    BY <1>0, <2>2, Onward
  <2>4. Change(p, c1, k) /\ Root(p, c1, k, d)
    BY <1>0, <1>a, <1>b, <1>s, <2>3 DEF Change, Root, Seen, Same
  <2>5. ASSUME Live(p, c1, k, v) PROVE Looked(k, d) /\ Behind(k, d)
    <3>1. Looked(j, d) /\ Behind(j, d) /\ v = j.base
      BY <1>0, <1>b, <1>s, <2>5 DEF Live, Same
    <3>2. Items(k.steps) = {} /\ Seen(k, d) = Seen(j, d) /\ k.at = j.at
      BY <2>2 DEF Items, Seen, Same
    <3>3. j.at = 1 /\ v < 2
      <4>1. j.at = 1
        BY <1>0, <1>s, <3>1 DEF Behind
      <4>2. j.base <= j.at /\ j.base \in Int
        BY <1>0, <1>a, <1>b, <1>s DEF Course, Down, JobType
      <4>. QED BY <3>1, <4>1, <4>2
    <3>4. Table("stripe_events") \in d /\ Table("stripe_events") \notin j.own
      BY <1>0, <1>s, <3>1 DEF Looked, Behind, Seen, Create, Step
    <3>5. Index \in d
      BY <3>3, <3>4 DEF Truth
    <3>6. \A o \in Made(j.at + 1) : Settled(o, Seen(j, d))
      <4>1. Settled(Table("stripe_events"), Seen(j, d)) /\ Settled(Index, Seen(j, d))
        BY <3>4, <3>5 DEF Settled, In, Table, Index, Old, Seen
      <4>. QED BY <1>s, <2>1, <3>1, <3>3, <4>1 DEF Behind, Create, Add, Inspect, Step, Table, Index, Head4
    <3>7. Behind(k, d)
      BY <3>1, <3>2, <3>3, <3>6 DEF Behind
    <3>8. Looked(k, d)
      BY <1>0, <1>s, <3>1, <3>2 DEF Looked, Create, Step
    <3>. QED BY <3>7, <3>8
  <2>. QED BY <2>3, <2>4, <2>5 DEF Sound
<1>n. CASE h # Create("stripe_events")
  <2>2. k.steps = Tail(j.steps)
    BY <1>n DEF Skip
  <2>3. /\ Place(c1, k) /\ Course(p, c1, k) /\ Plan(p, c1, k)
        /\ c1 \in {"look", "stamp", "commit"}
        /\ Up(p, c1, k) <=> Up(p, "look", j)
        /\ Down(c1, k) <=> Down("look", j)
        /\ Items(k.steps) \subseteq Items(j.steps)
    BY <1>0, <2>2, Onward
  <2>4. Items(j.steps) = {h} \union Items(k.steps)
    BY <1>0, <2>2, TailFacts
  <2>5. Change(p, c1, k)
    BY <1>0, <2>3 DEF Change, Same
  <2>6. Root(p, c1, k, d)
    <3>1. \A t \in Old : Declare(t) \in Items(j.steps) => Declare(t) \in Items(k.steps) \/ t \in j.names
      BY <2>4 DEF Declare, Step
    <3>. QED BY <1>0, <2>3, <3>1 DEF Root, Seen
  <2>7. ASSUME Live(p, c1, k, v) PROVE Looked(k, d) /\ Behind(k, d)
    <3>1. Up(p, "look", j) /\ Looked(j, d) /\ Behind(j, d)
      BY <1>0, <2>3, <2>7 DEF Live, Same
    <3>2. /\ j.gone = {} /\ j.own \intersect OldTables = {} /\ h.kind \in {"create", "add"}
          /\ UpPlan(j.steps, j.at + 1) /\ j.at < Head4
      BY <1>0, <1>a, <3>1 DEF Change
    <3>3. Seen(k, d) = Seen(j, d) /\ k.at = j.at
      BY DEF Seen, Same
    <3>4. ASSUME h.kind = "create" PROVE Settled(<<h.table, h.part>>, Seen(j, d))
      BY <1>0, <3>1, <3>2, <3>4, UpHead DEF Looked, Settled, In, Table
    <3>5. ASSUME h.kind = "add" PROVE Settled(<<h.table, h.part>>, Seen(j, d))
      <4>1. CASE <<h.table, h.part>> \in Seen(j, d)
        BY <4>1 DEF Settled, In
      <4>2. CASE h.table \in Old \ j.names
        <5>1. <<h.table, h.part>> \in Declared(h.table)
          BY <1>0, <3>2, <3>5, <4>2, UpHead
        <5>2. Table(h.table) \in d => <<h.table, h.part>> \in d
          BY <3>1, <1>0, <4>2, <5>1 DEF Looked
        <5>3. Table(h.table) \notin j.own
          BY <3>2, <4>2 DEF Old, OldTables, Table
        <5>. QED BY <4>2, <5>2, <5>3 DEF Settled, Seen, Table
      <4>3. CASE h.table \notin Old /\ h.table \notin j.names
        <5>1. \A step \in Items(j.steps) : step.kind = "add"
          BY <1>0, <3>2, <3>5, <4>3, UpHead
        <5>. QED BY <1>0, <3>1, <4>3, <5>1 DEF Looked
      <4>. QED BY <3>5, <4>1, <4>2, <4>3
    <3>6. Behind(k, d)
      BY <2>4, <3>1, <3>2, <3>3, <3>4, <3>5 DEF Behind
    <3>7. (\A step \in Items(k.steps) : step.kind = "add") =>
             \A step \in Items(k.steps) : step.table \in Old \union j.names
      <4>1. CASE h.kind = "add"
        BY <1>0, <2>4, <3>1, <4>1 DEF Looked
      <4>2. CASE h.kind = "create"
        <5>0. k.steps # <<>> => Head(k.steps).kind # "add"
          BY <1>0, <2>2, <3>2, <4>2, UpHead
        <5>t. k.steps # <<>> => Head(k.steps) \in Items(k.steps)
          <6>1. k.steps \in Seq(StepType)
            BY <1>0, <2>2, TailFacts
          <6>. QED BY <6>1, TailFacts
        <5>1. k.steps # <<>> => Head(k.steps).kind # "add" /\ Head(k.steps) \in Items(k.steps)
          BY <5>0, <5>t
        <5>2. k.steps = <<>> => Items(k.steps) = {}
          BY DEF Items
        <5>. QED BY <5>1, <5>2
      <4>. QED BY <3>2, <4>1, <4>2
    <3>8. Looked(k, d)
      BY <1>0, <3>1, <3>3, <3>7 DEF Looked
    <3>. QED BY <3>6, <3>8
  <2>. QED BY <2>3, <2>5, <2>6, <2>7 DEF Sound
<1>. QED BY <1>s, <1>n

-----------------------------------------------------------------------------
(* One statement.                                                           *)
LEMMA ActUp ==
    ASSUME NEW p \in Procs, NEW j \in JobType, NEW d, NEW v, Sound(p, "act", j, d, v), Up(p, "act", j),
           NEW h, h = Head(j.steps), NEW o, o = <<h.table, h.part>>,
           h.kind = "create" => \A t \in Parents(h.table) : Table(t) \in Seen(j, d) \ j.gone,
           NEW k \in JobType, Same(j, k), k.steps = Tail(j.steps), ~k.spoilt, k.names = j.names,
           k.own = j.own \union {o}, k.gone = j.gone \ {o},
           NEW c1, c1 = After(k, k.steps)
    PROVE  Sound(p, c1, k, d, v)
<1>0. /\ Place("act", j) /\ Course(p, "act", j) /\ Plan(p, "act", j) /\ Change(p, "act", j) /\ Root(p, "act", j, d)
      /\ Live(p, "act", j, v) => Looked(j, d) /\ Behind(j, d)
  BY DEF Sound
<1>1. /\ Place(c1, k) /\ Course(p, c1, k) /\ Plan(p, c1, k)
      /\ c1 \in {"look", "stamp", "commit"}
      /\ Up(p, c1, k) /\ (Down(c1, k) <=> Down("act", j))
      /\ j.steps # <<>> /\ j.steps \in Seq(StepType)
      /\ j.at < Head4 /\ UpPlan(j.steps, j.at + 1)
  BY <1>0, Onward
<1>2. /\ Items(j.steps) = {h} \union Items(k.steps) /\ h \in StepType
      /\ k.steps \in Seq(StepType) /\ h.kind \in {"create", "add"}
  <2>1. Items(j.steps) = {h} \union Items(k.steps) /\ h \in StepType /\ k.steps \in Seq(StepType)
    BY <1>1, TailFacts
  <2>2. h.kind \in {"inspect", "create", "add"}
    BY <1>1, UpHead
  <2>. QED BY <1>0, <2>1, <2>2 DEF Place
<1>3. p \in Admins /\ p \notin Apps /\ ~Down("act", j) /\ j.gone = {} /\ j.own \intersect OldTables = {}
  BY <1>0, UpIsNoApp DEF Change
<1>4. o \notin OldTables /\ (o[2] = "table" => h.kind = "create")
  <2>1. h.kind = "create" => h.table \notin Old
    BY <1>1, UpHead
  <2>2. h.kind = "add" => h.part # "table"
    BY <1>1, <1>2, UpHead
  <2>. QED BY <1>2, <2>1, <2>2 DEF OldTables, Old
<1>5. Change(p, c1, k)
  BY <1>1, <1>3, <1>4 DEF Change
<1>6. Root(p, c1, k, d)
  <2>1. Table("notification_preferences") = o => Table("users") \in Seen(j, d)
    BY <1>4 DEF Table, Parents
  <2>. QED BY <1>0, <1>3, <2>1 DEF Root, Seen
<1>7. ASSUME Live(p, c1, k, v) PROVE Looked(k, d) /\ Behind(k, d)
  <2>1. Looked(j, d) /\ Behind(j, d)
    BY <1>0, <1>7 DEF Live, Same, Place
  <2>2. Seen(k, d) = Seen(j, d) \union {o} /\ k.at = j.at
    BY DEF Seen, Same
  <2>3. \A x : Settled(x, Seen(j, d)) => Settled(x, Seen(k, d))
    <3>1. \A t \in Old : Table(t) # o
      BY <1>4 DEF Old, OldTables, Table
    <3>. QED BY <2>2, <3>1, SettledGrows
  <2>4. Settled(o, Seen(k, d))
    BY <2>2 DEF Settled, In
  <2>5. Create("stripe_events") \in Items(k.steps) => k.at = 1
    BY <1>2, <2>1, <2>2 DEF Behind
  <2>6. k.at = 0 \/ Create("stripe_events") \in Items(k.steps) => Table("stripe_events") \notin k.own
    <3>1. Table("stripe_events") = o => h = Create("stripe_events")
      BY <1>2, <1>4 DEF Table, Create, Step, StepType
    <3>2. h.kind = "create" => h \notin Items(k.steps)
      BY <1>1, UpHead
    <3>3. h = Create("stripe_events") => j.at = 1 /\ Create("stripe_events") \notin Items(k.steps)
      BY <1>2, <2>1, <3>2 DEF Behind, Create, Step
    <3>4. k.at = 0 \/ Create("stripe_events") \in Items(k.steps) => Table("stripe_events") \notin j.own
      BY <1>2, <2>1, <2>2 DEF Behind
    <3>. QED BY <2>2, <3>1, <3>3, <3>4
  <2>7. Behind(k, d)
    <3>1. \A x \in Made(k.at) : Settled(x, Seen(k, d))
      BY <2>1, <2>2, <2>3 DEF Behind
    <3>2. ASSUME k.at < Head4, NEW x \in Made(k.at + 1)
          PROVE  \/ Settled(x, Seen(k, d))
                 \/ \E step \in Items(k.steps) : step.kind \in {"create", "add"} /\ x = <<step.table, step.part>>
      <4>1. \/ Settled(x, Seen(j, d))
            \/ \E step \in Items(j.steps) : step.kind \in {"create", "add"} /\ x = <<step.table, step.part>>
        BY <2>1, <2>2, <3>2 DEF Behind
      <4>. QED BY <1>2, <2>3, <2>4, <4>1
    <3>. QED BY <2>5, <2>6, <3>1, <3>2 DEF Behind
  <2>8. (\A step \in Items(k.steps) : step.kind = "add") =>
           \A step \in Items(k.steps) : step.table \in Old \union j.names
    <3>1. CASE h.kind = "add"
      BY <1>0, <1>2, <2>1, <3>1 DEF Looked, Place
    <3>2. CASE h.kind = "create"
      <4>1. k.steps # <<>> => Head(k.steps).kind # "add"
        BY <1>1, <3>2, UpHead
      <4>2. k.steps # <<>> => Head(k.steps) \in Items(k.steps)
        BY <1>2, TailFacts
      <4>3. k.steps = <<>> => Items(k.steps) = {}
        BY NoItems
      <4>. QED BY <4>1, <4>2, <4>3
    <3>. QED BY <1>2, <3>1, <3>2
  <2>9. Looked(k, d)
    BY <1>0, <2>1, <2>2, <2>8 DEF Looked, Place
  <2>. QED BY <2>7, <2>9
<1>. QED BY <1>1, <1>5, <1>6, <1>7 DEF Sound

LEMMA ActSpoilt ==
    ASSUME NEW p \in Procs, NEW j \in JobType, NEW d, NEW v, Sound(p, "act", j, d, v), Up(p, "act", j),
           Head(j.steps) = Create("stripe_events"),
           NEW k \in JobType, Same(j, k), k.steps = Tail(j.steps), k.spoilt = TRUE, k.names = j.names,
           k.own = j.own, k.gone = j.gone,
           NEW c1, c1 = After(k, k.steps)
    PROVE  Sound(p, c1, k, d, v)
<1>0. /\ Place("act", j) /\ Course(p, "act", j) /\ Plan(p, "act", j) /\ Change(p, "act", j) /\ Root(p, "act", j, d)
  BY DEF Sound
<1>s. j.steps # <<>> /\ j.steps \in Seq(StepType) /\ UpPlan(j.steps, j.at + 1)
  BY <1>0 DEF Place, Plan, JobType
<1>h. Head(j.steps) \in StepType
  BY <1>s, TailFacts
<1>1. k.steps # <<>>
  <2>. DEFINE h == Head(j.steps)
  <2>1. h = Create("stripe_events") => Tail(j.steps) # <<>>
    BY <1>s, UpHead
  <2>. QED BY <2>1
<1>2. /\ Place(c1, k) /\ Course(p, c1, k) /\ Plan(p, c1, k)
      /\ c1 \in {"look", "stamp", "commit"}
      /\ (Down(c1, k) <=> Down("act", j))
  <2>1. k.spoilt => k.steps # <<>>
    BY <1>1
  <2>2. k.steps = Tail(j.steps) \/ k.steps = <<>>
    OBVIOUS
  <2>3. "act" \in {"look", "act"} /\ Same(j, k) /\ c1 = After(k, k.steps) /\ Place("act", j) /\ Course(p, "act", j) /\ Plan(p, "act", j)
    BY <1>0
  <2>. QED BY <2>1, <2>2, <2>3, Onward
<1>3. Change(p, c1, k) /\ ~Live(p, c1, k, v)
  BY <1>0, <1>2 DEF Change, Live, Same
<1>4. Root(p, c1, k, d)
  BY <1>0, UpIsNoApp DEF Root, Seen
<1>. QED BY <1>2, <1>3, <1>4 DEF Sound

LEMMA ActApp ==
    ASSUME NEW p \in Apps, NEW j \in JobType, NEW d, NEW v, Sound(p, "act", j, d, v),
           NEW h, h = Head(j.steps),
           \A t \in Parents(h.table) : Table(t) \in Seen(j, d) \ j.gone,
           NEW k \in JobType, Same(j, k), k.steps = Tail(j.steps), ~k.spoilt, k.names = j.names,
           k.own = j.own \union Declared(h.table), k.gone = j.gone \ Declared(h.table),
           NEW c1, c1 = After(k, k.steps)
    PROVE  Sound(p, c1, k, d, v)
<1>0. /\ Place("act", j) /\ Course(p, "act", j) /\ Plan(p, "act", j) /\ Change(p, "act", j) /\ Root(p, "act", j, d)
      /\ p \in Procs /\ p \notin Admins
  BY ProcAssumption DEF Sound, Procs
<1>1. /\ Place(c1, k) /\ Course(p, c1, k) /\ Plan(p, c1, k)
      /\ c1 \in {"look", "stamp", "commit"}
      /\ (Down(c1, k) <=> Down("act", j))
      /\ j.steps # <<>> /\ j.steps \in Seq(StepType)
  BY <1>0, Onward
<1>2. Items(j.steps) = {h} \union Items(k.steps)
  BY <1>1, TailFacts
<1>3. PICK t \in Tables : h = Declare(t)
  BY <1>0, <1>2 DEF Plan, AppStep, Place, Inspect, Step
<1>4. h.table = t /\ Table(t) \in Declared(t) /\ \A x \in Declared(t) : x[1] = t
  BY <1>3 DEF Declare, Step, Declared, Table, UsersParts, PrefsParts, PushParts
<1>5. j.gone = {} /\ k.gone = {}
  <2>1. ~Down("act", j)
    <3>1. j.base \in Int /\ j.target \in Int /\ j.base = j.target
      BY <1>0 DEF Course, JobType
    <3>. QED BY <3>1 DEF Down
  <2>. QED BY <1>0, <2>1 DEF Change
<1>6. Change(p, c1, k)
  <2>1. \A u \in Tables : Table(u) \in Declared(t) => u = t
    BY <1>4 DEF Table
  <2>2. \A u \in Tables : Table(u) \in j.own => Declared(u) \subseteq j.own
    BY <1>0 DEF Change
  <2>3. \A u \in Tables : Table(u) \in k.own => Declared(u) \subseteq k.own
    BY <1>4, <2>1, <2>2
  <2>4. ~Down(c1, k)
    <3>1. k.base \in Int /\ k.target \in Int /\ k.base = k.target
      BY <1>1 DEF Course, JobType
    <3>. QED BY <3>1 DEF Down
  <2>. QED BY <1>0, <1>5, <2>3, <2>4 DEF Change
<1>7. Root(p, c1, k, d)
  <2>1. Seen(k, d) = Seen(j, d) \union Declared(t)
    BY <1>4 DEF Seen
  <2>2. Table("notification_preferences") \in Declared(t) => Table("users") \in Seen(j, d)
    <3>1. Table("notification_preferences") \in Declared(t) => t = "notification_preferences"
      BY <1>4 DEF Table
    <3>2. t = "notification_preferences" => "users" \in Parents(t)
      BY DEF Parents
    <3>. QED BY <1>4, <3>1, <3>2
  <2>3. \A u \in Old : Declare(u) \in Items(j.steps) => Declare(u) \in Items(k.steps) \/ Table(u) \in Declared(t)
    BY <1>2, <1>3, <1>4 DEF Declare, Step
  <2>. QED BY <1>0, <1>1, <2>1, <2>2, <2>3 DEF Root
<1>8. ~Live(p, c1, k, v)
  BY <1>0 DEF Live, Up
<1>. QED BY <1>1, <1>6, <1>7, <1>8 DEF Sound

LEMMA ActDown ==
    ASSUME NEW p \in Admins, NEW j \in JobType, NEW d, NEW v, Sound(p, "act", j, d, v), Down("act", j),
           NEW h, h = Head(j.steps), NEW lost,
           \/ h.kind = "drop" /\ lost = {<<h.table, h.part>>} \intersect d
           \/ /\ h.kind = "remove" /\ lost = ({h.table} \X PartNames) \intersect d
              /\ Table(h.table) \in Seen(j, d) \ j.gone,
           NEW k \in JobType, Same(j, k), k.steps = Tail(j.steps), ~k.spoilt, k.names = j.names,
           k.own \subseteq j.own, k.gone = j.gone \union lost,
           NEW c1, c1 = After(k, k.steps)
    PROVE  Sound(p, c1, k, d, v)
<1>0. /\ Place("act", j) /\ Course(p, "act", j) /\ Plan(p, "act", j) /\ Change(p, "act", j) /\ Root(p, "act", j, d)
      /\ p \in Procs /\ p \notin Apps
  BY ProcAssumption DEF Sound, Procs
<1>1. /\ Place(c1, k) /\ Course(p, c1, k) /\ Plan(p, c1, k)
      /\ c1 \in {"look", "stamp", "commit"}
      /\ Down(c1, k)
      /\ j.steps # <<>> /\ j.steps \in Seq(StepType)
  BY <1>0, Onward
<1>2. DownStep(h, j.target) /\ h \in StepType
  <2>1. h \in Items(j.steps) /\ h \in StepType
    BY <1>1, TailFacts
  <2>. QED BY <1>0, <2>1 DEF Plan
<1>3. j.own = {} /\ k.own = {} /\ Spares(j.target, j.gone) /\ (Index \in j.gone => Table("stripe_events") \in j.gone)
  BY <1>0 DEF Change
<1>4. ASSUME h.kind = "drop" /\ lost = {<<h.table, h.part>>} \intersect d
      PROVE  Spares(j.target, k.gone) /\ (Index \in k.gone => Table("stripe_events") \in k.gone)
  <2>1. <<h.table, h.part>> \notin Made(j.target) /\ <<h.table, h.part>> \notin {UqEndpoint, Index} /\ h.part # "table"
    BY <1>2, <1>4 DEF DownStep
  <2>2. <<h.table, h.part>> \notin OldTables
    BY <2>1 DEF OldTables
  <2>3. Spares(j.target, k.gone) /\ (Index \in k.gone => Table("stripe_events") \in k.gone)
    BY <1>3, <1>4, <2>1, <2>2 DEF Spares
  <2>. QED BY <1>3, <2>3
<1>5. ASSUME /\ h.kind = "remove" /\ lost = ({h.table} \X PartNames) \intersect d
             /\ Table(h.table) \in Seen(j, d) \ j.gone
      PROVE  Spares(j.target, k.gone) /\ (Index \in k.gone => Table("stripe_events") \in k.gone)
  <2>1. h.table \notin Old /\ \A part \in PartNames : <<h.table, part>> \notin Made(j.target)
    BY <1>2, <1>5 DEF DownStep
  <2>2. \A x \in lost : x[1] = h.table /\ x \notin Made(j.target) /\ x \notin OldTables
    BY <1>5, <2>1 DEF Old, OldTables
  <2>3. UqEndpoint \in lost => IxEndpoint \notin Made(j.target)
    <3>1. UqEndpoint \in lost => h.table = "web_push_subscriptions"
      BY <2>2 DEF UqEndpoint
    <3>. QED BY <2>1, <3>1 DEF IxEndpoint, PartNames
  <2>4. Index \in lost => Table("stripe_events") \in lost
    <3>1. Index \in lost => h.table = "stripe_events"
      BY <2>2 DEF Index
    <3>2. Table(h.table) \in lost
      BY <1>3, <1>5 DEF Seen, Table, PartNames
    <3>. QED BY <3>1, <3>2
  <2>5. Spares(j.target, k.gone) /\ (Index \in k.gone => Table("stripe_events") \in k.gone)
    BY <1>3, <2>2, <2>3, <2>4 DEF Spares
  <2>. QED BY <1>3, <2>5
<1>6. Change(p, c1, k)
  <2>1. Spares(j.target, k.gone) /\ (Index \in k.gone => Table("stripe_events") \in k.gone)
    BY <1>4, <1>5
  <2>2. k.target = j.target
    BY DEF Same
  <2>. QED BY <1>0, <1>1, <1>3, <2>1, <2>2 DEF Change
<1>7. Root(p, c1, k, d) /\ ~Live(p, c1, k, v)
  <2>1. Seen(k, d) = Seen(j, d)
    BY <1>3 DEF Seen
  <2>2. ~Live(p, c1, k, v)
    BY <1>0, <1>1, UpIsNoApp DEF Live
  <2>. QED BY <1>0, <2>1, <2>2 DEF Root
<1>. QED BY <1>1, <1>6, <1>7 DEF Sound

-----------------------------------------------------------------------------
(* One stamp.                                                               *)
LEMMA StampSound ==
    ASSUME NEW p \in Procs, NEW j \in JobType, NEW d, NEW v, Sound(p, "stamp", j, d, v),
           NEW to, to = IF j.at < j.target THEN j.at + 1 ELSE j.at - 1,
           NEW k \in JobType, k.base = j.base, k.at = to, k.target = j.target, k.names = j.names,
           k.own = j.own, k.gone = j.gone, k.spoilt = j.spoilt,
           k.steps = IF to = j.target THEN <<>> ELSE Migration(to, j.target),
           NEW c1, c1 = After(k, k.steps)
    PROVE  Sound(p, c1, k, d, v) /\ (Down(c1, k) <=> Down("stamp", j))
<1>0. /\ Place("stamp", j) /\ Course(p, "stamp", j) /\ Plan(p, "stamp", j) /\ Change(p, "stamp", j) /\ Root(p, "stamp", j, d)
      /\ Live(p, "stamp", j, v) => Looked(j, d) /\ Behind(j, d)
  BY DEF Sound
<1>1. /\ j.base \in 0..4 /\ j.at \in 0..4 /\ j.target \in 0..4
      /\ j.steps = <<>> /\ j.at # j.target /\ j.spoilt # TRUE /\ Items(j.steps) = {}
  BY <1>0, NoItems DEF Place, JobType, Head4
<1>2. p \in Admins /\ p \notin Apps
  BY <1>0, <1>1 DEF Course, Procs
<1>3. Up(p, "stamp", j) \/ Down("stamp", j)
  BY <1>0, <1>1, <1>2 DEF Course, Up, Down, Head4
<1>4. Root(p, c1, k, d)
  BY <1>0, <1>2 DEF Root, Seen
<1>5. CASE Up(p, "stamp", j)
  <2>1. j.target = 4 /\ j.at \in 0..3 /\ to = j.at + 1 /\ j.base <= j.at /\ j.base < 4 /\ ~Down("stamp", j) /\ to \in 1..4
    <3>1. ~Down("stamp", j)
      BY <1>5, UpIsNoApp
    <3>2. j.target = 4 /\ j.base <= j.at /\ j.base < 4
      BY <1>0, <1>1, <1>2, <3>1 DEF Course, Down, Head4
    <3>. QED BY <1>1, <3>1, <3>2
  <2>2. to # 4 => k.steps = Upgrades[to + 1] /\ to \in 1..3
    BY <2>1 DEF Migration
  <2>3. to = 4 => k.steps = <<>>
    BY <2>1
  <2>4. to # 4 => Proper(k.steps, to)
    BY <2>2, UpgradesFacts
  <2>5. c1 \in {"look", "commit"} /\ Place(c1, k) /\ (c1 = "look" <=> to # 4)
    BY <1>1, <2>1, <2>3, <2>4 DEF Place, After, Proper, Inspect, Step
  <2>6. Course(p, c1, k) /\ Up(p, c1, k) /\ ~Down(c1, k)
    BY <1>1, <1>2, <2>1, <2>5 DEF Course, Up, Down, Head4
  <2>7. Plan(p, c1, k)
    <3>1. to # 4 => UpPlan(k.steps, to + 1)
      BY <2>4 DEF Proper
    <3>. QED BY <1>2, <2>1, <2>3, <2>6, <3>1 DEF Plan, Head4
  <2>8. Change(p, c1, k)
    BY <1>0, <1>2, <2>1, <2>6 DEF Change
  <2>9. ASSUME Live(p, c1, k, v) PROVE Looked(k, d) /\ Behind(k, d)
    <3>1. Looked(j, d) /\ Behind(j, d)
      BY <1>0, <1>1, <1>5, <2>9 DEF Live
    <3>2. Seen(k, d) = Seen(j, d)
      BY DEF Seen
    <3>3. Looked(k, d)
      <4>1. to # 4 => k.steps # <<>> /\ Head(k.steps).kind = "inspect"
        BY <2>4 DEF Proper, Inspect, Step
      <4>2. \A t \in k.names : Table(t) \in Seen(k, d)
        BY <3>1, <3>2 DEF Looked
      <4>3. CASE to = 4
        BY <1>1, <2>3, <3>1, <3>2, <4>2, <4>3 DEF Looked
      <4>4. CASE to # 4
        BY <4>1, <4>2, <4>4 DEF Looked
      <4>. QED BY <4>3, <4>4
    <3>4. \A o \in Made(to) : Settled(o, Seen(k, d))
      BY <1>1, <2>1, <3>1, <3>2 DEF Behind, Head4
    <3>5. ASSUME to # 4, NEW o \in Made(to + 1)
          PROVE  \/ Settled(o, Seen(k, d))
                 \/ \E step \in Items(k.steps) : step.kind \in {"create", "add"} /\ o = <<step.table, step.part>>
      <4>1. o \in Made(to) \/ o \in Parts(k.steps)
        <5>1. to \in 0..3
          BY <2>2, <3>5
        <5>2. Made(to + 1) = Made(to) \union Parts(Upgrades[to + 1])
          BY <5>1, MadeFacts
        <5>. QED BY <2>4, <3>5, <5>2 DEF Proper
      <4>2. o \in Parts(k.steps) => \E step \in Items(k.steps) : step.kind \in {"create", "add"} /\ o = <<step.table, step.part>>
        BY DEF Parts, Items
      <4>. QED BY <3>4, <4>1, <4>2
    <3>6. Create("stripe_events") \in Items(k.steps) => to = 1
      <4>1. to = 4 => Items(k.steps) = {}
        BY <2>3, NoItems
      <4>. QED BY <2>4, <4>1 DEF Proper
    <3>7. k.at = 0 \/ Create("stripe_events") \in Items(k.steps) => Table("stripe_events") \notin k.own
      BY <2>1, <3>1, <3>6 DEF Behind
    <3>. QED BY <3>3, <3>4, <3>5, <3>6, <3>7 DEF Behind, Head4
  <2>. QED BY <1>4, <2>1, <2>5, <2>6, <2>7, <2>8, <2>9 DEF Sound
<1>6. CASE Down("stamp", j)
  <2>1. j.target <= j.at /\ j.at <= j.base /\ j.target < j.base /\ to = j.at - 1 /\ to \in 0..3 /\ j.target <= to
    <3>1. j.target < j.base
      BY <1>6 DEF Down
    <3>2. j.target <= j.at /\ j.at <= j.base
      BY <1>0, <1>1, <1>2, <3>1 DEF Course, Head4
    <3>. QED BY <1>1, <3>1, <3>2
  <2>2. to # j.target => to \in 1..Head4 /\ k.steps = Downgrades[to] /\ j.target <= to - 1 /\ to - 1 \in 0..Head4
    BY <1>1, <2>1 DEF Migration, Head4
  <2>3. to # j.target => k.steps # <<>> /\ \A step \in Items(k.steps) : DownStep(step, j.target)
    <3>. SUFFICES ASSUME to # j.target PROVE k.steps # <<>> /\ \A step \in Items(k.steps) : DownStep(step, j.target)
      OBVIOUS
    <3>1. Made(j.target) \subseteq Made(to - 1)
      BY <1>1, <2>2, MadeFacts DEF Head4
    <3>2. k.steps # <<>> /\ \A step \in Items(k.steps) : DownStep(step, to - 1)
      BY <2>2, DowngradesFacts
    <3>. QED BY <3>1, <3>2 DEF DownStep
  <2>4. to = j.target => k.steps = <<>>
    OBVIOUS
  <2>5. c1 \in {"look", "commit"} /\ (c1 = "look" <=> to # j.target) /\ (c1 = "look" <=> k.steps # <<>>)
    BY <2>3, <2>4 DEF After
  <2>6. Place(c1, k)
    BY <1>1, <2>5 DEF Place
  <2>7. Course(p, c1, k) /\ Down(c1, k)
    BY <1>1, <1>2, <2>1, <2>5 DEF Course, Down
  <2>8. ~Up(p, c1, k)
    BY <2>7, UpIsNoApp
  <2>9. Plan(p, c1, k)
    BY <1>2, <2>3, <2>4, <2>8, NoItems DEF Plan
  <2>10. Change(p, c1, k)
    BY <1>0, <1>2, <1>6, <2>7 DEF Change
  <2>. QED BY <1>4, <1>6, <2>6, <2>7, <2>8, <2>9, <2>10 DEF Sound, Live
<1>. QED BY <1>3, <1>5, <1>6

-----------------------------------------------------------------------------
(* One commit.                                                              *)
LEMMA DeclaredMade ==
    /\ \A v \in 0..Head4 : \A o \in Made(v) : o[1] \in Old => o \in Declared(o[1])
    /\ Index \in Declared("stripe_events")
    /\ \A v \in 0..Head4 : OldTables \intersect Made(v) = {}
<1>1. \A o \in Made(4) : o[1] \in Old => o \in Declared(o[1])
  BY MadeAre DEF Parts1, Parts2, Parts3, Parts4, Old, Table, Index, IxEndpoint, Declared, UsersParts
<1>2. \A v \in 0..Head4 : Made(v) \subseteq Made(4)
  BY MadeFacts DEF Head4
<1>3. Index \in Declared("stripe_events")
  BY DEF Index, Declared
<1>4. OldTables \intersect Made(4) = {}
  BY MadeAre DEF Parts1, Parts2, Parts3, Parts4, OldTables, Table, Index, IxEndpoint
<1>. QED BY <1>1, <1>2, <1>3, <1>4

LEMMA CommitApp ==
    ASSUME NEW p \in Apps, NEW j \in JobType, NEW d, NEW v, Sound(p, "commit", j, d, v), Truth(d, v),
           NEW d1, d1 = Seen(j, d) \ j.gone
    PROVE  /\ Roots(d1) /\ Truth(d1, v) /\ d \subseteq d1
           /\ \A t \in Tables : Table(t) \in d1 => Table(t) \in d \/ Declared(t) \subseteq d1
<1>1. j.gone = {} /\ \A t \in Tables : Table(t) \in j.own => Declared(t) \subseteq j.own
  <2>1. j.base = j.target /\ j.base \in Int
    BY DEF Sound, Course, JobType
  <2>. QED BY <2>1 DEF Sound, Change, Down
<1>2. d1 = d \union j.own
  BY <1>1 DEF Seen
<1>3. \A t \in Tables : Table(t) \in d1 => Table(t) \in d \/ Declared(t) \subseteq d1
  BY <1>1, <1>2
<1>4. Roots(d1)
  <2>1. Items(j.steps) = {}
    BY NoItems DEF Sound, Place
  <2>2. \A t \in Old : Table(t) \in d1
    BY <1>2, <2>1 DEF Sound, Root, Seen
  <2>. QED BY <2>2 DEF Roots, Rooted, Old
<1>5. Truth(d1, v)
  <2>1. v > 0 => Promised(v, d1)
    BY <1>2 DEF Truth, Promised, In
  <2>2. v < 2 /\ Table("stripe_events") \in d1 => Index \in d1
    BY <1>2, <1>3, DeclaredMade DEF Truth, Tables
  <2>. QED BY <2>1, <2>2 DEF Truth
<1>. QED BY <1>2, <1>3, <1>4, <1>5

LEMMA CommitUp ==
    ASSUME NEW p \in Procs, NEW j \in JobType, NEW d, NEW v, v = j.base, Sound(p, "commit", j, d, v), Up(p, "commit", j),
           Roots(d), NEW d1, d1 = Seen(j, d) \ j.gone
    PROVE  Roots(d1) /\ Truth(d1, j.at) /\ j.at = Head4 /\ \A o \in OldTables : o \in d => o \in d1
<1>1. p \in Admins /\ p \notin Apps /\ ~Down("commit", j) /\ j.gone = {} /\ j.own \intersect OldTables = {} /\ d1 = d \union j.own
  <2>1. p \in Admins /\ p \notin Apps /\ ~Down("commit", j)
    BY UpIsNoApp
  <2>. QED BY <2>1 DEF Sound, Change, Seen
<1>2. j.at = Head4 /\ j.spoilt # TRUE
  <2>1. j.at = j.target /\ j.spoilt # TRUE
    BY DEF Sound, Place
  <2>2. j.target = Head4
    BY <1>1 DEF Sound, Course, Down
  <2>. QED BY <2>1, <2>2
<1>3. \A o \in Made(4) : Settled(o, d1)
  <2>1. Behind(j, d)
    BY <1>2 DEF Sound, Live
  <2>. QED BY <1>1, <1>2, <2>1 DEF Behind, Seen, Head4
<1>4. OldTables \subseteq d1
  <2>1. Table("notification_preferences") \in Made(4)
    BY MadeAre DEF Parts3
  <2>2. Table("notification_preferences") \in d1
    BY <1>3, <2>1 DEF Settled, In, Table, IxEndpoint, Old
  <2>3. Table("users") \in d1
    BY <1>1, <2>2 DEF Sound, Root, Seen
  <2>4. Table("users") \in d
    BY <1>1, <2>3 DEF OldTables, Table
  <2>. QED BY <1>1, <2>4 DEF Roots, OldTables, Table
<1>5. Promised(4, d1)
  <2>. SUFFICES ASSUME NEW o \in Made(4) PROVE In(o, d1)
    BY <1>4 DEF Promised
  <2>1. o[1] \in Old => Table(o[1]) \in d1
    BY <1>4 DEF Old, OldTables, Table
  <2>. QED BY <1>3, <2>1 DEF Settled, In
<1>6. Roots(d1)
  BY <1>4 DEF Roots, Rooted, OldTables, Table
<1>. QED BY <1>1, <1>2, <1>5, <1>6 DEF Truth, Head4

LEMMA CommitDown ==
    ASSUME NEW p \in Admins, NEW j \in JobType, NEW d, NEW v, v = j.base, Sound(p, "commit", j, d, v), Down("commit", j),
           Roots(d), Truth(d, v), NEW d1, d1 = Seen(j, d) \ j.gone
    PROVE  Roots(d1) /\ Truth(d1, j.at) /\ \A o \in OldTables : o \in d => o \in d1
<1>1. d1 = d \ j.gone /\ Spares(j.target, j.gone) /\ (Index \in j.gone => Table("stripe_events") \in j.gone)
  BY DEF Sound, Change, Seen
<1>2. j.at = j.target /\ j.target \in 0..Head4 /\ j.base \in 0..Head4 /\ j.target < j.base
  BY DEF Sound, Place, Down, JobType
<1>3. \A o \in OldTables : o \in d1 <=> o \in d
  BY <1>1 DEF Spares
<1>4. Roots(d1)
  BY <1>1, <1>3 DEF Roots, Rooted, OldTables, Table
<1>5. Promised(j.base, d)
  BY <1>2 DEF Truth, Head4
<1>6. Promised(j.target, d1)
  <2>1. OldTables \subseteq d1
    BY <1>3, <1>5 DEF Promised
  <2>. SUFFICES ASSUME NEW o \in Made(j.target) PROVE In(o, d1)
    BY <2>1 DEF Promised
  <2>2. In(o, d)
    <3>1. Made(j.target) \subseteq Made(j.base)
      BY <1>2, MadeFacts DEF Head4
    <3>. QED BY <1>5, <3>1 DEF Promised
  <2>3. o \notin j.gone /\ (o = IxEndpoint => UqEndpoint \notin j.gone)
    BY <1>1 DEF Spares
  <2>. QED BY <1>1, <2>2, <2>3 DEF In
<1>7. Table("stripe_events") \in d1 => Index \in d1
  <2>1. Index \in d \/ Table("stripe_events") \notin d
    <3>1. CASE j.base < 2
      BY <3>1 DEF Truth
    <3>2. CASE ~(j.base < 2)
      <4>1. 2 \in 0..Head4 /\ 2 <= j.base
        BY <1>2, <3>2 DEF Head4
      <4>2. Index \in Made(j.base)
        BY <1>2, <4>1, MadeFacts, MadeAre DEF Parts2
      <4>. QED BY <1>5, <4>2 DEF Promised, In, Index, IxEndpoint
    <3>. QED BY <3>1, <3>2
  <2>. QED BY <1>1, <2>1
<1>. QED BY <1>2, <1>3, <1>4, <1>6, <1>7 DEF Truth

(* The others.                                                              *)
LEMMA OtherSound ==
    ASSUME NEW p \in Procs, NEW c, NEW j \in JobType, NEW d, NEW v, Sound(p, c, j, d, v), NEW d1, NEW v1,
           Roots(d1), \A o \in OldTables : o \in d => o \in d1,
           \/ ~Live(p, c, j, v1)
           \/ /\ v1 = v /\ d \subseteq d1
              /\ \A t \in Tables : Table(t) \in d1 => Table(t) \in d \/ Declared(t) \subseteq d1
    PROVE  Sound(p, c, j, d1, v1)
<1>1. Place(c, j) /\ Course(p, c, j) /\ Plan(p, c, j) /\ Change(p, c, j) /\ Root(p, c, j, d)
  BY DEF Sound
<1>2. \A t \in Old : Table(t) \in Seen(j, d) => Table(t) \in Seen(j, d1)
  BY DEF Old, OldTables, Table, Seen
<1>3. Root(p, c, j, d1)
  <2>1. Table("notification_preferences") \in Seen(j, d1) => Table("users") \in Seen(j, d1)
    <3>1. CASE Table("notification_preferences") \in d1
      BY <3>1 DEF Roots, Rooted, Seen
    <3>2. CASE Table("notification_preferences") \in j.own
      BY <1>1, <1>2, <3>2 DEF Root, Seen, Old
    <3>. QED BY <3>1, <3>2 DEF Seen
  <2>. QED BY <1>1, <1>2, <2>1 DEF Root
<1>4. CASE ~Live(p, c, j, v1)
  BY <1>1, <1>3, <1>4 DEF Sound
<1>5. CASE /\ v1 = v /\ d \subseteq d1 /\ Live(p, c, j, v1)
           /\ \A t \in Tables : Table(t) \in d1 => Table(t) \in d \/ Declared(t) \subseteq d1
  <2>1. Looked(j, d) /\ Behind(j, d)
    BY <1>5 DEF Sound
  <2>2. Seen(j, d) \subseteq Seen(j, d1)
    BY <1>5 DEF Seen
  <2>3. \A t \in Old : t \in Tables
    BY DEF Old, Tables
  <2>4. Looked(j, d1)
    <3>1. \A t \in Old : (Table(t) \in d => Declared(t) \subseteq d) => (Table(t) \in d1 => Declared(t) \subseteq d1)
      BY <1>5, <2>3
    <3>. QED BY <2>1, <2>2, <3>1 DEF Looked
  <2>5. \A w \in 0..Head4 : \A o \in Made(w) : Settled(o, Seen(j, d)) => Settled(o, Seen(j, d1))
    <3>. SUFFICES ASSUME NEW w \in 0..Head4, NEW o \in Made(w), Settled(o, Seen(j, d)) PROVE Settled(o, Seen(j, d1))
      OBVIOUS
    <3>1. CASE o[1] \notin Old
      BY <2>2, <3>1 DEF Settled, In
    <3>2. CASE o[1] \in Old
      <4>1. o \in Declared(o[1])
        BY <3>2, DeclaredMade
      <4>2. Table(o[1]) \in Seen(j, d1) => Table(o[1]) \in Seen(j, d) \/ o \in Seen(j, d1)
        BY <1>5, <2>3, <3>2, <4>1 DEF Seen
      <4>. QED BY <2>2, <3>2, <4>2 DEF Settled
    <3>. QED BY <3>1, <3>2
  <2>6. j.at \in 0..Head4 /\ (j.at < Head4 => j.at + 1 \in 0..Head4)
    BY DEF JobType, Head4
  <2>7. Behind(j, d1)
    BY <2>1, <2>5, <2>6 DEF Behind
  <2>. QED BY <1>1, <1>3, <2>4, <2>7 DEF Sound
<1>. QED BY <1>4, <1>5

-----------------------------------------------------------------------------
(* The steps of the system.                                                 *)
Places == {"idle", "look", "act", "stamp", "commit"}
Rest   == /\ ahead \in [Procs -> SUBSET Procs]
          /\ lone \subseteq Procs /\ outcome \in [Procs -> {"none", "done", "failed"}]
          /\ upsets \in 0..MaxUpsets

LEMMA ObjectsAre == Objects = Names \X PartNames
  BY DEF Objects, Names, PartNames

LEMMA TypedFrom ==
    ASSUME db \subseteq Objects, version \in 0..Head4, pc \in [Procs -> Places], job \in [Procs -> JobType], Rest
    PROVE  Typed
<1>1. \A p \in Procs : /\ job[p].names \subseteq Tables \union {"alembic_version"}
                       /\ job[p].own \subseteq Objects /\ job[p].gone \subseteq Objects
                       /\ job[p].base \in 0..Head4 /\ job[p].at \in 0..Head4 /\ job[p].target \in 0..Head4
                       /\ job[p].spoilt \in BOOLEAN
  BY DEF JobType, Names
<1>. QED BY <1>1 DEF Typed, TypeOk, Rest, Places

LEMMA RestTyped ==
    ASSUME TypeOk, NEW p \in Procs, Run(p) \/ ((Start(p) \/ Kill(p)) /\ Queue(p))
    PROVE  Rest'
<1>1. ahead' \in [Procs -> SUBSET Procs]
  BY DEF TypeOk, Run, Queue
<1>2. upsets' \in 0..MaxUpsets
  <2>1. upsets \in 0..MaxUpsets /\ MaxUpsets \in Nat
    BY BoundAssumption DEF TypeOk
  <2>2. upsets' = upsets \/ (upsets < MaxUpsets /\ upsets' = upsets + 1)
    BY DEF Run, Look, Act, Stamp, Commit, Victim, Start, StartUpgrade, StartDowngrade, StartApp, Kill
  <2>. QED BY <2>1, <2>2
<1>3. \/ lone' = lone /\ outcome' = outcome
      \/ \E how \in {"none", "done", "failed"} : (lone' = lone \/ lone' \subseteq Procs) /\ outcome' = [outcome EXCEPT ![p] = how]
  <2>1. CASE Run(p)
    BY <2>1 DEF Run, Look, Act, Stamp, Commit, Victim, Fails, Ends, Continues, history
  <2>2. CASE Start(p) \/ Kill(p)
    <3>1. \A steps, target : Begins(p, steps, target) =>
             lone' \subseteq Procs /\ outcome' = [outcome EXCEPT ![p] = "none"]
      BY DEF Begins
    <3>2. CASE Start(p)
      BY <3>1, <3>2 DEF Start, StartUpgrade, StartDowngrade, StartApp
    <3>3. CASE Kill(p)
      BY <3>3 DEF Kill, Ends
    <3>. QED BY <2>2, <3>2, <3>3
  <2>. QED BY <2>1, <2>2
<1>. QED BY <1>1, <1>2, <1>3 DEF Rest, TypeOk

(* One process moves, and the database stays.                               *)
Moves(p, c, k) == pc' = [pc EXCEPT ![p] = c] /\ job' = [job EXCEPT ![p] = k] /\ UNCHANGED <<db, version>>

LEMMA LocalStep ==
    ASSUME SchemaInv, Rest', NEW p \in Procs, NEW c \in Places, NEW k \in JobType, Moves(p, c, k),
           Sound(p, c, k, db, version),
           p \in Admins => \A q \in Admins \ {p} : /\ Down(c, k) => pc[q] = "idle"
                                                   /\ Down(pc[q], job[q]) => c = "idle",
           k.at # k.base => version = k.base /\ \A q \in Procs \ {p} : job[q].at = job[q].base
    PROVE  SchemaInv'
<1>0. /\ TypeOk /\ job \in [Procs -> JobType] /\ pc \in [Procs -> Places]
      /\ db \subseteq Objects /\ version \in 0..Head4
      /\ \A q \in Procs : Sound(q, pc[q], job[q], db, version)
  BY DEF SchemaInv, Typed, TypeOk, Places
<1>1. /\ pc'[p] = c /\ job'[p] = k /\ db' = db /\ version' = version
      /\ \A q \in Procs \ {p} : pc'[q] = pc[q] /\ job'[q] = job[q]
      /\ pc' \in [Procs -> Places] /\ job' \in [Procs -> JobType]
  BY <1>0 DEF Moves
<1>2. Typed'
  <2>1. db' \subseteq Objects /\ version' \in 0..Head4
    BY <1>0, <1>1
  <2>. QED BY <1>1, <2>1, TypedFrom DEF Typed, TypeOk, Rest, JobType, Places, Names
<1>3. Exclusive'
  <2>. SUFFICES ASSUME NEW a \in Admins, NEW b \in Admins, a # b, Down(pc'[a], job'[a]) PROVE pc'[b] = "idle"
    BY DEF Exclusive
  <2>0. a \in Procs /\ b \in Procs /\ (Down(pc[a], job[a]) => pc[b] = "idle")
    BY DEF SchemaInv, Exclusive, Procs
  <2>1. CASE a = p
    BY <1>1, <2>0, <2>1
  <2>2. CASE b = p
    BY <1>1, <2>0, <2>2
  <2>3. CASE a # p /\ b # p
    BY <1>1, <2>0, <2>3
  <2>. QED BY <2>1, <2>2, <2>3
<1>4. Stamped'
  <2>. SUFFICES ASSUME NEW a \in Procs, job'[a].at # job'[a].base
                PROVE  version' = job'[a].base /\ \A q \in Procs : q # a => job'[q].at = job'[q].base
    BY DEF Stamped
  <2>1. CASE a = p
    BY <1>1, <2>1
  <2>2. CASE a # p
    <3>1. version = job[a].base /\ \A q \in Procs : q # a => job[q].at = job[q].base
      BY <1>1, <2>2 DEF SchemaInv, Stamped
    <3>2. k.at = k.base
      BY <1>1, <2>2
    <3>. QED BY <1>1, <2>2, <3>1, <3>2
  <2>. QED BY <2>1, <2>2
<1>5. Roots(db') /\ Truth(db', version')
  BY <1>1 DEF SchemaInv
<1>6. \A q \in Procs : Sound(q, pc'[q], job'[q], db', version')
  BY <1>0, <1>1
<1>. QED BY <1>2, <1>3, <1>4, <1>5, <1>6 DEF SchemaInv

LEMMA EndStep ==
    ASSUME SchemaInv, Rest', NEW p \in Procs, NEW how, Ends(p, how), UNCHANGED <<db, version>>
    PROVE  SchemaInv'
<1>1. NoJob \in JobType /\ Sound(p, "idle", NoJob, db, version)
  BY IdleSound DEF SchemaInv, Roots
<1>2. Moves(p, "idle", NoJob)
  BY DEF Ends, Moves
<1>3. ~Down("idle", NoJob) /\ NoJob.at = NoJob.base /\ "idle" \in Places
  BY DEF Down, NoJob, Places
<1>. QED BY <1>1, <1>2, <1>3, LocalStep

(* A job goes on.                                                           *)
LEMMA GoesOn ==
    ASSUME SchemaInv, Rest', NEW p \in Procs, pc[p] # "idle", NEW c \in Places, NEW k \in JobType, Moves(p, c, k),
           Sound(p, c, k, db, version), Down(c, k) <=> Down(pc[p], job[p]),
           \/ k.at = job[p].at /\ k.base = job[p].base
           \/ version = k.base /\ \A q \in Procs \ {p} : job[q].at = job[q].base
    PROVE  SchemaInv'
<1>1. p \in Admins => \A q \in Admins \ {p} : /\ Down(c, k) => pc[q] = "idle"
                                              /\ Down(pc[q], job[q]) => c = "idle"
  BY DEF SchemaInv, Exclusive
<1>2. k.at # k.base => version = k.base /\ \A q \in Procs \ {p} : job[q].at = job[q].base
  BY DEF SchemaInv, Stamped
<1>. QED BY <1>1, <1>2, LocalStep

LEMMA AfterPlace ==
    ASSUME NEW j, NEW steps
    PROVE  After(j, steps) \in Places \ {"idle"}
  BY DEF After, Places

LEMMA StartStep ==
    ASSUME SchemaInv, Rest', NEW p \in Procs, Start(p)
    PROVE  SchemaInv'
<1>0. /\ version \in 0..Head4 /\ Truth(db, version) /\ Rooted(db) /\ Exclusive
      /\ pc \in [Procs -> Places]
  BY DEF SchemaInv, Typed, TypeOk, Roots, Places
<1>. DEFINE New(steps, target) == [NoJob EXCEPT !.steps = steps, !.base = version, !.at = version, !.target = target]
<1>1. ASSUME NEW steps \in Seq(StepType), NEW target \in 0..Head4
      PROVE  Fresh(New(steps, target), steps, version) /\ New(steps, target).target = target
  BY <1>0, <1>1 DEF Fresh, NoJob, JobType
<1>2. ASSUME NEW steps \in Seq(StepType), NEW target \in 0..Head4, steps # <<>>, Begins(p, steps, target),
             Sound(p, "look", New(steps, target), db, version),
             p \in Admins => \A q \in Admins \ {p} : /\ Down("look", New(steps, target)) => pc[q] = "idle"
                                                     /\ ~Down(pc[q], job[q])
      PROVE  SchemaInv'
  <2>. DEFINE k == New(steps, target)
  <2>1. Moves(p, "look", k)
    BY <1>2 DEF Begins, Moves, After
  <2>2. k \in JobType /\ k.at = k.base
    <3>. HIDE DEF New
    <3>1. Fresh(New(steps, target), steps, version)
      BY <1>1, <1>2
    <3>. QED BY <3>1 DEF Fresh
  <2>3. "look" \in Places
    BY DEF Places
  <2>. HIDE DEF k
  <2>. QED BY <1>2, <2>1, <2>2, <2>3, LocalStep DEF k
<1>3. CASE StartUpgrade(p)
  <2>. DEFINE s == (IF version = 0 THEN VersionTable ELSE <<>>) \o Migration(version, Head4)
  <2>1. p \in Admins /\ version \in 0..3 /\ Begins(p, s, Head4) /\ \A q \in Admins : ~Downgrading(q)
    BY <1>0, <1>3 DEF StartUpgrade, Head4
  <2>2. Migration(version, Head4) = Upgrades[version + 1] /\ Proper(Upgrades[version + 1], version)
    BY <2>1, UpgradesFacts DEF Migration, Head4
  <2>3. Proper(s, version)
    <3>1. CASE version = 0
      BY <2>2, <3>1, UpgradesFacts DEF Upgrades
    <3>2. CASE version # 0
      <4>1. \A r \in Seq(StepType) : <<>> \o r = r
        OBVIOUS
      <4>. QED BY <2>2, <3>2, <4>1 DEF Proper
    <3>. QED BY <3>1, <3>2
  <2>. HIDE DEF s, New
  <2>4. s \in Seq(StepType) /\ s # <<>> /\ Head4 \in 0..Head4
    BY <2>3 DEF Proper, Head4
  <2>5. Sound(p, "look", New(s, Head4), db, version)
    BY <1>0, <1>1, <2>1, <2>3, <2>4, UpgradeBegins
  <2>6. ~Down("look", New(s, Head4))
    BY <1>1, <2>1, <2>4 DEF Down, Fresh, Head4
  <2>7. \A q \in Admins : ~Down(pc[q], job[q])
    BY <2>1 DEF Downgrading, Down
  <2>. QED BY <1>2, <2>1, <2>4, <2>5, <2>6, <2>7
<1>4. CASE StartApp(p)
  <2>1. p \in Apps /\ p \notin Admins /\ Begins(p, CreateAll, version)
    BY <1>4, ProcAssumption DEF StartApp
  <2>. HIDE DEF New
  <2>2. Sound(p, "look", New(CreateAll, version), db, version)
    BY <1>0, <1>1, <2>1, CreateAllFacts, AppBegins
  <2>. QED BY <1>0, <1>2, <2>1, <2>2, CreateAllFacts
<1>5. ASSUME NEW target \in 0..Head4, StartDowngrade(p, target)
      PROVE  SchemaInv'
  <2>1. /\ p \in Admins /\ target < version /\ version \in 1..Head4
        /\ Begins(p, Migration(version, target), target) /\ \A q \in Admins : pc[q] = "idle"
    BY <1>0, <1>5 DEF StartDowngrade, Head4
  <2>2. Migration(version, target) = Downgrades[version]
    BY <2>1 DEF Migration, Head4
  <2>. HIDE DEF New
  <2>3. Downgrades[version] \in Seq(StepType) /\ Downgrades[version] # <<>>
    BY <2>1, DowngradesFacts
  <2>4. Sound(p, "look", New(Downgrades[version], target), db, version)
    BY <1>0, <1>1, <2>1, <2>3, DowngradeBegins
  <2>5. \A q \in Admins : ~Down(pc[q], job[q])
    BY <2>1 DEF Down
  <2>. QED BY <1>2, <2>1, <2>2, <2>3, <2>4, <2>5
<1>. QED BY <1>3, <1>4, <1>5 DEF Start

LEMMA LookStep ==
    ASSUME SchemaInv, Rest', NEW p \in Procs, Look(p)
    PROVE  SchemaInv'
<1>. DEFINE j == job[p]
            h == Current(p)
<1>0. /\ pc[p] = "look" /\ j \in JobType /\ Sound(p, "look", j, db, version) /\ Truth(db, version)
  BY DEF SchemaInv, Typed, Look
<1>1. /\ j.steps # <<>> /\ j.steps \in Seq(StepType) /\ h = Head(j.steps) /\ h \in StepType /\ Tail(j.steps) \in Seq(StepType)
      /\ j.names \subseteq Names /\ j.own \subseteq Objects /\ j.gone \subseteq Objects /\ j.spoilt \in BOOLEAN /\ j.at \in 0..Head4
  <2>1. j.steps # <<>> /\ j.steps \in Seq(StepType)
    BY <1>0 DEF Sound, Place, JobType
  <2>. QED BY <1>0, <2>1, TailFacts DEF Current, JobType
<1>2. Visible(p) = Seen(j, db) \ j.gone
  BY DEF Visible, Seen
<1>3. CASE j.spoilt
  <2>1. Fails(p)
    BY <1>3 DEF Look
  <2>. QED BY <2>1, EndStep DEF Fails
<1>4. CASE ~j.spoilt /\ h.kind = "inspect"
  <2>. DEFINE names == {t \in Names : Table(t) \in Seen(j, db) \ j.gone}
              k     == [j EXCEPT !.names = names, !.steps = Tail(j.steps)]
              c     == After(k, k.steps)
  <2>1. Continues(p, [j EXCEPT !.names = names], Tail(j.steps)) /\ UNCHANGED <<db, version>>
    <3>1. names = {t \in Tables \union {"alembic_version"} : Has(p, t)}
      BY <1>2 DEF Has, Names, Table
    <3>. HIDE DEF names
    <3>. QED BY <1>4, <3>1 DEF Look
  <2>2. k \in JobType
    <3>1. names \in SUBSET Names
      OBVIOUS
    <3>. HIDE DEF names
    <3>. QED BY <1>0, <1>1, <3>1 DEF JobType
  <2>3. /\ Same(j, k) /\ k.steps = Tail(j.steps) /\ k.own = j.own /\ k.gone = j.gone /\ k.spoilt = j.spoilt /\ k.names = names
    BY <1>0 DEF Same, JobType
  <2>4. Moves(p, c, k)
    BY <1>0, <2>1 DEF Continues, Moves, After, JobType
  <2>. HIDE DEF k
  <2>5. Sound(p, c, k, db, version)
    BY <1>0, <1>1, <1>4, <2>2, <2>3, InspectSound
  <2>6. c \in Places \ {"idle"}
    BY AfterPlace
  <2>. HIDE DEF c
  <2>7. Down(c, k) <=> Down("look", j)
    BY <2>3, <2>6 DEF Down, Same
  <2>. QED BY <1>0, <2>2, <2>3, <2>4, <2>5, <2>6, <2>7, GoesOn DEF Same
<1>5. CASE ~j.spoilt /\ h.kind # "inspect" /\ Wanted(p, h)
  <2>1. pc' = [pc EXCEPT ![p] = "act"] /\ UNCHANGED <<db, version, job>>
    BY <1>5 DEF Look
  <2>2. Moves(p, "act", j)
    BY <2>1 DEF Moves, SchemaInv, Typed
  <2>3. Sound(p, "act", j, db, version)
    BY <1>0, <1>1, <1>5, WaitSound
  <2>4. (Down("act", j) <=> Down("look", j)) /\ "act" \in Places
    BY DEF Down, Places
  <2>. QED BY <1>0, <2>2, <2>3, <2>4, GoesOn
<1>6. CASE ~j.spoilt /\ h.kind # "inspect" /\ ~Wanted(p, h)
  <2>. DEFINE k == [j EXCEPT !.steps = Skip(h, j.steps)]
              c == After(k, k.steps)
  <2>1. Continues(p, j, Skip(h, j.steps)) /\ UNCHANGED <<db, version>>
    BY <1>6 DEF Look
  <2>2. Skip(h, j.steps) \in Seq(StepType)
    BY <1>1 DEF Skip
  <2>3. k \in JobType
    BY <1>0, <2>2 DEF JobType
  <2>4. /\ Same(j, k) /\ k.steps = Skip(h, j.steps) /\ k.own = j.own /\ k.gone = j.gone /\ k.spoilt = j.spoilt /\ k.names = j.names
    BY <1>0 DEF Same, JobType
  <2>5. Moves(p, c, k)
    BY <1>0, <2>1 DEF Continues, Moves, After, JobType
  <2>. HIDE DEF k
  <2>6. /\ h.kind \in {"create", "declare"} => h.table \in j.names
        /\ h.kind = "add" => h.table \notin j.names \/ <<h.table, h.part>> \in Seen(j, db) \ j.gone
    BY <1>1, <1>2, <1>6 DEF Wanted
  <2>7. Sound(p, c, k, db, version)
    BY <1>0, <1>1, <1>6, <2>3, <2>4, <2>6, SkipSound
  <2>8. c \in Places \ {"idle"}
    BY AfterPlace
  <2>. HIDE DEF c
  <2>9. Down(c, k) <=> Down("look", j)
    BY <2>4, <2>8 DEF Down, Same
  <2>. QED BY <1>0, <2>3, <2>4, <2>5, <2>7, <2>8, <2>9, GoesOn DEF Same
<1>. QED BY <1>1, <1>3, <1>4, <1>5, <1>6

(* What Act leaves of a transaction.                                        *)
Rewritten(j, own, gone) == [j EXCEPT !.own = own, !.gone = gone, !.steps = Tail(j.steps)]

LEMMA ActedStep ==
    ASSUME SchemaInv, Rest', NEW p \in Procs, pc[p] = "act", NEW k \in JobType, Same(job[p], k),
           UNCHANGED <<db, version>>, job' = [job EXCEPT ![p] = k], pc' = [pc EXCEPT ![p] = After(k, k.steps)],
           Sound(p, After(k, k.steps), k, db, version)
    PROVE  SchemaInv'
<1>. DEFINE c == After(k, k.steps)
<1>1. c \in Places \ {"idle"}
  BY AfterPlace
<1>2. Moves(p, c, k)
  BY DEF Moves
<1>. HIDE DEF c
<1>3. Down(c, k) <=> Down("act", job[p])
  BY <1>1 DEF Down, Same
<1>4. Sound(p, c, k, db, version)
  BY DEF c
<1>. QED BY <1>1, <1>2, <1>3, <1>4, GoesOn DEF Same

LEMMA ActStep ==
    ASSUME SchemaInv, Rest', NEW p \in Procs, Act(p)
    PROVE  SchemaInv'
<1>. DEFINE j == job[p]
            h == Current(p)
            o == <<h.table, h.part>>
<1>0. /\ pc[p] = "act" /\ j \in JobType /\ Sound(p, "act", j, db, version) /\ db \subseteq Objects
  BY DEF SchemaInv, Typed, TypeOk, Act
<1>1. /\ j.steps # <<>> /\ j.steps \in Seq(StepType) /\ h = Head(j.steps) /\ h \in StepType /\ h \in Items(j.steps)
      /\ Tail(j.steps) \in Seq(StepType) /\ j.spoilt = FALSE /\ h.kind # "inspect"
      /\ j.names \subseteq Names /\ j.own \subseteq Objects /\ j.gone \subseteq Objects
  <2>1. j.steps # <<>> /\ j.steps \in Seq(StepType) /\ j.spoilt = FALSE /\ Head(j.steps).kind # "inspect"
    BY <1>0 DEF Sound, Place, JobType
  <2>. QED BY <1>0, <2>1, TailFacts DEF Current, JobType
<1>2. Visible(p) = Seen(j, db) \ j.gone
  BY DEF Visible, Seen
<1>o. o \in Objects
  BY <1>1, ObjectsAre DEF StepType
<1>3. CASE Fails(p)
  BY <1>3, EndStep DEF Fails
<1>u. h.kind \in {"create", "add"} => Up(p, "act", j) /\ p \in Admins
  <2>1. p \in Apps => h.kind \in {"inspect", "declare"}
    BY <1>0, <1>1 DEF Sound, Plan, AppStep, Declare, Inspect, Step
  <2>2. Down("act", j) => h.kind \in {"inspect", "drop", "remove"}
    BY <1>0, <1>1 DEF Sound, Plan, DownStep
  <2>3. p \in Admins => Up(p, "act", j) \/ Down("act", j)
    BY <1>0 DEF Sound, Course, Up, Down, Head4, JobType
  <2>. QED BY <2>1, <2>2, <2>3 DEF Procs
<1>d. h.kind \in {"drop", "remove"} => Down("act", j) /\ p \in Admins
  <2>1. p \in Apps => h.kind \in {"inspect", "declare"}
    BY <1>0, <1>1 DEF Sound, Plan, AppStep, Declare, Inspect, Step
  <2>2. Up(p, "act", j) => h.kind \in {"inspect", "create", "add"}
    BY <1>0, <1>1, UpHead DEF Sound, Plan
  <2>3. p \in Admins => Up(p, "act", j) \/ Down("act", j)
    BY <1>0 DEF Sound, Course, Up, Down, Head4, JobType
  <2>. QED BY <2>1, <2>2, <2>3 DEF Procs
<1>a. h.kind = "declare" => p \in Apps
  <2>1. Up(p, "act", j) => h.kind \in {"inspect", "create", "add"}
    BY <1>0, <1>1, UpHead DEF Sound, Plan
  <2>2. Down("act", j) => h.kind \in {"inspect", "drop", "remove"}
    BY <1>0, <1>1 DEF Sound, Plan, DownStep
  <2>3. p \in Admins => Up(p, "act", j) \/ Down("act", j)
    BY <1>0 DEF Sound, Course, Up, Down, Head4, JobType
  <2>. QED BY <2>1, <2>2, <2>3 DEF Procs
<1>4. CASE /\ Duplicate(p, h) /\ h = Create("stripe_events")
           /\ Continues(p, [j EXCEPT !.spoilt = TRUE], Tail(j.steps))
           /\ UNCHANGED <<db, version, history>>
  <2>. DEFINE k == [j EXCEPT !.spoilt = TRUE, !.steps = Tail(j.steps)]
  <2>1. k \in JobType
    BY <1>0, <1>1 DEF JobType
  <2>2. /\ Same(j, k) /\ k.steps = Tail(j.steps) /\ k.own = j.own /\ k.gone = j.gone /\ k.spoilt = TRUE /\ k.names = j.names
    BY <1>0 DEF Same, JobType
  <2>3. job' = [job EXCEPT ![p] = k] /\ pc' = [pc EXCEPT ![p] = After(k, k.steps)] /\ UNCHANGED <<db, version>>
    BY <1>0, <1>4 DEF Continues, After, JobType
  <2>4. Up(p, "act", j)
    BY <1>4, <1>u DEF Create, Step
  <2>. HIDE DEF k
  <2>5. Sound(p, After(k, k.steps), k, db, version)
    BY <1>0, <1>1, <1>4, <2>1, <2>2, <2>4, ActSpoilt
  <2>. QED BY <1>0, <2>1, <2>2, <2>3, <2>5, ActedStep
<1>5. CASE /\ ~Duplicate(p, h) /\ ~Dangling(p, h)
           /\ Continues(p, Done(j, h), Tail(j.steps))
           /\ UNCHANGED <<db, version, history>>
  <2>1. CASE h.kind \in {"create", "add"}
    <3>. DEFINE own == j.own \union {o}
                gone == j.gone \ {o}
    <3>1. own \in SUBSET Objects /\ gone \in SUBSET Objects
      BY <1>1, <1>o
    <3>2. Done(j, h) = [j EXCEPT !.own = own, !.gone = gone]
      BY <2>1 DEF Done
    <3>3. h.kind = "create" => \A t \in Parents(h.table) : Table(t) \in Seen(j, db) \ j.gone
      <4>1. h.kind = "create" => \A t \in Parents(h.table) : Has(p, t)
        BY <1>5 DEF Dangling
      <4>2. \A t : Has(p, t) => Table(t) \in Visible(p)
        BY DEF Has, Table
      <4>. QED BY <1>2, <4>1, <4>2
    <3>. HIDE DEF o
    <3>k. PICK k : k = Rewritten(j, own, gone)
      OBVIOUS
    <3>f. /\ k \in JobType /\ Same(j, k) /\ k.steps = Tail(j.steps) /\ k.spoilt = FALSE /\ k.names = j.names
          /\ k.own = own /\ k.gone = gone
      <4>1. j \in JobType /\ Tail(j.steps) \in Seq(StepType) /\ j.spoilt = FALSE
        BY <1>0, <1>1
      <4>. HIDE DEF j, h, own, gone
      <4>. QED BY <3>1, <3>k, <4>1 DEF JobType, Same, Rewritten
    <3>4. Sound(p, After(k, k.steps), k, db, version)
      BY <1>0, <1>1, <1>u, <2>1, <3>3, <3>f, ActUp DEF o
    <3>m. job' = [job EXCEPT ![p] = k] /\ pc' = [pc EXCEPT ![p] = After(k, k.steps)] /\ UNCHANGED <<db, version>>
      BY <1>0, <1>5, <3>2, <3>k DEF Continues, After, JobType, Rewritten
    <3>. QED BY <1>0, <3>f, <3>4, <3>m, ActedStep
  <2>2. CASE h.kind = "declare"
    <3>. DEFINE own == j.own \union Declared(h.table)
                gone == j.gone \ Declared(h.table)
    <3>1. own \in SUBSET Objects /\ gone \in SUBSET Objects
      BY <1>1, ObjectsAre DEF StepType, Declared, PartNames, UsersParts, PrefsParts, PushParts
    <3>2. Done(j, h) = [j EXCEPT !.own = own, !.gone = gone]
      BY <2>2 DEF Done
    <3>3. \A t \in Parents(h.table) : Table(t) \in Seen(j, db) \ j.gone
      <4>1. \A t \in Parents(h.table) : Has(p, t)
        BY <1>5, <2>2 DEF Dangling
      <4>2. \A t : Has(p, t) => Table(t) \in Visible(p)
        BY DEF Has, Table
      <4>. QED BY <1>2, <4>1, <4>2
    <3>k. PICK k : k = Rewritten(j, own, gone)
      OBVIOUS
    <3>f. /\ k \in JobType /\ Same(j, k) /\ k.steps = Tail(j.steps) /\ k.spoilt = FALSE /\ k.names = j.names
          /\ k.own = own /\ k.gone = gone
      <4>1. j \in JobType /\ Tail(j.steps) \in Seq(StepType) /\ j.spoilt = FALSE
        BY <1>0, <1>1
      <4>. HIDE DEF j, h, own, gone
      <4>. QED BY <3>1, <3>k, <4>1 DEF JobType, Same, Rewritten
    <3>4. Sound(p, After(k, k.steps), k, db, version)
      BY <1>0, <1>1, <1>a, <2>2, <3>3, <3>f, ActApp
    <3>m. job' = [job EXCEPT ![p] = k] /\ pc' = [pc EXCEPT ![p] = After(k, k.steps)] /\ UNCHANGED <<db, version>>
      BY <1>0, <1>5, <3>2, <3>k DEF Continues, After, JobType, Rewritten
    <3>. QED BY <1>0, <3>f, <3>4, <3>m, ActedStep
  <2>3. CASE h.kind = "drop"
    <3>. DEFINE own == j.own \ {o}
                lost == {o} \intersect db
                gone == j.gone \union lost
    <3>1. own \in SUBSET Objects /\ gone \in SUBSET Objects
      BY <1>0, <1>1
    <3>2. Done(j, h) = [j EXCEPT !.own = own, !.gone = gone]
      BY <2>3 DEF Done
    <3>k. PICK k : k = Rewritten(j, own, gone)
      OBVIOUS
    <3>f. /\ k \in JobType /\ Same(j, k) /\ k.steps = Tail(j.steps) /\ k.spoilt = FALSE /\ k.names = j.names
          /\ k.own = own /\ k.gone = gone
      <4>1. j \in JobType /\ Tail(j.steps) \in Seq(StepType) /\ j.spoilt = FALSE
        BY <1>0, <1>1
      <4>. HIDE DEF j, h, own, gone
      <4>. QED BY <3>1, <3>k, <4>1 DEF JobType, Same, Rewritten
    <3>3. Sound(p, After(k, k.steps), k, db, version)
      BY <1>0, <1>1, <1>d, <2>3, <3>f, ActDown
    <3>m. job' = [job EXCEPT ![p] = k] /\ pc' = [pc EXCEPT ![p] = After(k, k.steps)] /\ UNCHANGED <<db, version>>
      BY <1>0, <1>5, <3>2, <3>k DEF Continues, After, JobType, Rewritten
    <3>. QED BY <1>0, <3>f, <3>3, <3>m, ActedStep
  <2>4. CASE h.kind = "remove"
    <3>. DEFINE all == {h.table} \X PartNames
                own == j.own \ all
                lost == all \intersect db
                gone == j.gone \union lost
    <3>1. own \in SUBSET Objects /\ gone \in SUBSET Objects
      BY <1>0, <1>1
    <3>2. Done(j, h) = [j EXCEPT !.own = own, !.gone = gone]
      <4>1. {x[2] : x \in Objects} = PartNames
        <5>1. {x[2] : x \in Objects} \subseteq PartNames
          BY ObjectsAre
        <5>2. \A part \in PartNames : <<h.table, part>> \in Objects /\ <<h.table, part>>[2] = part
          BY <1>1, ObjectsAre DEF StepType
        <5>3. PartNames \subseteq {x[2] : x \in Objects}
          BY <5>2
        <5>. QED BY <5>1, <5>3
      <4>. QED BY <2>4, <4>1 DEF Done
    <3>3. Table(h.table) \in Seen(j, db) \ j.gone
      BY <1>2, <1>5, <2>4 DEF Dangling, Has, Table
    <3>k. PICK k : k = Rewritten(j, own, gone)
      OBVIOUS
    <3>f. /\ k \in JobType /\ Same(j, k) /\ k.steps = Tail(j.steps) /\ k.spoilt = FALSE /\ k.names = j.names
          /\ k.own = own /\ k.gone = gone
      <4>1. j \in JobType /\ Tail(j.steps) \in Seq(StepType) /\ j.spoilt = FALSE
        BY <1>0, <1>1
      <4>. HIDE DEF j, h, own, gone
      <4>. QED BY <3>1, <3>k, <4>1 DEF JobType, Same, Rewritten
    <3>4. Sound(p, After(k, k.steps), k, db, version)
      BY <1>0, <1>1, <1>d, <2>4, <3>3, <3>f, ActDown
    <3>m. job' = [job EXCEPT ![p] = k] /\ pc' = [pc EXCEPT ![p] = After(k, k.steps)] /\ UNCHANGED <<db, version>>
      BY <1>0, <1>5, <3>2, <3>k DEF Continues, After, JobType, Rewritten
    <3>. QED BY <1>0, <3>f, <3>4, <3>m, ActedStep
  <2>. QED BY <1>1, <2>1, <2>2, <2>3, <2>4 DEF StepType, Kinds
<1>. QED BY <1>3, <1>4, <1>5 DEF Act

LEMMA StampStep ==
    ASSUME SchemaInv, Rest', NEW p \in Procs, Stamp(p)
    PROVE  SchemaInv'
<1>. DEFINE j  == job[p]
            to == IF j.at < j.target THEN j.at + 1 ELSE j.at - 1
            steps == IF to = j.target THEN <<>> ELSE Migration(to, j.target)
            k  == [j EXCEPT !.at = to, !.steps = steps]
            c  == After(k, k.steps)
<1>0. /\ pc[p] = "stamp" /\ j \in JobType /\ Sound(p, "stamp", j, db, version)
  BY DEF SchemaInv, Typed, Stamp
<1>1. CASE version # j.base
  BY <1>1, EndStep DEF Stamp, Fails
<1>2. CASE version = j.base
  <2>1. Continues(p, [j EXCEPT !.at = to], steps) /\ UNCHANGED <<db, version>> /\ Free(p)
    BY <1>2 DEF Stamp
  <2>2. to \in 0..Head4 /\ j.at # j.target /\ (to # j.target => to \in 1..3)
    <3>1. j.at \in 0..4 /\ j.target \in 0..4 /\ j.at # j.target
      BY <1>0 DEF JobType, Sound, Place, Head4
    <3>. QED BY <3>1 DEF Head4
  <2>3. steps \in Seq(StepType)
    <3>1. <<>> \in Seq(StepType)
      OBVIOUS
    <3>2. \A v \in 0..3 : Upgrades[v + 1] \in Seq(StepType)
      BY UpgradesFacts DEF Proper
    <3>3. \A v \in 1..3 : Downgrades[v] \in Seq(StepType)
      BY DowngradesFacts DEF Head4
    <3>. HIDE DEF to
    <3>4. CASE to = j.target
      BY <3>1, <3>4
    <3>5. CASE to # j.target
      <4>1. to \in 0..3 /\ to \in 1..3
        BY <2>2, <3>5
      <4>2. Upgrades[to + 1] \in Seq(StepType) /\ Downgrades[to] \in Seq(StepType)
        BY <3>2, <3>3, <4>1
      <4>. QED BY <3>5, <4>2 DEF Migration
    <3>. QED BY <3>4, <3>5
  <2>4. /\ k \in JobType /\ k.base = j.base /\ k.at = to /\ k.target = j.target /\ k.names = j.names
        /\ k.own = j.own /\ k.gone = j.gone /\ k.spoilt = j.spoilt /\ k.steps = steps
    <3>. HIDE DEF to, steps
    <3>. QED BY <1>0, <2>2, <2>3 DEF JobType
  <2>5. Moves(p, c, k)
    <3>. HIDE DEF to, steps
    <3>. QED BY <1>0, <2>1 DEF Continues, Moves, After, JobType
  <2>. HIDE DEF k
  <2>6. Sound(p, c, k, db, version) /\ (Down(c, k) <=> Down("stamp", j))
    BY <1>0, <2>4, StampSound
  <2>7. c \in Places
    BY AfterPlace
  <2>8. \A q \in Procs \ {p} : job[q].at = job[q].base
    <3>. SUFFICES ASSUME NEW q \in Procs \ {p} PROVE job[q].at = job[q].base
      OBVIOUS
    <3>1. Needs(p) \intersect Held(q) = {}
      BY <2>1 DEF Free, Blockers
    <3>2. Needs(p) = {"alembic_version"}
      BY <1>0 DEF Needs
    <3>3. job[q].at # job[q].base => "alembic_version" \in Held(q)
      BY DEF Held
    <3>. QED BY <3>1, <3>2, <3>3
  <2>. HIDE DEF c
  <2>. QED BY <1>0, <1>2, <2>4, <2>5, <2>6, <2>7, <2>8, GoesOn
<1>. QED BY <1>1, <1>2

LEMMA CommitStep ==
    ASSUME SchemaInv, Rest', NEW p \in Procs, Commit(p)
    PROVE  SchemaInv'
<1>. DEFINE j == job[p]
<1>0. /\ pc[p] = "commit" /\ j \in JobType /\ job \in [Procs -> JobType] /\ pc \in [Procs -> Places]
      /\ db \subseteq Objects /\ version \in 0..Head4
      /\ \A q \in Procs : Sound(q, pc[q], job[q], db, version)
      /\ Truth(db, version) /\ Roots(db)
  BY DEF SchemaInv, Typed, TypeOk, Commit, Places
<1>1. /\ db' = Seen(j, db) \ j.gone /\ version' = (IF p \in Admins THEN j.at ELSE version)
      /\ pc' = [pc EXCEPT ![p] = "idle"] /\ job' = [job EXCEPT ![p] = NoJob]
  BY DEF Commit, Visible, Seen, Ends
<1>2. Sound(p, "commit", j, db, version)
  BY <1>0
<1>3. p \in Admins => Up(p, "commit", j) \/ Down("commit", j)
  BY <1>0, <1>2 DEF Sound, Course, Up, Down, Head4, JobType
<1>4. p \in Admins => version = j.base /\ \A q \in Procs : q # p => job[q].at = job[q].base
  <2>1. j.at = j.target
    BY <1>2 DEF Sound, Place
  <2>2. p \in Admins => j.at # j.base
    BY <1>0, <1>3, <2>1 DEF Up, Down, JobType, Head4
  <2>. QED BY <2>2 DEF SchemaInv, Stamped
(* What the commit leaves, and what it leaves to the others.                *)
<1>5. /\ Roots(db') /\ Truth(db', version') /\ \A o \in OldTables : o \in db => o \in db'
      /\ \A q \in Procs \ {p} :
            \/ ~Live(q, pc[q], job[q], version')
            \/ /\ version' = version /\ db \subseteq db'
               /\ \A t \in Tables : Table(t) \in db' => Table(t) \in db \/ Declared(t) \subseteq db'
  <2>. DEFINE d1 == Seen(j, db) \ j.gone
  <2>1. CASE p \in Apps
    <3>1. p \notin Admins
      BY <2>1, ProcAssumption
    <3>2. /\ Roots(d1) /\ Truth(d1, version) /\ db \subseteq d1
          /\ \A t \in Tables : Table(t) \in d1 => Table(t) \in db \/ Declared(t) \subseteq d1
      BY <1>0, <1>2, <2>1, CommitApp
    <3>. HIDE DEF d1
    <3>3. db' = d1 /\ version' = version
      BY <1>1, <3>1 DEF d1
    <3>. QED BY <3>2, <3>3
  <2>2. CASE Up(p, "commit", j)
    <3>1. p \in Admins
      BY <2>2 DEF Up
    <3>v. version = j.base
      BY <1>4, <3>1
    <3>2. Roots(d1) /\ Truth(d1, j.at) /\ j.at = Head4 /\ \A o \in OldTables : o \in db => o \in d1
      BY <1>0, <1>2, <2>2, <3>v, CommitUp
    <3>. HIDE DEF d1
    <3>3. db' = d1 /\ version' = Head4 /\ version' = j.at
      BY <1>1, <3>1, <3>2 DEF d1
    <3>4. \A q \in Procs : ~Live(q, pc[q], job[q], Head4)
      <4>. SUFFICES ASSUME NEW q \in Procs, Live(q, pc[q], job[q], Head4) PROVE FALSE
        OBVIOUS
      <4>1. job[q].base < job[q].target /\ job[q].base = Head4 /\ job[q].target \in 0..Head4
        BY <1>0 DEF Live, Up, JobType
      <4>. QED BY <4>1 DEF Head4
    <3>. QED BY <3>2, <3>3, <3>4
  <2>3. CASE Down("commit", j) /\ p \in Admins
    <3>1. version = j.base
      BY <1>4, <2>3
    <3>2. Roots(d1) /\ Truth(d1, j.at) /\ \A o \in OldTables : o \in db => o \in d1
      BY <1>0, <1>2, <2>3, <3>1, CommitDown
    <3>. HIDE DEF d1
    <3>3. db' = d1 /\ version' = j.at
      BY <1>1, <2>3 DEF d1
    <3>4. \A q \in Procs \ {p} : ~Live(q, pc[q], job[q], version')
      <4>. SUFFICES ASSUME NEW q \in Procs \ {p}, Up(q, pc[q], job[q]) PROVE FALSE
        BY DEF Live
      <4>1. q \in Admins /\ pc[q] # "idle"
        BY DEF Up
      <4>. QED BY <1>0, <2>3, <4>1 DEF SchemaInv, Exclusive
    <3>. QED BY <3>2, <3>3, <3>4
  <2>. QED BY <1>3, <2>1, <2>2, <2>3 DEF Procs
<1>6. NoJob \in JobType /\ Sound(p, "idle", NoJob, db', version')
  BY <1>5, IdleSound DEF Roots
<1>7. \A q \in Procs \ {p} : Sound(q, pc[q], job[q], db', version')
  BY <1>0, <1>5, OtherSound
<1>8. /\ pc'[p] = "idle" /\ job'[p] = NoJob
      /\ \A q \in Procs \ {p} : pc'[q] = pc[q] /\ job'[q] = job[q]
      /\ pc' \in [Procs -> Places] /\ job' \in [Procs -> JobType]
  BY <1>0, <1>1, <1>6 DEF Places
<1>9. Typed'
  <2>1. db' \subseteq Objects
    BY <1>0, <1>1 DEF Seen, JobType
  <2>2. version' \in 0..Head4
    BY <1>0, <1>1 DEF JobType
  <2>. QED BY <1>8, <2>1, <2>2, TypedFrom DEF Typed, TypeOk, Rest, JobType, Places, Names
<1>10. Exclusive'
  <2>. SUFFICES ASSUME NEW a \in Admins, NEW b \in Admins, a # b, Down(pc'[a], job'[a]) PROVE pc'[b] = "idle"
    BY DEF Exclusive
  <2>1. a # p
    BY <1>8 DEF Down
  <2>. QED BY <1>8, <2>1 DEF SchemaInv, Exclusive, Procs
<1>11. Stamped'
  <2>. SUFFICES ASSUME NEW a \in Procs, job'[a].at # job'[a].base
                PROVE  version' = job'[a].base /\ \A q \in Procs : q # a => job'[q].at = job'[q].base
    BY DEF Stamped
  <2>1. a # p /\ NoJob.at = NoJob.base
    BY <1>8 DEF NoJob
  <2>2. p \notin Admins /\ version = job[a].base /\ \A q \in Procs : q # a => job[q].at = job[q].base
    BY <1>4, <1>8, <2>1 DEF SchemaInv, Stamped
  <2>. QED BY <1>1, <1>8, <2>1, <2>2
<1>12. \A q \in Procs : Sound(q, pc'[q], job'[q], db', version')
  BY <1>6, <1>7, <1>8
<1>. QED BY <1>5, <1>9, <1>10, <1>11, <1>12 DEF SchemaInv

-----------------------------------------------------------------------------
(* What older code leaves.                                                  *)
LEMMA InitInv == Init => SchemaInv
<1>. SUFFICES ASSUME Init PROVE SchemaInv
  OBVIOUS
<1>1. \/ db = {} /\ version = 0
      \/ version \in 0..4 /\ db = Older(version)
  BY BoundAssumption DEF Init
<1>2. pc = [p \in Procs |-> "idle"] /\ job = [p \in Procs |-> NoJob] /\ NoJob \in JobType
  BY IdleSound DEF Init, JobType, NoJob, Head4
<1>3. db \subseteq Objects /\ Roots(db) /\ Truth(db, version)
  <2>1. CASE db = {} /\ version = 0
    BY <2>1 DEF Roots, Rooted, Truth
  <2>2. CASE version \in 0..4 /\ db = Older(version)
    <3>1. OldTables \subseteq db /\ Made(version) \subseteq db
      BY <2>2 DEF Older
    <3>2. Roots(db)
      BY <3>1 DEF Roots, Rooted, OldTables, Table
    <3>3. Promised(version, db)
      BY <3>1 DEF Promised, In
    <3>4. version < 2 => Table("stripe_events") \notin db
      BY <2>2, MadeAre DEF Older, OldTables, Table, Parts1
    <3>5. Made(version) \subseteq Made(4)
      BY <2>2, MadeFacts DEF Head4
    <3>6. Made(4) \subseteq Objects
      BY MadeAre, ObjectsAre DEF Parts1, Parts2, Parts3, Parts4, Table, Index, IxEndpoint, Names, Tables, PartNames
    <3>7. db \subseteq Objects
      BY <2>2, <3>5, <3>6, ObjectsAre DEF Older, OldTables, Names, Tables, PartNames
    <3>. QED BY <3>2, <3>3, <3>4, <3>7 DEF Truth
  <2>. QED BY <1>1, <2>1, <2>2
<1>4. Typed
  <2>1. Rest
    BY BoundAssumption DEF Init, Rest
  <2>. QED BY <1>1, <1>2, <1>3, <2>1, TypedFrom DEF Places, Head4
<1>5. \A p \in Procs : Sound(p, "idle", NoJob, db, version)
  BY <1>3, IdleSound DEF Roots
<1>6. Exclusive /\ Stamped
  BY <1>2 DEF Exclusive, Stamped, Down, NoJob, Procs
<1>. QED BY <1>2, <1>3, <1>4, <1>5, <1>6 DEF SchemaInv

-----------------------------------------------------------------------------
(* The invariant is one, for whatever versions of the database, numbers of  *)
(* administrators and starts, and interleavings of their statements.        *)
THEOREM SchemaInvariant == Spec => []SchemaInv
<1>1. SchemaInv /\ [Next]_vars => SchemaInv'
  <2>. SUFFICES ASSUME SchemaInv, [Next]_vars PROVE SchemaInv'
    OBVIOUS
  <2>1. CASE UNCHANGED vars
    <3>1. /\ db' = db /\ version' = version /\ pc' = pc /\ job' = job
          /\ ahead' = ahead /\ lone' = lone /\ outcome' = outcome /\ upsets' = upsets
      BY <2>1 DEF vars, history
    <3>2. Typed'
      BY <3>1 DEF SchemaInv, Typed, TypeOk
    <3>3. Exclusive' /\ Stamped'
      BY <3>1 DEF SchemaInv, Exclusive, Stamped
    <3>. QED BY <3>1, <3>2, <3>3 DEF SchemaInv
  <2>2. ASSUME NEW p \in Procs, Run(p) \/ ((Start(p) \/ Kill(p)) /\ Queue(p))
        PROVE  SchemaInv'
    <3>1. Rest'
      BY <2>2, RestTyped DEF SchemaInv, Typed
    <3>2. CASE Look(p)
      BY <3>1, <3>2, LookStep
    <3>3. CASE Act(p)
      BY <3>1, <3>3, ActStep
    <3>4. CASE Stamp(p)
      BY <3>1, <3>4, StampStep
    <3>5. CASE Commit(p)
      BY <3>1, <3>5, CommitStep
    <3>6. CASE Victim(p)
      BY <3>1, <3>6, EndStep DEF Victim, Fails
    <3>7. CASE Kill(p)
      BY <3>1, <3>7, EndStep DEF Kill
    <3>8. CASE Start(p)
      BY <3>1, <3>8, StartStep
    <3>. QED BY <2>2, <3>2, <3>3, <3>4, <3>5, <3>6, <3>7, <3>8 DEF Run
  <2>. QED BY <2>1, <2>2 DEF Next
<1>. QED BY InitInv, <1>1, PTL DEF Spec

(* The state is well formed.                                                *)
THEOREM Types == Spec => []TypeOk
<1>1. SchemaInv => TypeOk
  BY DEF SchemaInv, Typed
<1>. QED BY SchemaInvariant, <1>1, PTL

(* Of every table that is there, the parts of the migrations up to the      *)
(* stored version are there, however upgrades, downgrades, starts of the    *)
(* application and killed processes interleave.                             *)
THEOREM VersionTrue == Spec => []VersionIsTrue
<1>1. SchemaInv => VersionIsTrue
  <2>. SUFFICES ASSUME SchemaInv, NEW o \in Made(version) PROVE Provided(o)
    BY DEF VersionIsTrue
  <2>1. version > 0
    BY MadeFacts DEF SchemaInv, Typed, TypeOk, Head4
  <2>2. In(o, db)
    BY <2>1 DEF SchemaInv, Truth, Promised
  <2>. QED BY <2>2 DEF In, Provided, IxEndpoint, UqEndpoint
<1>. QED BY SchemaInvariant, <1>1, PTL

(* At the head no table, column or index of the migrations is missing, nor  *)
(* is a table that only the application's start creates.                    *)
THEOREM HeadComplete == Spec => []HeadIsComplete
<1>1. SchemaInv => HeadIsComplete
  <2>. SUFFICES ASSUME SchemaInv, version = Head4
                PROVE  OldTables \subseteq db /\ \A o \in Made(Head4) : Provided(o)
    BY DEF HeadIsComplete
  <2>1. Promised(Head4, db)
    BY DEF SchemaInv, Truth, Head4
  <2>. QED BY <2>1 DEF Promised, In, Provided, IxEndpoint, UqEndpoint
<1>. QED BY SchemaInvariant, <1>1, PTL

-----------------------------------------------------------------------------
(* A run that nothing overlaps.  What the inspector knows of the tables     *)
(* that the steps up to the next inspection are about is what is there      *)
(* (Span); tables are created after those they refer to and removed before  *)
(* them (LoneStep), so no statement fails but for want of users.            *)
Makes      == {"create", "declare"}
MakesIn(s, t) == \E step \in Items(s) : step.kind \in Makes /\ step.table = t
TakesIn(s, t) == \E step \in Items(s) : step.kind = "remove" /\ step.table = t
Span(s, i) == \A m \in DOMAIN s : m <= i => s[m].kind # "inspect"

LoneStep(s, i) ==
    /\ s[i].kind \in Makes \union {"remove"} =>
         \A k \in DOMAIN s : k > i /\ s[k].table = s[i].table =>
            \E m \in DOMAIN s : i < m /\ m <= k /\ s[m].kind = "inspect"
    /\ s[i].kind \in Makes =>
         \A k \in DOMAIN s : k > i =>
            s[k].kind # "remove" /\ (s[k].kind \in Makes => s[k].table \notin Parents(s[i].table))
    /\ s[i].kind = "remove" =>
         \A k \in DOMAIN s : k > i =>
            s[k].kind \notin Makes /\ (s[k].kind = "remove" => s[i].table \notin Parents(s[k].table))
LonePlan(s) == \A i \in DOMAIN s : LoneStep(s, i)

Wants(j, V) ==
    LET h     == Head(j.steps)
        known == h.table \in j.names
        there == <<h.table, h.part>> \in V
    IN  /\ h.kind \in Makes  => ~known
        /\ h.kind = "remove" => known
        /\ h.kind = "add"    => known /\ ~there
        /\ h.kind = "drop"   => known /\ there

LoneSound(p, c, j, V) ==
    /\ j.spoilt = FALSE /\ (c = "act" => Wants(j, V))
    /\ LonePlan(j.steps)
    /\ \A i \in DOMAIN j.steps : Span(j.steps, i) =>
         (j.steps[i].table \in j.names <=> Table(j.steps[i].table) \in V)
    /\ \A t \in Names : \A u \in Parents(t) : MakesIn(j.steps, t) =>
         Table(u) \in V \/ MakesIn(j.steps, u) \/ (u = "users" /\ p \in Admins)
    /\ \A t \in Tables : \A u \in Parents(t) : TakesIn(j.steps, u) =>
         Table(t) \notin V \/ TakesIn(j.steps, t)

LoneAt(p) ==
    /\ \A q \in Procs \ {p} : pc[q] = "idle"
    /\ pc[p] # "idle" => /\ outcome[p] # "failed" /\ version = job[p].base
                         /\ LoneSound(p, pc[p], job[p], Visible(p))
    /\ outcome[p] = "failed" => p \in Admins /\ Table("users") \notin db
LoneInv == \A p \in lone : LoneAt(p)

(* Whole plans.  What is free is not theirs to make.                        *)
Whole(s, free) ==
    /\ s \in Seq(StepType) /\ s # <<>> /\ Head(s) = Inspect /\ LonePlan(s)
    /\ \A t \in Names : \A u \in Parents(t) \ free : MakesIn(s, t) => MakesIn(s, u)
    /\ \A t \in Tables : \A u \in Parents(t) : TakesIn(s, u) => TakesIn(s, t)

LEMMA ParentsAre ==
    \A t : /\ Parents(t) \subseteq {"users", "qsl_digest_batches"}
           /\ "qsl_digest_batches" \in Parents(t) => t = "notification_deliveries"
           /\ "users" \in Parents(t) => t \notin {"alembic_version", "users", "stripe_events"}
  BY DEF Parents

(* Of the plans only that of create_all makes users, and none removes it.   *)
LEMMA WholeFrom ==
    ASSUME NEW s \in Seq(StepType), s # <<>>, Head(s) = Inspect, LonePlan(s), NEW free \in SUBSET {"users"},
           MakesIn(s, "notification_deliveries") => MakesIn(s, "qsl_digest_batches"),
           TakesIn(s, "qsl_digest_batches") => TakesIn(s, "notification_deliveries"),
           "users" \in free \/ MakesIn(s, "users"), ~TakesIn(s, "users")
    PROVE  Whole(s, free)
  BY ParentsAre DEF Whole

LEMMA WholeUpgrades ==
    /\ \A v \in 0..3 : Whole(Upgrades[v + 1], {"users"})
    /\ Whole(VersionTable \o Upgrade1, {"users"})
<1>. USE DEF Step, Inspect, Create, Add
<1>u. Upgrades[1] = Upgrade1 /\ Upgrades[2] = Upgrade2 /\ Upgrades[3] = Upgrade3 /\ Upgrades[4] = Upgrade4
  BY DEF Upgrades
<1>. DEFINE Begun(s) == s \in Seq(StepType) /\ s # <<>> /\ Head(s) = Inspect
<1>p. Begun(Upgrade1) /\ Begun(Upgrade2) /\ Begun(Upgrade3) /\ Begun(Upgrade4) /\ Begun(VersionTable \o Upgrade1)
  <2>1. Begun(Upgrades[0 + 1]) /\ Begun(Upgrades[1 + 1]) /\ Begun(Upgrades[2 + 1]) /\ Begun(Upgrades[3 + 1])
    BY UpgradesFacts DEF Proper
  <2>2. Begun(VersionTable \o Upgrade1)
    BY UpgradesFacts DEF Proper
  <2>. HIDE DEF Begun
  <2>. QED BY <1>u, <2>1, <2>2
<1>1. Whole(Upgrade1, {"users"})
  <2>1. LonePlan(Upgrade1)
    BY DEF LonePlan, LoneStep, Upgrade1, Makes
  <2>2. \A t : ~MakesIn(Upgrade1, t) /\ ~TakesIn(Upgrade1, t)
    BY DEF MakesIn, TakesIn, Makes, Items, Upgrade1
  <2>. QED BY <1>p, <2>1, <2>2, WholeFrom
<1>2. Whole(Upgrade2, {"users"})
  <2>0. /\ DOMAIN Upgrade2 = 1..8
        /\ Upgrade2[1] = Inspect /\ Upgrade2[2] = Add("users", "billing") /\ Upgrade2[3] = Add("users", "index")
        /\ Upgrade2[4] = Add("qso_reports", "index") /\ Upgrade2[5] = Inspect
        /\ Upgrade2[6] = Create("stripe_events") /\ Upgrade2[7] = Inspect
        /\ Upgrade2[8] = Add("stripe_events", "index")
        /\ \A i \in 1..8 : i = 1 \/ i = 2 \/ i = 3 \/ i = 4 \/ i = 5 \/ i = 6 \/ i = 7 \/ i = 8
    BY DEF Upgrade2, StripeEvents
  <2>1. LonePlan(Upgrade2)
    BY <2>0, ParentsAre DEF LonePlan, LoneStep, Makes
  <2>2. ~MakesIn(Upgrade2, "notification_deliveries") /\ \A t : ~TakesIn(Upgrade2, t)
    BY <2>0 DEF MakesIn, TakesIn, Makes, Items
  <2>. QED BY <1>p, <2>1, <2>2, WholeFrom
<1>3. Whole(Upgrade3, {"users"})
  <2>1. LonePlan(Upgrade3)
    <3>. SUFFICES ASSUME NEW i \in 1..12 PROVE LoneStep(Upgrade3, i)
      BY Upgrade3Facts DEF LonePlan, Upgrade3Is
    <3>. USE Upgrade3Facts DEF Upgrade3Is
    <3>1. CASE i \in {3, 4, 5, 6}
      <4>1. Upgrade3[i].kind = "create" /\ \A k \in 1..12 : k > i /\ Upgrade3[k].table = Upgrade3[i].table => k >= 8
        BY <3>1
      <4>2. Upgrade3[7].kind = "inspect" /\ i < 7 /\ 7 \in 1..12
        BY <3>1
      <4>3. \A k \in 1..12 : k > i => /\ Upgrade3[k].kind # "remove"
                                      /\ Upgrade3[k].kind \in Makes => Upgrade3[k].table \notin Parents(Upgrade3[i].table)
        BY <3>1, ParentsAre DEF Makes
      <4>. QED BY <4>1, <4>2, <4>3 DEF LoneStep, Makes
    <3>2. CASE i \notin {3, 4, 5, 6}
      <4>1. Upgrade3[i].kind \notin Makes \union {"remove"}
        BY <3>2 DEF Makes
      <4>. QED BY <4>1 DEF LoneStep, Makes
    <3>. QED BY <3>1, <3>2
  <2>2. MakesIn(Upgrade3, "qsl_digest_batches")
    BY Upgrade3Facts DEF MakesIn, Makes, Items, Upgrade3Is
  <2>3. \A t : ~TakesIn(Upgrade3, t)
    BY Upgrade3Facts DEF TakesIn, Items, Upgrade3Is
  <2>. QED BY <1>p, <2>1, <2>2, <2>3, WholeFrom
<1>4. Whole(Upgrade4, {"users"})
  <2>1. LonePlan(Upgrade4)
    BY DEF LonePlan, LoneStep, Upgrade4, Makes
  <2>2. \A t : ~MakesIn(Upgrade4, t) /\ ~TakesIn(Upgrade4, t)
    BY DEF MakesIn, TakesIn, Makes, Items, Upgrade4
  <2>. QED BY <1>p, <2>1, <2>2, WholeFrom
<1>5. Whole(VersionTable \o Upgrade1, {"users"})
  <2>. DEFINE s == VersionTable \o Upgrade1
  <2>0. DOMAIN s = 1..4 /\ s[1] = Inspect /\ s[2] = Create("alembic_version") /\ s[3] = Inspect /\ s[4] = Add("users", "lotw")
        /\ \A i \in 1..4 : i = 1 \/ i = 2 \/ i = 3 \/ i = 4
    BY DEF VersionTable, Upgrade1
  <2>. HIDE DEF s
  <2>1. LonePlan(s)
    BY <2>0, ParentsAre DEF LonePlan, LoneStep, Makes
  <2>2. ~MakesIn(s, "notification_deliveries") /\ \A t : ~TakesIn(s, t)
    BY <2>0 DEF MakesIn, TakesIn, Makes, Items
  <2>3. s \in Seq(StepType) /\ s # <<>> /\ Head(s) = Inspect
    BY <1>p DEF s
  <2>4. Whole(s, {"users"})
    BY <2>1, <2>2, <2>3, WholeFrom
  <2>. QED BY <2>4 DEF s
<1>6. \A v \in 0..3 : v = 0 \/ v = 1 \/ v = 2 \/ v = 3
  OBVIOUS
<1>. QED BY <1>u, <1>1, <1>2, <1>3, <1>4, <1>5, <1>6

LEMMA WholeDowngrades == \A v \in 1..Head4 : Whole(Downgrades[v], {"users"})
<1>. USE DEF Step, Inspect, Drop, Remove
<1>u. Downgrades[1] = Downgrade1 /\ Downgrades[2] = Downgrade2 /\ Downgrades[3] = Downgrade3 /\ Downgrades[4] = Downgrade4
  BY DEF Downgrades
<1>p. /\ Downgrade1 \in Seq(StepType) /\ Downgrade1 # <<>> /\ Downgrade2 \in Seq(StepType) /\ Downgrade2 # <<>>
      /\ Downgrade3 \in Seq(StepType) /\ Downgrade3 # <<>> /\ Downgrade4 \in Seq(StepType) /\ Downgrade4 # <<>>
  <2>1. 1 \in 1..Head4 /\ 2 \in 1..Head4 /\ 3 \in 1..Head4 /\ 4 \in 1..Head4
    BY DEF Head4
  <2>. QED BY <1>u, <2>1, DowngradesFacts
<1>1. Whole(Downgrade1, {"users"})
  <2>1. LonePlan(Downgrade1) /\ Head(Downgrade1) = Inspect
    BY DEF LonePlan, LoneStep, Downgrade1, Makes
  <2>2. \A t : ~MakesIn(Downgrade1, t) /\ ~TakesIn(Downgrade1, t)
    BY DEF MakesIn, TakesIn, Makes, Items, Downgrade1
  <2>. QED BY <1>p, <2>1, <2>2, WholeFrom
<1>2. Whole(Downgrade2, {"users"})
  <2>0. /\ DOMAIN Downgrade2 = 1..5 /\ Head(Downgrade2) = Inspect
        /\ Downgrade2[1] = Inspect /\ Downgrade2[2] = Remove("stripe_events") /\ Downgrade2[3] = Drop("qso_reports", "index")
        /\ Downgrade2[4] = Drop("users", "index") /\ Downgrade2[5] = Drop("users", "billing")
        /\ \A i \in 1..5 : i = 1 \/ i = 2 \/ i = 3 \/ i = 4 \/ i = 5
    BY DEF Downgrade2
  <2>1. LonePlan(Downgrade2)
    BY <2>0, ParentsAre DEF LonePlan, LoneStep, Makes
  <2>2. \A t : ~MakesIn(Downgrade2, t) /\ (TakesIn(Downgrade2, t) => t = "stripe_events")
    BY <2>0 DEF MakesIn, TakesIn, Makes, Items
  <2>. QED BY <1>p, <2>0, <2>1, <2>2, WholeFrom
<1>3. Whole(Downgrade3, {"users"})
  <2>0. /\ DOMAIN Downgrade3 = 1..10 /\ Head(Downgrade3) = Inspect
        /\ Downgrade3[1] = Inspect /\ Downgrade3[2] = Remove("notification_deliveries")
        /\ Downgrade3[3] = Inspect /\ Downgrade3[4] = Remove("qsl_digest_batches")
        /\ Downgrade3[5] = Inspect /\ Downgrade3[6] = Remove("web_push_subscriptions")
        /\ Downgrade3[7] = Inspect /\ Downgrade3[8] = Remove("notification_preferences")
        /\ Downgrade3[9] = Inspect /\ Downgrade3[10] = Drop("users", "mail")
        /\ \A i \in 1..10 : i = 1 \/ i = 2 \/ i = 3 \/ i = 4 \/ i = 5 \/ i = 6 \/ i = 7 \/ i = 8 \/ i = 9 \/ i = 10
    BY DEF Downgrade3
  <2>1. LonePlan(Downgrade3)
    <3>. SUFFICES ASSUME NEW i \in 1..10 PROVE LoneStep(Downgrade3, i)
      BY <2>0 DEF LonePlan
    <3>1. CASE i \in {2, 4, 6, 8}
      <4>1. /\ Downgrade3[i].kind = "remove"
            /\ \A k \in 1..10 : k > i => Downgrade3[k].table # Downgrade3[i].table \/ Downgrade3[k].kind = "inspect"
        BY <2>0, <3>1
      <4>2. \A k \in 1..10 : k > i => /\ Downgrade3[k].kind \notin Makes
                                      /\ Downgrade3[k].kind = "remove" => Downgrade3[i].table \notin Parents(Downgrade3[k].table)
        BY <2>0, <3>1, ParentsAre DEF Makes
      <4>. QED BY <2>0, <4>1, <4>2 DEF LoneStep, Makes
    <3>2. CASE i \notin {2, 4, 6, 8}
      <4>1. Downgrade3[i].kind \notin Makes \union {"remove"}
        BY <2>0, <3>2 DEF Makes
      <4>. QED BY <4>1 DEF LoneStep, Makes
    <3>. QED BY <3>1, <3>2
  <2>2. TakesIn(Downgrade3, "notification_deliveries")
    BY <2>0 DEF TakesIn, Items
  <2>3. \A t : ~MakesIn(Downgrade3, t) /\ ~TakesIn(Downgrade3, "users")
    BY <2>0 DEF MakesIn, TakesIn, Makes, Items
  <2>. QED BY <1>p, <2>0, <2>1, <2>2, <2>3, WholeFrom
<1>4. Whole(Downgrade4, {"users"})
  <2>1. LonePlan(Downgrade4) /\ Head(Downgrade4) = Inspect
    BY DEF LonePlan, LoneStep, Downgrade4, Makes
  <2>2. \A t : ~MakesIn(Downgrade4, t) /\ ~TakesIn(Downgrade4, t)
    BY DEF MakesIn, TakesIn, Makes, Items, Downgrade4
  <2>. QED BY <1>p, <2>1, <2>2, WholeFrom
<1>5. \A v \in 1..Head4 : v = 1 \/ v = 2 \/ v = 3 \/ v = 4
  BY DEF Head4
<1>. QED BY <1>u, <1>1, <1>2, <1>3, <1>4, <1>5

LEMMA WholeCreateAll == Whole(CreateAll, {})
<1>. USE DEF Step, Inspect, Declare
<1>0. /\ DOMAIN CreateAll = 1..8 /\ Head(CreateAll) = Inspect
      /\ CreateAll[1] = Inspect /\ CreateAll[2] = Declare("stripe_events") /\ CreateAll[3] = Declare("users")
      /\ CreateAll[4] = Declare("notification_preferences") /\ CreateAll[5] = Declare("qsl_digest_batches")
      /\ CreateAll[6] = Declare("qso_reports") /\ CreateAll[7] = Declare("web_push_subscriptions")
      /\ CreateAll[8] = Declare("notification_deliveries")
      /\ \A i \in 1..8 : i = 1 \/ i = 2 \/ i = 3 \/ i = 4 \/ i = 5 \/ i = 6 \/ i = 7 \/ i = 8
  BY DEF CreateAll
<1>1. LonePlan(CreateAll)
  <2>. SUFFICES ASSUME NEW i \in 1..8 PROVE LoneStep(CreateAll, i)
    BY <1>0 DEF LonePlan
  <2>1. \A k \in 1..8 : k > i /\ i > 1 => CreateAll[k].table # CreateAll[i].table /\ CreateAll[k].kind = "declare"
    BY <1>0
  <2>2. \A k \in 1..8 : k > i /\ i > 1 => CreateAll[k].table \notin Parents(CreateAll[i].table)
    BY <1>0, ParentsAre
  <2>3. CreateAll[1].kind = "inspect" /\ (i > 1 => CreateAll[i].kind = "declare")
    BY <1>0
  <2>4. CASE i = 1
    BY <2>3, <2>4 DEF LoneStep, Makes
  <2>5. CASE i > 1
    BY <1>0, <2>1, <2>2, <2>3, <2>5 DEF LoneStep, Makes
  <2>. QED BY <2>4, <2>5
<1>2. MakesIn(CreateAll, "users") /\ MakesIn(CreateAll, "qsl_digest_batches")
  BY <1>0 DEF MakesIn, Makes, Items
<1>3. \A t : ~TakesIn(CreateAll, t)
  BY <1>0 DEF TakesIn, Items
<1>4. CreateAll \in Seq(StepType) /\ CreateAll # <<>> /\ Head(CreateAll) = Inspect /\ {} \in SUBSET {"users"}
  BY <1>0, CreateAllFacts
<1>. QED BY <1>1, <1>2, <1>3, <1>4, WholeFrom

LEMMA WholeLone ==
    ASSUME NEW p \in Procs, NEW free \in SUBSET {"users"}, free # {} => p \in Admins,
           NEW j, Whole(j.steps, free), j.spoilt = FALSE, NEW c, c # "act", NEW V
    PROVE  LoneSound(p, c, j, V)
<1>. DEFINE s == j.steps
<1>1. s \in Seq(StepType) /\ s # <<>> /\ Head(s) = Inspect /\ LonePlan(s)
  BY DEF Whole
<1>2. \A i \in DOMAIN s : ~Span(s, i)
  <2>1. 1 \in DOMAIN s /\ s[1].kind = "inspect" /\ \A i \in DOMAIN s : 1 <= i
    BY <1>1, TailFacts DEF Inspect, Step
  <2>. QED BY <2>1 DEF Span
<1>3. \A t \in Names : \A u \in Parents(t) : MakesIn(s, t) => MakesIn(s, u) \/ (u = "users" /\ p \in Admins)
  BY DEF Whole
<1>4. \A t \in Tables : \A u \in Parents(t) : TakesIn(s, u) => TakesIn(s, t)
  BY DEF Whole
<1>. QED BY <1>1, <1>2, <1>3, <1>4 DEF LoneSound

LEMMA EmptyLone ==
    ASSUME NEW p, NEW c, c # "act", NEW j, j.steps = <<>>, j.spoilt = FALSE, NEW V
    PROVE  LoneSound(p, c, j, V)
<1>1. DOMAIN j.steps = {}
  OBVIOUS
<1>. QED BY <1>1 DEF LoneSound, LonePlan, MakesIn, TakesIn, Items

LEMMA LoneTail ==
    ASSUME NEW s \in Seq(StepType), s # <<>>, LonePlan(s), NEW h, h = Head(s)
    PROVE  /\ LonePlan(Tail(s))
           /\ h.kind # "inspect" =>
                \A i \in DOMAIN Tail(s) : Span(Tail(s), i) =>
                   /\ i + 1 \in DOMAIN s /\ Span(s, i + 1) /\ Tail(s)[i] = s[i + 1]
                   /\ h.kind \in Makes \union {"remove"} => Tail(s)[i].table # h.table
           /\ h.kind \in Makes =>
                /\ \A t : ~TakesIn(Tail(s), t)
                /\ \A u \in Parents(h.table) : ~MakesIn(Tail(s), u)
           /\ h.kind = "remove" =>
                /\ \A t : ~MakesIn(Tail(s), t)
                /\ \A t : h.table \in Parents(t) => ~TakesIn(Tail(s), t)
           /\ \A t : MakesIn(s, t) <=> MakesIn(Tail(s), t) \/ (h.kind \in Makes /\ h.table = t)
           /\ \A t : TakesIn(s, t) <=> TakesIn(Tail(s), t) \/ (h.kind = "remove" /\ h.table = t)
<1>1. /\ h = s[1] /\ 1 \in DOMAIN s /\ Tail(s) \in Seq(StepType) /\ Len(s) \in Nat /\ Len(Tail(s)) = Len(s) - 1
      /\ \A i \in DOMAIN Tail(s) : i \in Nat /\ i + 1 \in DOMAIN s /\ Tail(s)[i] = s[i + 1]
      /\ Items(s) = {h} \union Items(Tail(s))
      /\ DOMAIN s = 1..Len(s) /\ DOMAIN Tail(s) = 1..Len(Tail(s))
  BY TailFacts
<1>2. \A m \in DOMAIN s : m = 1 \/ (m - 1 \in DOMAIN Tail(s) /\ Tail(s)[m - 1] = s[m])
  BY <1>1
<1>3. LoneStep(s, 1)
  BY <1>1 DEF LonePlan
<1>4. \A i \in DOMAIN Tail(s) : i + 1 > 1 /\ i + 1 \in DOMAIN s /\ Tail(s)[i] = s[i + 1]
  BY <1>1
<1>5. LonePlan(Tail(s))
  <2>. SUFFICES ASSUME NEW i \in DOMAIN Tail(s) PROVE LoneStep(Tail(s), i)
    BY DEF LonePlan
  <2>1. LoneStep(s, i + 1) /\ Tail(s)[i] = s[i + 1] /\ i \in Nat
    BY <1>1 DEF LonePlan
  <2>2. \A k \in DOMAIN Tail(s) : k > i => k + 1 \in DOMAIN s /\ k + 1 > i + 1 /\ Tail(s)[k] = s[k + 1]
    BY <1>1, <2>1
  <2>3. ASSUME NEW k \in DOMAIN Tail(s), NEW m \in DOMAIN s, i + 1 < m, m <= k + 1
        PROVE  m - 1 \in DOMAIN Tail(s) /\ i < m - 1 /\ m - 1 <= k /\ Tail(s)[m - 1] = s[m]
    <3>1. m \in Int /\ k \in Int /\ i \in Int /\ m # 1 /\ i >= 0
      BY <1>1, <2>1, <2>3
    <3>. QED BY <1>2, <2>3, <3>1
  <2>4. ASSUME Tail(s)[i].kind \in Makes \union {"remove"},
               NEW k \in DOMAIN Tail(s), k > i, Tail(s)[k].table = Tail(s)[i].table
        PROVE  \E m \in DOMAIN Tail(s) : i < m /\ m <= k /\ Tail(s)[m].kind = "inspect"
    <3>1. PICK m \in DOMAIN s : i + 1 < m /\ m <= k + 1 /\ s[m].kind = "inspect"
      BY <2>1, <2>2, <2>4 DEF LoneStep
    <3>. QED BY <2>3, <3>1
  <2>5. Tail(s)[i].kind \in Makes =>
         \A k \in DOMAIN Tail(s) : k > i =>
            Tail(s)[k].kind # "remove" /\ (Tail(s)[k].kind \in Makes => Tail(s)[k].table \notin Parents(Tail(s)[i].table))
    BY <2>1, <2>2 DEF LoneStep
  <2>6. Tail(s)[i].kind = "remove" =>
         \A k \in DOMAIN Tail(s) : k > i =>
            Tail(s)[k].kind \notin Makes /\ (Tail(s)[k].kind = "remove" => Tail(s)[i].table \notin Parents(Tail(s)[k].table))
    BY <2>1, <2>2 DEF LoneStep
  <2>. QED BY <2>4, <2>5, <2>6 DEF LoneStep
<1>6. ASSUME h.kind # "inspect", NEW i \in DOMAIN Tail(s), Span(Tail(s), i)
      PROVE  /\ i + 1 \in DOMAIN s /\ Span(s, i + 1) /\ Tail(s)[i] = s[i + 1]
             /\ h.kind \in Makes \union {"remove"} => Tail(s)[i].table # h.table
  <2>1. Span(s, i + 1)
    <3>. SUFFICES ASSUME NEW m \in DOMAIN s, m <= i + 1 PROVE s[m].kind # "inspect"
      BY DEF Span
    <3>1. m = 1 \/ (m - 1 \in DOMAIN Tail(s) /\ Tail(s)[m - 1] = s[m] /\ m - 1 <= i)
      BY <1>1, <1>2
    <3>. QED BY <1>1, <1>6, <3>1 DEF Span
  <2>2. h.kind \in Makes \union {"remove"} => Tail(s)[i].table # h.table
    <3>. SUFFICES ASSUME h.kind \in Makes \union {"remove"}, Tail(s)[i].table = h.table PROVE FALSE
      OBVIOUS
    <3>1. i + 1 \in DOMAIN s /\ i + 1 > 1 /\ s[i + 1].table = s[1].table
      BY <1>1, <1>4
    <3>2. \E m \in DOMAIN s : 1 < m /\ m <= i + 1 /\ s[m].kind = "inspect"
      BY <1>1, <1>3, <3>1 DEF LoneStep
    <3>. QED BY <2>1, <3>2 DEF Span
  <2>. QED BY <1>1, <2>1, <2>2
<1>7. h.kind \in Makes => /\ \A t : ~TakesIn(Tail(s), t)
                          /\ \A u \in Parents(h.table) : ~MakesIn(Tail(s), u)
  BY <1>1, <1>3, <1>4 DEF LoneStep, TakesIn, MakesIn, Items
<1>8. h.kind = "remove" => /\ \A t : ~MakesIn(Tail(s), t)
                           /\ \A t : h.table \in Parents(t) => ~TakesIn(Tail(s), t)
  BY <1>1, <1>3, <1>4 DEF LoneStep, TakesIn, MakesIn, Items
<1>9. /\ \A t : MakesIn(s, t) <=> MakesIn(Tail(s), t) \/ (h.kind \in Makes /\ h.table = t)
      /\ \A t : TakesIn(s, t) <=> TakesIn(Tail(s), t) \/ (h.kind = "remove" /\ h.table = t)
  BY <1>1 DEF MakesIn, TakesIn
<1>. QED BY <1>5, <1>6, <1>7, <1>8, <1>9

(* One look, or one statement, of a lone run: V1 is left of what was V.     *)
Leaves(h, V, V1) ==
    \A t : Table(t) \in V1 <=>
        \/ h.kind \in Makes /\ t = h.table
        \/ Table(t) \in V /\ ~(h.kind = "remove" /\ t = h.table)

LEMMA LoneOn ==
    ASSUME NEW p, NEW c, NEW j \in JobType, j.steps # <<>>, NEW V, LoneSound(p, c, j, V),
           NEW h, h = Head(j.steps), h.kind # "inspect",
           NEW k \in JobType, k.steps = Tail(j.steps), k.names = j.names, k.spoilt = FALSE, NEW c1, c1 # "act",
           NEW V1, Leaves(h, V, V1)
    PROVE  LoneSound(p, c1, k, V1)
<1>. DEFINE s == j.steps
            r == k.steps
<1>0. s \in Seq(StepType) /\ r = Tail(s)
  BY DEF JobType
<1>1. /\ LonePlan(s)
      /\ \A i \in DOMAIN s : Span(s, i) => (s[i].table \in j.names <=> Table(s[i].table) \in V)
      /\ \A t \in Names : \A u \in Parents(t) : MakesIn(s, t) =>
            Table(u) \in V \/ MakesIn(s, u) \/ (u = "users" /\ p \in Admins)
      /\ \A t \in Tables : \A u \in Parents(t) : TakesIn(s, u) => Table(t) \notin V \/ TakesIn(s, t)
  BY DEF LoneSound
<1>. HIDE DEF s, r
<1>2. /\ LonePlan(r)
      /\ \A i \in DOMAIN r : Span(r, i) =>
            /\ i + 1 \in DOMAIN s /\ Span(s, i + 1) /\ r[i] = s[i + 1]
            /\ h.kind \in Makes \union {"remove"} => r[i].table # h.table
      /\ h.kind \in Makes => /\ \A t : ~TakesIn(r, t)
                             /\ \A u \in Parents(h.table) : ~MakesIn(r, u)
      /\ h.kind = "remove" => \A t : ~MakesIn(r, t)
      /\ \A t : MakesIn(s, t) <=> MakesIn(r, t) \/ (h.kind \in Makes /\ h.table = t)
      /\ \A t : TakesIn(s, t) <=> TakesIn(r, t) \/ (h.kind = "remove" /\ h.table = t)
  <2>1. s # <<>> /\ h = Head(s)
    BY DEF s
  <2>. QED BY <1>0, <1>1, <2>1, LoneTail
<1>3. ASSUME NEW i \in DOMAIN r, Span(r, i) PROVE r[i].table \in j.names <=> Table(r[i].table) \in V1
  <2>1. i + 1 \in DOMAIN s /\ Span(s, i + 1) /\ r[i] = s[i + 1] /\ (h.kind \in Makes \union {"remove"} => r[i].table # h.table)
    BY <1>2, <1>3
  <2>2. r[i].table \in j.names <=> Table(r[i].table) \in V
    BY <1>1, <2>1
  <2>3. Table(r[i].table) \in V1 <=> Table(r[i].table) \in V
    BY <2>1 DEF Leaves
  <2>. QED BY <2>2, <2>3
<1>4. ASSUME NEW t \in Names, NEW u \in Parents(t), MakesIn(r, t)
      PROVE  Table(u) \in V1 \/ MakesIn(r, u) \/ (u = "users" /\ p \in Admins)
  BY <1>1, <1>2, <1>4 DEF Leaves
<1>5. ASSUME NEW t \in Tables, NEW u \in Parents(t), TakesIn(r, u)
      PROVE  Table(t) \notin V1 \/ TakesIn(r, t)
  BY <1>1, <1>2, <1>5 DEF Leaves
<1>6. k.names = j.names
  OBVIOUS
<1>. QED BY <1>2, <1>3, <1>4, <1>5, <1>6 DEF LoneSound, r

LEMMA LoneInspect ==
    ASSUME NEW p, NEW c, NEW j \in JobType, j.steps # <<>>, NEW V, LoneSound(p, c, j, V),
           Head(j.steps).kind = "inspect",
           NEW k \in JobType, k.steps = Tail(j.steps), k.spoilt = FALSE, NEW c1, c1 # "act",
           k.names = {t \in Names : Table(t) \in V}
    PROVE  LoneSound(p, c1, k, V)
<1>. DEFINE s == j.steps
            r == k.steps
<1>0. s \in Seq(StepType) /\ r = Tail(s) /\ r \in Seq(StepType)
  BY DEF JobType
<1>1. /\ LonePlan(s)
      /\ \A t \in Names : \A u \in Parents(t) : MakesIn(s, t) =>
            Table(u) \in V \/ MakesIn(s, u) \/ (u = "users" /\ p \in Admins)
      /\ \A t \in Tables : \A u \in Parents(t) : TakesIn(s, u) => Table(t) \notin V \/ TakesIn(s, t)
  BY DEF LoneSound
<1>2. /\ LonePlan(r)
      /\ \A t : MakesIn(s, t) <=> MakesIn(r, t)
      /\ \A t : TakesIn(s, t) <=> TakesIn(r, t)
  BY <1>0, <1>1, LoneTail DEF Makes
<1>3. \A q \in Seq(StepType) : \A i \in DOMAIN q : q[i].table \in Names
  <2>1. \A q \in Seq(StepType) : \A i \in DOMAIN q : q[i] \in StepType
    OBVIOUS
  <2>. QED BY <2>1 DEF StepType
<1>. HIDE DEF r
<1>4. \A i \in DOMAIN r : r[i].table \in k.names <=> Table(r[i].table) \in V
  BY <1>0, <1>3
<1>. QED BY <1>1, <1>2, <1>4 DEF LoneSound, r

(* What kind of statement a lone process is about to begin.                 *)
LEMMA HeadPart ==
    ASSUME NEW p \in Procs, NEW c, c # "idle", NEW j \in JobType, j.steps # <<>>, NEW d, NEW v, Sound(p, c, j, d, v),
           NEW h, h = Head(j.steps)
    PROVE  /\ h.kind \in Makes => h.part = "table"
           /\ h.kind \in {"add", "drop"} => h.part # "table"
           /\ h.kind = "create" => p \in Admins /\ j.gone = {}
           /\ h = Create("stripe_events") => j.steps \in Seq(StepType) /\ Len(j.steps) = 3
<1>1. j.steps \in Seq(StepType) /\ h \in Items(j.steps) /\ h = j.steps[1] /\ 1 \in DOMAIN j.steps
  <2>1. j.steps \in Seq(StepType)
    BY DEF JobType
  <2>. QED BY <2>1, TailFacts
<1>2. Plan(p, c, j) /\ Course(p, c, j) /\ Change(p, c, j)
  BY DEF Sound
<1>3. CASE p \in Apps
  <2>1. h.kind \in {"inspect", "declare"} /\ h.part = "table"
    BY <1>1, <1>2, <1>3 DEF Plan, AppStep, Declare, Inspect, Step
  <2>. QED BY <2>1 DEF Makes, Create, Step
<1>4. CASE Up(p, c, j)
  <2>1. UpStep(j.steps, 1, j.at + 1)
    BY <1>1, <1>2, <1>4 DEF Plan, UpPlan
  <2>2. /\ h.kind \in {"inspect", "create", "add"} /\ (h.kind = "create" => h.part = "table")
        /\ h.kind = "add" => h.part # "table"
        /\ h = Create("stripe_events") => 1 + 2 = Len(j.steps)
    BY <1>1, <2>1 DEF UpStep
  <2>3. p \in Admins /\ ~Down(c, j)
    <3>1. j.base \in Int /\ j.target \in Int
      BY DEF JobType, Head4
    <3>. QED BY <1>4, <3>1 DEF Up, Down
  <2>. QED BY <1>1, <1>2, <2>2, <2>3 DEF Change, Makes
<1>5. CASE Down(c, j)
  <2>1. DownStep(h, j.target)
    BY <1>1, <1>2, <1>5 DEF Plan
  <2>. QED BY <2>1 DEF DownStep, Makes, Create, Step
<1>6. p \in Admins => Up(p, c, j) \/ Down(c, j)
  BY <1>2 DEF Course, Up, Down, Head4, JobType
<1>. QED BY <1>3, <1>4, <1>5, <1>6 DEF Procs

LEMMA LoneGoes ==
    ASSUME pc \in [Procs -> Places], job \in [Procs -> JobType], NEW p \in Procs, LoneAt(p), pc[p] # "idle",
           NEW c, NEW k, pc' = [pc EXCEPT ![p] = c], job' = [job EXCEPT ![p] = k],
           UNCHANGED <<db, version, outcome>>, k.base = job[p].base,
           LoneSound(p, c, k, (db \union k.own) \ k.gone)
    PROVE  LoneAt(p)'
<1>1. pc'[p] = c /\ job'[p] = k /\ \A q \in Procs \ {p} : pc'[q] = pc[q]
  OBVIOUS
<1>2. Visible(p)' = (db \union k.own) \ k.gone
  BY <1>1 DEF Visible
<1>3. \A q \in Procs \ {p} : pc'[q] = "idle"
  BY <1>1 DEF LoneAt
<1>4. outcome'[p] # "failed" /\ version' = k.base
  BY DEF LoneAt
<1>5. LoneSound(p, pc'[p], job'[p], Visible(p)')
  BY <1>1, <1>2
<1>. QED BY <1>1, <1>3, <1>4, <1>5 DEF LoneAt, LoneSound

LEMMA LoneEnds ==
    ASSUME pc \in [Procs -> Places], outcome \in [Procs -> {"none", "done", "failed"}], NEW p \in Procs, LoneAt(p),
           NEW how, Ends(p, how),
           how = "failed" => p \in Admins /\ Table("users") \notin db /\ db' = db
    PROVE  LoneAt(p)'
<1>1. pc'[p] = "idle" /\ outcome'[p] = how /\ \A q \in Procs \ {p} : pc'[q] = pc[q]
  BY DEF Ends
<1>2. \A q \in Procs \ {p} : pc'[q] = "idle"
  BY <1>1 DEF LoneAt
<1>. QED BY <1>1, <1>2 DEF LoneAt

(* A statement of a lone process finds what it needs, but for users.        *)
LEMMA LoneFits ==
    ASSUME NEW p \in Procs, job[p] \in JobType, job[p].steps # <<>>, Sound(p, "act", job[p], db, version),
           LoneSound(p, "act", job[p], Visible(p)), NEW h, h = Current(p)
    PROVE  ~Duplicate(p, h) /\ (Dangling(p, h) => p \in Admins /\ Table("users") \notin db)
<1>. DEFINE j == job[p]
            s == j.steps
            V == Visible(p)
<1>0. s \in Seq(StepType) /\ s # <<>> /\ h = Head(s) /\ h = s[1] /\ 1 \in DOMAIN s /\ h \in StepType /\ h.kind # "inspect"
  <2>1. s \in Seq(StepType) /\ h = Head(s) /\ Head(s).kind # "inspect"
    BY DEF JobType, Current, Sound, Place
  <2>. QED BY <2>1, TailFacts
<1>1. /\ Wants(j, V) /\ LonePlan(s)
      /\ \A i \in DOMAIN s : Span(s, i) => (s[i].table \in j.names <=> Table(s[i].table) \in V)
      /\ \A t \in Names : \A u \in Parents(t) : MakesIn(s, t) =>
            Table(u) \in V \/ MakesIn(s, u) \/ (u = "users" /\ p \in Admins)
      /\ \A t \in Tables : \A u \in Parents(t) : TakesIn(s, u) => Table(t) \notin V \/ TakesIn(s, t)
  BY DEF LoneSound
<1>2. h.table \in j.names <=> Table(h.table) \in V
  <2>1. Span(s, 1)
    <3>1. \A m \in DOMAIN s : m <= 1 => m = 1
      BY <1>0
    <3>. QED BY <1>0, <3>1 DEF Span
  <2>. QED BY <1>0, <1>1, <2>1
<1>3. /\ h.kind \in Makes => h.part = "table"
      /\ h.kind = "create" => p \in Admins /\ j.gone = {}
  BY <1>0, HeadPart
<1>3a. h.kind = "declare" => p \in Apps
  BY <1>0, TailFacts, UpHead DEF Sound, Plan, Course, Up, Down, DownStep, Procs, Head4, JobType
<1>t. \A t : Has(p, t) <=> Table(t) \in V
  BY DEF Has, Table
<1>. HIDE DEF j, s, V
<1>4. /\ h.kind \in Makes  => Table(h.table) \notin V
      /\ h.kind = "remove" => Table(h.table) \in V
      /\ h.kind = "add"    => Table(h.table) \in V /\ <<h.table, h.part>> \notin V
      /\ h.kind = "drop"   => <<h.table, h.part>> \in V
  BY <1>0, <1>1, <1>2 DEF Wants, s
<1>5. ~Duplicate(p, h)
  BY <1>3, <1>4 DEF Duplicate, Makes, V, Table
<1>6. ASSUME h.kind \in Makes, NEW u \in Parents(h.table), Table(u) \notin V
      PROVE  p \in Admins /\ Table("users") \notin db
  <2>1. MakesIn(s, h.table) /\ h.table \in Names
    BY <1>0, <1>6 DEF MakesIn, Items, StepType
  <2>2. ~MakesIn(s, u)
    BY <1>0, <1>1, <1>6, LoneTail, ParentsAre
  <2>3. u = "users" /\ p \in Admins
    BY <1>1, <1>6, <2>1, <2>2
  <2>4. p \notin Apps
    BY <2>3, ProcAssumption
  <2>5. j.gone = {}
    BY <1>3, <1>3a, <1>6, <2>4 DEF Makes
  <2>. QED BY <1>6, <2>3, <2>5 DEF V, j, Visible
<1>7. ASSUME h.kind = "remove", NEW t \in Tables, Table(t) \in V, h.table \in Parents(t) PROVE FALSE
  <2>1. TakesIn(s, h.table)
    BY <1>0, <1>7 DEF TakesIn, Items
  <2>2. ~TakesIn(s, t)
    BY <1>0, <1>1, <1>7, LoneTail, ParentsAre
  <2>. QED BY <1>1, <1>7, <2>1, <2>2
<1>8. Dangling(p, h) => p \in Admins /\ Table("users") \notin db
  <2>1. CASE h.kind \in Makes
    BY <1>6, <1>t, <2>1 DEF Dangling, Makes
  <2>2. CASE h.kind = "add"
    BY <1>4, <1>t, <2>2 DEF Dangling
  <2>3. CASE h.kind = "drop"
    BY <1>4, <2>3 DEF Dangling, V
  <2>4. CASE h.kind = "remove"
    BY <1>4, <1>7, <1>t, <2>4 DEF Dangling
  <2>. QED BY <1>0, <2>1, <2>2, <2>3, <2>4 DEF StepType, Kinds, Makes
<1>. QED BY <1>5, <1>8

(* The tables that are there after a statement.                             *)
LEMMA DoneTables ==
    ASSUME NEW p \in Procs, NEW c, c # "idle", NEW j \in JobType, j.steps # <<>>, Sound(p, c, j, db, version),
           db \subseteq Objects, NEW h, h = Head(j.steps), h.kind # "inspect"
    PROVE  Leaves(h, (db \union j.own) \ j.gone, (db \union Done(j, h).own) \ Done(j, h).gone)
<1>. USE DEF Leaves
<1>0. h \in StepType /\ j.own \subseteq Objects /\ j.gone \subseteq Objects
  <2>1. j.steps \in Seq(StepType)
    BY DEF JobType
  <2>. QED BY <2>1, TailFacts DEF JobType
<1>1. /\ h.kind \in Makes => h.part = "table"
      /\ h.kind \in {"add", "drop"} => h.part # "table"
  BY HeadPart
<1>2. CASE h.kind = "declare"
  <2>1. \A t : Table(t) \in Declared(h.table) <=> t = h.table
    BY DEF Declared, Table, UsersParts, PrefsParts, PushParts
  <2>2. Done(j, h).own = j.own \union Declared(h.table) /\ Done(j, h).gone = j.gone \ Declared(h.table)
    BY <1>2 DEF Done, JobType
  <2>. QED BY <1>2, <2>1, <2>2 DEF Makes
<1>3. CASE h.kind \in {"create", "add"}
  <2>1. \A t : Table(t) = <<h.table, h.part>> <=> t = h.table /\ h.part = "table"
    BY DEF Table
  <2>2. Done(j, h).own = j.own \union {<<h.table, h.part>>} /\ Done(j, h).gone = j.gone \ {<<h.table, h.part>>}
    BY <1>3 DEF Done, JobType
  <2>. QED BY <1>1, <1>3, <2>1, <2>2 DEF Makes
<1>4. CASE h.kind = "drop"
  <2>1. \A t : Table(t) # <<h.table, h.part>>
    BY <1>1, <1>4 DEF Table
  <2>2. /\ Done(j, h).own = j.own \ {<<h.table, h.part>>}
        /\ Done(j, h).gone = j.gone \union ({<<h.table, h.part>>} \intersect db)
    BY <1>4 DEF Done, JobType
  <2>. QED BY <1>4, <2>1, <2>2 DEF Makes
<1>5. CASE h.kind = "remove"
  <2>. DEFINE all == {h.table} \X {o[2] : o \in Objects}
  <2>1. \A t : Table(t) \in all <=> t = h.table
    <3>1. \A t : Table(t) \in all => t = h.table
      BY DEF Table
    <3>2. Table(h.table) \in Objects /\ Table(h.table)[2] = "table"
      BY <1>0, ObjectsAre DEF StepType, PartNames, Table
    <3>3. Table(h.table) \in all
      BY <3>2 DEF Table
    <3>. QED BY <3>1, <3>3
  <2>2. Done(j, h).own = j.own \ all /\ Done(j, h).gone = j.gone \union (all \intersect db)
    BY <1>5 DEF Done, JobType
  <2>. HIDE DEF all
  <2>. QED BY <1>5, <2>1, <2>2 DEF Makes
<1>. QED BY <1>0, <1>2, <1>3, <1>4, <1>5 DEF StepType, Kinds

LEMMA LoneActs ==
    ASSUME SchemaInv, SchemaInv', NEW p \in Procs, LoneAt(p), pc[p] # "idle", Act(p)
    PROVE  LoneAt(p)'
<1>. DEFINE j == job[p]
            h == Current(p)
            V == Visible(p)
<1>0. /\ pc[p] = "act" /\ j \in JobType /\ Sound(p, "act", j, db, version) /\ db \subseteq Objects
      /\ pc \in [Procs -> Places] /\ job \in [Procs -> JobType] /\ outcome \in [Procs -> {"none", "done", "failed"}]
  BY DEF SchemaInv, Typed, TypeOk, Act, Places
<1>1. /\ j.steps # <<>> /\ j.steps \in Seq(StepType) /\ h = Head(j.steps) /\ h.kind # "inspect"
      /\ Tail(j.steps) \in Seq(StepType) /\ LoneSound(p, "act", j, V) /\ j.spoilt = FALSE
  <2>1. j.steps # <<>> /\ j.steps \in Seq(StepType) /\ Head(j.steps).kind # "inspect"
    BY <1>0 DEF Sound, Place, JobType
  <2>. QED BY <1>0, <2>1, TailFacts DEF Current, LoneAt, LoneSound
<1>2. ~Duplicate(p, h) /\ (Dangling(p, h) => p \in Admins /\ Table("users") \notin db)
  BY <1>0, <1>1, LoneFits
<1>3. CASE Dangling(p, h) /\ Fails(p)
  BY <1>0, <1>2, <1>3, LoneEnds DEF Fails
<1>4. CASE Continues(p, Done(j, h), Tail(j.steps)) /\ UNCHANGED <<db, version, history>>
  <2>. DEFINE k == [Done(j, h) EXCEPT !.steps = Tail(j.steps)]
              c == After(Done(j, h), Tail(j.steps))
              V1 == (db \union k.own) \ k.gone
  <2>1. pc' = [pc EXCEPT ![p] = c] /\ job' = [job EXCEPT ![p] = k]
    BY <1>4 DEF Continues
  <2>2. k \in JobType
    <3>1. job'[p] = k
      BY <1>0, <2>1
    <3>. HIDE DEF k
    <3>. QED BY <3>1 DEF SchemaInv, Typed
  <2>3. /\ k.steps = Tail(j.steps) /\ k.names = j.names /\ k.spoilt = FALSE /\ k.base = j.base
        /\ k.own = Done(j, h).own /\ k.gone = Done(j, h).gone
    <3>. DEFINE To(own, gone) == [j EXCEPT !.own = own, !.gone = gone]
                Kept(r) == LET x == [r EXCEPT !.steps = Tail(j.steps)] IN
                           /\ x.steps = Tail(j.steps) /\ x.names = j.names /\ x.spoilt = FALSE /\ x.base = j.base
                           /\ x.own = r.own /\ x.gone = r.gone
                o   == <<h.table, h.part>>
                all == {h.table} \X {x[2] : x \in Objects}
    <3>1. \A own, gone : Kept(To(own, gone))
      BY <1>0, <1>1 DEF JobType
    <3>2. h.kind \in Kinds \ {"inspect"}
      BY <1>1, TailFacts DEF StepType
    <3>3. \/ Done(j, h) = To(j.own \union Declared(h.table), j.gone \ Declared(h.table))
          \/ Done(j, h) = To(j.own \union {o}, j.gone \ {o})
          \/ Done(j, h) = To(j.own \ {o}, j.gone \union ({o} \intersect db))
          \/ Done(j, h) = To(j.own \ all, j.gone \union (all \intersect db))
      BY <3>2 DEF Done, Kinds
    <3>. HIDE DEF To, Kept, o, all
    <3>4. Kept(Done(j, h))
      BY <3>1, <3>3
    <3>. QED BY <3>4 DEF Kept
  <2>4. c # "act"
    BY DEF After
  <2>. HIDE DEF k, c, j, h
  <2>5. Leaves(h, V, V1)
    <3>1. Leaves(h, (db \union j.own) \ j.gone, (db \union Done(j, h).own) \ Done(j, h).gone)
      BY <1>0, <1>1, DoneTables
    <3>2. V = (db \union j.own) \ j.gone
      BY DEF Visible, j
    <3>. QED BY <2>3, <3>1, <3>2
  <2>. HIDE DEF V1, V
  <2>6. LoneSound(p, c, k, V1)
    BY <1>0, <1>1, <2>2, <2>3, <2>4, <2>5, LoneOn
  <2>7. UNCHANGED <<db, version, outcome>>
    BY <1>4 DEF history
  <2>8. LoneSound(p, c, k, (db \union k.own) \ k.gone)
    BY <2>6 DEF V1
  <2>. QED BY <1>0, <2>1, <2>3, <2>7, <2>8, LoneGoes DEF j
<1>. QED BY <1>2, <1>3, <1>4 DEF Act

LEMMA LoneLooks ==
    ASSUME SchemaInv, SchemaInv', NEW p \in Procs, LoneAt(p), pc[p] # "idle", Look(p)
    PROVE  LoneAt(p)'
<1>. DEFINE j == job[p]
            h == Current(p)
            V == Visible(p)
<1>0. /\ pc[p] = "look" /\ j \in JobType /\ Sound(p, "look", j, db, version)
      /\ pc \in [Procs -> Places] /\ job \in [Procs -> JobType]
  BY DEF SchemaInv, Typed, TypeOk, Look, Places
<1>1. /\ j.steps # <<>> /\ j.steps \in Seq(StepType) /\ h = Head(j.steps) /\ h \in StepType
      /\ Tail(j.steps) \in Seq(StepType) /\ LoneSound(p, "look", j, V) /\ j.spoilt = FALSE
  <2>1. j.steps # <<>> /\ j.steps \in Seq(StepType)
    BY <1>0 DEF Sound, Place, JobType
  <2>. QED BY <1>0, <2>1, TailFacts DEF Current, LoneAt, LoneSound
<1>v. V = (db \union j.own) \ j.gone
  BY DEF Visible
<1>2. CASE h.kind = "inspect"
  <2>. DEFINE names == {t \in Tables \union {"alembic_version"} : Has(p, t)}
              k == [[j EXCEPT !.names = names] EXCEPT !.steps = Tail(j.steps)]
              c == After([j EXCEPT !.names = names], Tail(j.steps))
  <2>1. pc' = [pc EXCEPT ![p] = c] /\ job' = [job EXCEPT ![p] = k] /\ UNCHANGED <<db, version, outcome>>
    BY <1>1, <1>2 DEF Look, Continues, history
  <2>2. names = {t \in Names : Table(t) \in V}
    BY DEF Has, Names, Table
  <2>. HIDE DEF names, V
  <2>3. k \in JobType
    <3>1. job'[p] = k
      BY <1>0, <2>1
    <3>. HIDE DEF k
    <3>. QED BY <3>1 DEF SchemaInv, Typed
  <2>4. /\ k.steps = Tail(j.steps) /\ k.names = names /\ k.spoilt = FALSE /\ k.base = j.base
        /\ k.own = j.own /\ k.gone = j.gone
    BY <1>0, <1>1 DEF JobType
  <2>5. c # "act"
    BY DEF After
  <2>. HIDE DEF k, c
  <2>6. LoneSound(p, c, k, V)
    BY <1>0, <1>1, <1>2, <2>2, <2>3, <2>4, <2>5, LoneInspect
  <2>. QED BY <1>0, <1>v, <2>1, <2>4, <2>6, LoneGoes
<1>3. CASE h.kind # "inspect" /\ Wanted(p, h)
  <2>1. pc' = [pc EXCEPT ![p] = "act"] /\ UNCHANGED <<db, version, job, outcome>>
    BY <1>1, <1>3 DEF Look, history
  <2>2. job' = [job EXCEPT ![p] = j]
    BY <1>0, <2>1
  <2>3. Wants(j, V)
    BY <1>1, <1>3 DEF Wanted, Wants, Makes, StepType, Kinds
  <2>4. LoneSound(p, "act", j, V)
    BY <1>1, <2>3 DEF LoneSound
  <2>. HIDE DEF j, V
  <2>. QED BY <1>0, <1>v, <2>1, <2>2, <2>4, LoneGoes DEF j
<1>4. CASE h.kind # "inspect" /\ ~Wanted(p, h)
  <2>. DEFINE k == [j EXCEPT !.steps = Skip(h, j.steps)]
              c == After(j, Skip(h, j.steps))
  <2>1. pc' = [pc EXCEPT ![p] = c] /\ job' = [job EXCEPT ![p] = k] /\ UNCHANGED <<db, version, outcome>>
    BY <1>1, <1>4 DEF Look, Continues, history
  <2>2. k \in JobType
    <3>1. job'[p] = k
      BY <1>0, <2>1
    <3>. HIDE DEF k
    <3>. QED BY <3>1 DEF SchemaInv, Typed
  <2>3. /\ k.steps = Skip(h, j.steps) /\ k.names = j.names /\ k.spoilt = FALSE /\ k.base = j.base
        /\ k.own = j.own /\ k.gone = j.gone
    BY <1>0, <1>1 DEF JobType
  <2>4. c # "act"
    BY DEF After
  <2>. HIDE DEF k, c
  <2>5. LoneSound(p, c, k, V)
    <3>1. CASE h = Create("stripe_events")
      <4>1. Len(j.steps) = 3
        BY <1>0, <1>1, <3>1, HeadPart
      <4>2. Skip(h, j.steps) = <<>>
        BY <1>1, <3>1, <4>1 DEF Skip
      <4>. QED BY <2>3, <2>4, <4>2, EmptyLone
    <3>2. CASE h # Create("stripe_events")
      <4>1. k.steps = Tail(j.steps)
        BY <2>3, <3>2 DEF Skip
      <4>2. /\ h.kind \in Makes  => h.table \in j.names
            /\ h.kind = "remove" => h.table \notin j.names
        BY <1>4 DEF Wanted, Makes
      <4>3. h.table \in j.names <=> Table(h.table) \in V
        <5>1. Span(j.steps, 1) /\ 1 \in DOMAIN j.steps /\ j.steps[1] = h
          <6>1. j.steps[1] = h /\ 1 \in DOMAIN j.steps /\ \A m \in DOMAIN j.steps : m <= 1 => m = 1
            BY <1>1
          <6>. QED BY <1>4, <6>1 DEF Span
        <5>. QED BY <1>1, <5>1 DEF LoneSound
      <4>4. Leaves(h, V, V)
        BY <4>2, <4>3 DEF Leaves
      <4>. HIDE DEF j, h, V
      <4>. QED BY <1>0, <1>1, <1>4, <2>2, <2>3, <2>4, <4>1, <4>4, LoneOn
    <3>. QED BY <3>1, <3>2
  <2>. HIDE DEF V
  <2>. QED BY <1>0, <1>v, <2>1, <2>3, <2>5, LoneGoes
<1>. QED BY <1>2, <1>3, <1>4

LEMMA LoneStamps ==
    ASSUME SchemaInv, SchemaInv', NEW p \in Procs, LoneAt(p), pc[p] # "idle", Stamp(p)
    PROVE  LoneAt(p)'
<1>. DEFINE j  == job[p]
            to == IF j.at < j.target THEN j.at + 1 ELSE j.at - 1
            steps == IF to = j.target THEN <<>> ELSE Migration(to, j.target)
            k  == [[j EXCEPT !.at = to] EXCEPT !.steps = steps]
            c  == After([j EXCEPT !.at = to], steps)
<1>0. /\ pc[p] = "stamp" /\ j \in JobType /\ Sound(p, "stamp", j, db, version)
      /\ pc \in [Procs -> Places] /\ job \in [Procs -> JobType]
      /\ version = j.base /\ j.spoilt = FALSE
  BY DEF SchemaInv, Typed, TypeOk, Stamp, Places, LoneAt, LoneSound
<1>1. j.at \in 0..4 /\ j.target \in 0..4 /\ j.at # j.target
  BY <1>0 DEF JobType, Sound, Place, Head4
<1>2. p \in Admins
  BY <1>0, <1>1 DEF Sound, Course, Procs
<1>3. pc' = [pc EXCEPT ![p] = c] /\ job' = [job EXCEPT ![p] = k] /\ UNCHANGED <<db, version, outcome>>
  BY <1>0 DEF Stamp, Continues, history
<1>4. c # "act"
  BY DEF After
<1>5. steps = <<>> \/ Whole(steps, {"users"})
  <2>1. to # j.target => to \in 0..3 /\ to \in 1..4
    BY <1>1
  <2>2. (\A v \in 0..3 : Whole(Upgrades[v + 1], {"users"})) /\ \A v \in 1..4 : Whole(Downgrades[v], {"users"})
    BY WholeUpgrades, WholeDowngrades DEF Head4
  <2>. HIDE DEF to, j
  <2>. QED BY <2>1, <2>2 DEF Migration
<1>. HIDE DEF to, steps
<1>6. k.steps = steps /\ k.spoilt = FALSE /\ k.base = j.base
  BY <1>0 DEF JobType
<1>. HIDE DEF k, c
<1>7. LoneSound(p, c, k, (db \union k.own) \ k.gone)
  <2>1. CASE steps = <<>>
    BY <1>4, <1>6, <2>1, EmptyLone
  <2>2. CASE Whole(steps, {"users"})
    <3>1. {"users"} \in SUBSET {"users"}
      OBVIOUS
    <3>. QED BY <1>2, <1>4, <1>6, <2>2, <3>1, WholeLone
  <2>. QED BY <1>5, <2>1, <2>2
<1>. QED BY <1>0, <1>3, <1>6, <1>7, LoneGoes

LEMMA LoneStarts ==
    ASSUME SchemaInv, NEW p \in Procs, Start(p)
    PROVE  LoneInv'
<1>0. version \in 0..Head4 /\ pc \in [Procs -> Places] /\ job \in [Procs -> JobType]
      /\ outcome \in [Procs -> {"none", "done", "failed"}]
  BY DEF SchemaInv, Typed, TypeOk, Places
<1>1. ASSUME NEW steps, NEW target, Begins(p, steps, target),
             NEW free \in SUBSET {"users"}, free # {} => p \in Admins, Whole(steps, free)
      PROVE  LoneInv'
  <2>. DEFINE k == [NoJob EXCEPT !.steps = steps, !.base = version, !.at = version, !.target = target]
              c == After(k, steps)
  <2>1. /\ pc' = [pc EXCEPT ![p] = c] /\ job' = [job EXCEPT ![p] = k] /\ UNCHANGED <<db, version>>
        /\ outcome' = [outcome EXCEPT ![p] = "none"]
        /\ lone' = IF \A q \in Procs \ {p} : pc[q] = "idle" THEN {p} ELSE {}
    BY <1>1 DEF Begins
  <2>2. k.steps = steps /\ k.base = version /\ k.spoilt = FALSE
    BY DEF NoJob
  <2>3. c # "act"
    BY DEF After
  <2>. HIDE DEF k, c
  <2>4. LoneSound(p, c, k, Visible(p)')
    BY <1>1, <2>2, <2>3, WholeLone
  <2>5. pc'[p] = c /\ job'[p] = k /\ outcome'[p] = "none" /\ \A q \in Procs \ {p} : pc'[q] = pc[q]
    BY <1>0, <2>1
  <2>6. ASSUME lone' = {p}, \A q \in Procs \ {p} : pc[q] = "idle" PROVE LoneAt(p)'
    <3>1. LoneSound(p, pc'[p], job'[p], Visible(p)')
      BY <2>4, <2>5
    <3>2. version' = job'[p].base
      BY <2>1, <2>2, <2>5
    <3>. QED BY <2>5, <2>6, <3>1, <3>2 DEF LoneAt, LoneSound
  <2>7. lone' = {} \/ (lone' = {p} /\ \A q \in Procs \ {p} : pc[q] = "idle")
    BY <2>1
  <2>. QED BY <2>6, <2>7 DEF LoneInv
<1>u. {} \in SUBSET {"users"} /\ {"users"} \in SUBSET {"users"}
  OBVIOUS
<1>2. CASE StartUpgrade(p)
  <2>. DEFINE s == (IF version = 0 THEN VersionTable ELSE <<>>) \o Migration(version, Head4)
  <2>1. p \in Admins /\ version \in 0..3 /\ Begins(p, s, Head4)
    BY <1>0, <1>2 DEF StartUpgrade, Head4
  <2>2. Migration(version, Head4) = Upgrades[version + 1] /\ Whole(Upgrades[version + 1], {"users"})
    BY <2>1, WholeUpgrades DEF Migration, Head4
  <2>3. Whole(s, {"users"})
    <3>1. CASE version = 0
      BY <2>2, <3>1, WholeUpgrades DEF Upgrades
    <3>2. CASE version # 0
      <4>1. \A r \in Seq(StepType) : <<>> \o r = r
        OBVIOUS
      <4>2. Upgrades[version + 1] \in Seq(StepType)
        BY <2>2 DEF Whole
      <4>3. s = Upgrades[version + 1]
        BY <2>2, <3>2, <4>1, <4>2
      <4>. HIDE DEF s
      <4>. QED BY <2>2, <4>3
    <3>. QED BY <3>1, <3>2
  <2>. HIDE DEF s
  <2>. QED BY <1>1, <1>u, <2>1, <2>3
<1>3. CASE StartApp(p)
  <2>1. p \in Apps /\ Begins(p, CreateAll, version)
    BY <1>3 DEF StartApp
  <2>. QED BY <1>1, <1>u, <2>1, WholeCreateAll
<1>4. ASSUME NEW target \in 0..Head4, StartDowngrade(p, target)
      PROVE  LoneInv'
  <2>1. p \in Admins /\ version \in 1..Head4 /\ Begins(p, Migration(version, target), target) /\ target < version
    BY <1>0, <1>4 DEF StartDowngrade, Head4
  <2>2. Migration(version, target) = Downgrades[version]
    BY <2>1 DEF Migration, Head4
  <2>. QED BY <1>1, <1>u, <2>1, <2>2, WholeDowngrades
<1>. QED BY <1>2, <1>3, <1>4 DEF Start

(* A process that nothing runs beside is no one's victim.                   *)
LEMMA LoneStepKeeps ==
    ASSUME SchemaInv, SchemaInv', LoneInv, NEW p \in Procs, Run(p) \/ ((Start(p) \/ Kill(p)) /\ Queue(p))
    PROVE  LoneInv'
<1>0. /\ pc \in [Procs -> Places] /\ outcome \in [Procs -> {"none", "done", "failed"}]
  BY DEF SchemaInv, Typed, TypeOk, Places
<1>1. CASE Start(p)
  BY <1>1, LoneStarts
<1>2. CASE Run(p) \/ Kill(p)
  <2>1. pc[p] # "idle"
    BY <1>2 DEF Run, Look, Act, Stamp, Commit, Victim, Kill, Deadlocked, Blockers, Needs
  <2>2. lone' = lone
    BY <1>2 DEF Run, Look, Act, Stamp, Commit, Victim, Kill, Fails, history
  <2>3. lone \subseteq {p}
    BY <2>1 DEF LoneInv, LoneAt
  <2>. SUFFICES ASSUME p \in lone PROVE LoneAt(p)'
    BY <2>2, <2>3 DEF LoneInv
  <2>4. LoneAt(p)
    BY DEF LoneInv
  <2>5. CASE Look(p)
    BY <2>1, <2>4, <2>5, LoneLooks
  <2>6. CASE Act(p)
    BY <2>1, <2>4, <2>6, LoneActs
  <2>7. CASE Stamp(p)
    BY <2>1, <2>4, <2>7, LoneStamps
  <2>8. CASE Commit(p)
    BY <1>0, <2>4, <2>8, LoneEnds DEF Commit
  <2>9. CASE Kill(p)
    BY <1>0, <2>4, <2>9, LoneEnds DEF Kill
  <2>10. ~Victim(p)
    <3>. SUFFICES ASSUME NEW q \in Blockers(p), \/ p \in Blockers(q)
                                                \/ \E r \in Blockers(q) : p \in Blockers(r) PROVE FALSE
      BY DEF Victim, Deadlocked
    <3>1. q \in Procs \ {p} /\ pc[q] = "idle"
      BY <2>4 DEF Blockers, LoneAt
    <3>2. Blockers(q) = {}
      BY <3>1 DEF Blockers, Needs
    <3>. QED BY <3>2
  <2>. QED BY <1>2, <2>5, <2>6, <2>7, <2>8, <2>9, <2>10 DEF Run
<1>. QED BY <1>1, <1>2

(* A migration or a start that nothing overlaps fails at most on a database *)
(* that has no users yet.                                                   *)
THEOREM LoneSucceeds == Spec => []LoneRunSucceeds
<1>1. Init => LoneInv
  BY DEF Init, LoneInv
<1>2. SchemaInv /\ SchemaInv' /\ LoneInv /\ [Next]_vars => LoneInv'
  <2>. SUFFICES ASSUME SchemaInv, SchemaInv', LoneInv, [Next]_vars PROVE LoneInv'
    OBVIOUS
  <2>1. CASE UNCHANGED vars
    <3>1. db' = db /\ version' = version /\ pc' = pc /\ job' = job /\ lone' = lone /\ outcome' = outcome
      BY <2>1 DEF vars, history
    <3>2. \A p : Visible(p)' = Visible(p)
      BY <3>1 DEF Visible
    <3>. QED BY <3>1, <3>2 DEF LoneInv, LoneAt, LoneSound
  <2>2. CASE Next
    BY <2>2, LoneStepKeeps DEF Next
  <2>. QED BY <2>1, <2>2
<1>3. LoneInv => LoneRunSucceeds
  BY DEF LoneInv, LoneAt, LoneRunSucceeds, Table
<1>. QED BY SchemaInvariant, <1>1, <1>2, <1>3, PTL DEF Spec
=============================================================================
