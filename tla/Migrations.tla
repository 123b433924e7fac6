----------------------------- MODULE Migrations -----------------------------
(***************************************************************************)
(* The schema migrations of the database.  The backend runs them while it  *)
(* boots, and so does a trainer of an earlier release that outlived it, at *)
(* the moment it opens the database to record its run.  Python's driver    *)
(* opens a transaction before an INSERT or UPDATE only: what a migration   *)
(* creates before the first of them is committed statement by statement,   *)
(* the rest together with the version number.                              *)
(***************************************************************************)
EXTENDS Integers, Sequences

CONSTANTS
  Script,      \* the migrations in order, each a sequence of statements
  Backend,     \* the process that boots
  Trainers,    \* trainers of earlier releases that may still be alive
  NoProc,
  Releases,    \* the versions in which earlier releases left the database
  MaxDeaths,   \* bound: processes that are killed
  MaxLocks     \* bound: writes for which another program's lock lasts too long

Procs == Trainers \cup {Backend}
Last  == Len(Script)

\* A statement concerns a part of a table: "" is the table itself, "index" its
\* indexes, else a column or a filling of rows, which may use a column.
Statements ==
  [do : {"table", "index", "column", "write", "drop"},
   table : STRING, part : STRING, uses : STRING]

Makes(s) == IF s.do = "drop" THEN {} ELSE {<<s.table, s.part>>}
MadeBy(i) == UNION {Makes(Script[i][k]) : k \in 1 .. Len(Script[i])}
DroppedBy(i) ==
  {Script[i][k].table : k \in {l \in 1 .. Len(Script[i]) : Script[i][l].do = "drop"}}
Dropped == UNION {DroppedBy(i) : i \in 1 .. Last}

\* What a migration leaves for good, and what the database of a release holds.
Lasting(i) == {o \in MadeBy(i) : o[1] \notin Dropped}
Left(v) ==
  {o \in UNION {MadeBy(i) : i \in 1 .. v} : \A i \in 1 .. v : o[1] \notin DroppedBy(i)}

\* Columns are added to tables that an earlier statement created for good.
TableFirst ==
  \A i \in 1 .. Last : \A k \in 1 .. Len(Script[i]) :
    LET s == Script[i][k] IN
    s.do = "column" => s.part # "" /\ \E m \in 1 .. i : \E l \in 1 .. Len(Script[m]) :
      /\ m < i \/ l < k
      /\ Script[m][l].do = "table" /\ Makes(Script[m][l]) = {<<s.table, "">>}
      /\ s.table \notin Dropped

ASSUME MigrationsAssumption ==
  /\ Script \in Seq(Seq(Statements)) /\ TableFirst
  /\ Releases \subseteq 0 .. Last
  /\ NoProc \notin Procs
  /\ MaxDeaths \in Nat /\ MaxLocks \in Nat

VARIABLES
  version,   \* schema_version as committed; 0 is no row
  schema,    \* the parts that exist, as committed
  writer,    \* the process inside a transaction, or NoProc
  draft,     \* what that transaction has made of the schema
  proc,      \* per process its place in run_migrations
  runs,      \* history: how often each migration was committed
  skipped,   \* history: the columns that an ALTER TABLE failed to add for a lock
  deaths, locks

history == <<runs, skipped>>
vars == <<version, schema, writer, draft, proc, history, deaths, locks>>

Rest(pc)   == [pc |-> pc, at |-> 0, next |-> 0]

Migrate(i) == IF i > Last THEN Rest("ready") ELSE [pc |-> "run", at |-> i, next |-> 1]

Init ==
  /\ version \in Releases /\ schema = Left(version)
  /\ writer = NoProc /\ draft = {}
  /\ proc = [p \in Procs |-> IF p # Backend /\ version = 0 THEN Rest("gone") ELSE Rest("off")]
  /\ runs = [i \in 1 .. Last |-> 0] /\ skipped = {}
  /\ deaths = 0 /\ locks = 0

-----------------------------------------------------------------------------
(* A statement and its effect.                                             *)

More(p) == proc[p].pc = "run" /\ proc[p].next <= Len(Script[proc[p].at])
Statement(p) == Script[proc[p].at][proc[p].next]
Seen(p) == IF writer = p THEN draft ELSE schema

\* Faulty variant: an ALTER TABLE without the guard for the column that is there.
RaisesUnguarded(s, db) ==
  \/ s.do \in {"index", "write"} /\ ~ {<<s.table, "">>, <<s.table, s.uses>>} \subseteq db
  \/ s.do = "column" /\ Makes(s) \subseteq db

Raises(s, db) ==
  s.do \in {"index", "write"} /\ ~ {<<s.table, "">>, <<s.table, s.uses>>} \subseteq db

\* An ALTER TABLE that fails is taken to mean that the column is there.
After(s, db) ==
  CASE s.do = "drop" -> {o \in db : o[1] # s.table}
    [] s.do = "column" /\ <<s.table, "">> \notin db -> db
    [] OTHER -> db \cup Makes(s)

Execute(p) ==
  /\ More(p) /\ writer \in {NoProc, p}
  /\ ~ Raises(Statement(p), Seen(p))
  /\ proc' = [proc EXCEPT ![p].next = @ + 1]
  /\ IF writer = p \/ Statement(p).do = "write"
       THEN writer' = p /\ draft' = After(Statement(p), Seen(p)) /\ schema' = schema
       ELSE schema' = After(Statement(p), schema) /\ UNCHANGED <<writer, draft>>
  /\ UNCHANGED <<version, history, deaths, locks>>

-----------------------------------------------------------------------------
(* run_migrations.                                                         *)

Start(p) ==
  /\ proc[p].pc = "off"
  /\ proc' = [proc EXCEPT ![p] = Migrate(version + 1)]
  /\ UNCHANGED <<version, schema, writer, draft, history, deaths, locks>>

\* Faulty variant: the version is committed apart from what the migration wrote.
CommitVersion(p) ==
  /\ proc[p].pc = "run" /\ ~ More(p) /\ writer \in {NoProc, p}
  /\ version' = proc[p].at /\ schema' = schema
  /\ writer' = NoProc /\ draft' = {}
  /\ runs' = [runs EXCEPT ![proc[p].at] = @ + 1]
  /\ proc' = [proc EXCEPT ![p] = Migrate(proc[p].at + 1)]
  /\ UNCHANGED <<skipped, deaths, locks>>

Commit(p) ==
  /\ proc[p].pc = "run" /\ ~ More(p) /\ writer \in {NoProc, p}
  /\ version' = proc[p].at /\ schema' = Seen(p)
  /\ writer' = NoProc /\ draft' = {}
  /\ runs' = [runs EXCEPT ![proc[p].at] = @ + 1]
  /\ proc' = [proc EXCEPT ![p] = Migrate(proc[p].at + 1)]
  /\ UNCHANGED <<skipped, deaths, locks>>

\* The connection is closed without a commit.
Rollback(p) == IF writer = p THEN writer' = NoProc /\ draft' = {} ELSE UNCHANGED <<writer, draft>>

Raise(p) ==
  /\ More(p) /\ writer \in {NoProc, p} /\ Raises(Statement(p), Seen(p))
  /\ proc' = [proc EXCEPT ![p] = Rest("failed")] /\ Rollback(p)
  /\ UNCHANGED <<version, schema, history, deaths, locks>>

\* The busy time-out passes: an ALTER TABLE is skipped, all else raises.
TimesOut(p) ==
  /\ proc[p].pc = "run" /\ writer # p /\ locks < MaxLocks
  /\ locks' = locks + 1
  /\ IF More(p) /\ Statement(p).do = "column"
       THEN /\ proc' = [proc EXCEPT ![p].next = @ + 1]
            /\ skipped' = skipped \cup Makes(Statement(p))
       ELSE proc' = [proc EXCEPT ![p] = Rest("failed")] /\ skipped' = skipped
  /\ UNCHANGED <<version, schema, writer, draft, runs, deaths>>

\* A process is killed; the supervisor starts the backend again.
Die(p) ==
  /\ proc[p].pc \in {"run", "ready", "failed"} /\ deaths < MaxDeaths
  /\ deaths' = deaths + 1
  /\ proc' = [proc EXCEPT ![p] = IF p = Backend THEN Rest("off") ELSE Rest("gone")]
  /\ Rollback(p)
  /\ UNCHANGED <<version, schema, history, locks>>

Step(p) == Start(p) \/ Execute(p) \/ Commit(p) \/ Raise(p)
Next == \E p \in Procs : Step(p) \/ TimesOut(p) \/ Die(p)

Spec == Init /\ [][Next]_vars
LiveSpec == Spec /\ \A p \in Procs : WF_vars(Step(p))

-----------------------------------------------------------------------------
(* Properties.                                                             *)

TypeOK ==
  /\ version \in 0 .. Last /\ writer \in Procs \cup {NoProc}
  /\ \A p \in Procs : proc[p].pc = "run" =>
       proc[p].at \in 1 .. Last /\ proc[p].next \in 1 .. Len(Script[proc[p].at]) + 1
  /\ runs \in [1 .. Last -> Nat] /\ deaths \in 0 .. MaxDeaths /\ locks \in 0 .. MaxLocks

\* A database at version n has all that the migrations up to n were to leave in
\* it, however often they were cut short or run by two processes at once, but
\* for the columns skipped for a lock; a process that has got through them
\* (run_migrations) has it all.
SchemaComplete ==
  LET has == schema \cup skipped IN
  /\ \A i \in 1 .. version : Lasting(i) \subseteq has
  /\ \A p \in Procs : proc[p].pc = "ready" => \A i \in 1 .. Last : Lasting(i) \subseteq has

\* Each migration is committed once per database ("exactly once", _migrate_v17).
AppliedOnce == \A i \in 1 .. Last : runs[i] <= 1

\* The backend gets up unless a lock outlasts the busy time-out: no statement of a
\* migration that was cut short or overtaken fails when it is run again.
BootEnds == <>[](proc[Backend].pc = "ready" \/ locks > 0)
=============================================================================
