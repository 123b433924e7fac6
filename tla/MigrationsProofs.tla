-------------------------- MODULE MigrationsProofs --------------------------
(***************************************************************************)
(* Machine-checked proofs about Migrations, for any script in which tables *)
(* come before their columns, any processes, deaths and releases: the      *)
(* version never promises more than the database holds, and a process that *)
(* is alone commits each migration once.                                   *)
(***************************************************************************)
EXTENDS Migrations, TLAPS

\* The database has what the statements before statement k of migration i make
\* for good.
Covered(i, k, db) ==
  \A m \in 1 .. Last : \A l \in 1 .. Len(Script[m]) :
    m < i \/ (m = i /\ l < k) =>
      \A o \in Makes(Script[m][l]) : o[1] \notin Dropped => o \in db

ProcOK ==
  proc \in [Procs -> [pc : {"off", "run", "ready", "failed", "gone"}, at : Int, next : Int]]

\* The process in a transaction is at work, and has dropped nothing that lasts.
Kept ==
  writer # NoProc =>
    /\ proc[writer].pc = "run"
    /\ \A o \in schema : o[1] \notin Dropped => o \in draft

\* Only columns are skipped.
ColumnsOnly(sk) == \A o \in sk : o[2] # ""

\* What each process has been through is there, in its transaction at least, or
\* is a column skipped for a lock.
Reached ==
  /\ ColumnsOnly(skipped)
  /\ Covered(version + 1, 1, schema \cup skipped)
  /\ \A p \in Procs :
       /\ proc[p].pc = "run" => Covered(proc[p].at, proc[p].next, Seen(p) \cup skipped)
       /\ proc[p].pc = "ready" => Covered(Last + 1, 1, schema \cup skipped)

Inv == TypeOK /\ ProcOK /\ Kept /\ Reached

-----------------------------------------------------------------------------
(* Statements.                                                             *)

LEMMA ScriptTypes ==
  /\ Last \in Nat
  /\ \A i \in 1 .. Last : Len(Script[i]) \in Nat
  /\ \A i \in 1 .. Last : \A k \in 1 .. Len(Script[i]) : Script[i][k] \in Statements
  <1>1. Script \in Seq(Seq(Statements))
    BY MigrationsAssumption
  <1>2. \A i \in 1 .. Last : Script[i] \in Seq(Statements)
    BY <1>1 DEF Last
  <1> QED
    BY <1>1, <1>2 DEF Last

\* A statement takes away only what the script drops.
LEMMA AfterKeeps ==
  ASSUME NEW i \in 1 .. Last, NEW k \in 1 .. Len(Script[i]), NEW db,
         NEW o \in db, o[1] \notin Dropped
  PROVE  o \in After(Script[i][k], db)
  <1>1. Script[i][k].do = "drop" => Script[i][k].table \in Dropped
    BY DEF Dropped, DroppedBy
  <1> QED
    BY <1>1 DEF After

\* A statement that does not raise makes what it should.
LEMMA AfterMakes ==
  ASSUME NEW i \in 1 .. Last, NEW k \in 1 .. Len(Script[i]), NEW db, NEW sk,
         ColumnsOnly(sk), Covered(i, k, db \cup sk)
  PROVE  Covered(i, k + 1, After(Script[i][k], db) \cup sk)
  <1> DEFINE s == Script[i][k]
  <1>0. Last \in Nat
    BY ScriptTypes
  <1>1. ASSUME s.do = "column" PROVE <<s.table, "">> \in db
    <2>1. PICK m \in 1 .. i : \E l \in 1 .. Len(Script[m]) :
            /\ m < i \/ l < k
            /\ Makes(Script[m][l]) = {<<s.table, "">>} /\ s.table \notin Dropped
      BY <1>1, MigrationsAssumption DEF TableFirst
    <2>2. PICK l \in 1 .. Len(Script[m]) :
            /\ m < i \/ l < k
            /\ Makes(Script[m][l]) = {<<s.table, "">>} /\ s.table \notin Dropped
      BY <2>1
    <2>3. m \in 1 .. Last /\ (m < i \/ (m = i /\ l < k))
      <3>1. m < i \/ l < k
        BY <2>2
      <3> QED
        BY <1>0, <3>1
    <2>4. <<s.table, "">> \in Makes(Script[m][l]) /\ <<s.table, "">>[1] \notin Dropped
      BY <2>2
    <2>5. \A o \in Makes(Script[m][l]) : o[1] \notin Dropped => o \in db \cup sk
      BY <2>3 DEF Covered
    <2>6. <<s.table, "">> \notin sk
      BY DEF ColumnsOnly
    <2> QED
      BY <2>4, <2>5, <2>6
  <1>2. Makes(s) \subseteq After(s, db)
    BY <1>1 DEF After, Makes
  <1>3. ASSUME NEW m \in 1 .. Last, NEW l \in 1 .. Len(Script[m]),
               m < i \/ (m = i /\ l < k + 1),
               NEW o \in Makes(Script[m][l]), o[1] \notin Dropped
        PROVE  o \in After(s, db) \cup sk
    <2>1. CASE m = i /\ l = k
      BY <1>2, <2>1
    <2>2. CASE m < i \/ (m = i /\ l < k)
      BY <2>2, <1>3, AfterKeeps DEF Covered
    <2> QED
      BY <1>0, <1>3, <2>1, <2>2, ScriptTypes
  <1> QED
    BY <1>3 DEF Covered

\* What is covered stays covered when nothing that lasts is taken away.
LEMMA CoveredGrows ==
  ASSUME NEW i, NEW k, NEW db, NEW db2, Covered(i, k, db),
         \A o \in db : o[1] \notin Dropped => o \in db2
  PROVE  Covered(i, k, db2)
  BY DEF Covered

\* A column that is skipped counts as made.
LEMMA SkipMakes ==
  ASSUME NEW i \in 1 .. Last, NEW k \in 1 .. Len(Script[i]), NEW db, Covered(i, k, db)
  PROVE  Covered(i, k + 1, db \cup Makes(Script[i][k]))
  <1>1. ASSUME NEW m \in 1 .. Last, NEW l \in 1 .. Len(Script[m]),
               m < i \/ (m = i /\ l < k + 1)
        PROVE  (m = i /\ l = k) \/ m < i \/ (m = i /\ l < k)
    BY <1>1, ScriptTypes
  <1> QED
    BY <1>1 DEF Covered

\* To be at the end of a migration is to be at the beginning of the next.
LEMMA CoveredNext ==
  ASSUME NEW i \in 1 .. Last, NEW k \in Int, k > Len(Script[i]), NEW db, Covered(i, k, db)
  PROVE  Covered(i + 1, 1, db)
  <1> SUFFICES ASSUME NEW m \in 1 .. Last, NEW l \in 1 .. Len(Script[m]), m < i + 1
               PROVE  m < i \/ (m = i /\ l < k)
    BY DEF Covered
  <1> QED
    BY ScriptTypes

LEMMA NoProcIs == NoProc \notin Procs
  BY MigrationsAssumption

-----------------------------------------------------------------------------
(* Steps.                                                                  *)

\* The working process is at a statement of the script, or past the last.
LEMMA AtWork ==
  ASSUME TypeOK, ProcOK, NEW p \in Procs, proc[p].pc = "run"
  PROVE  /\ proc[p].at \in 1 .. Last /\ proc[p].next \in Int /\ proc[p].next >= 1
         /\ More(p) <=> proc[p].next \in 1 .. Len(Script[proc[p].at])
         /\ ~ More(p) => proc[p].next > Len(Script[proc[p].at])
  BY ScriptTypes DEF TypeOK, More

LEMMA InitInv == Init => Inv
  <1> SUFFICES ASSUME Init PROVE Inv
    OBVIOUS
  <1>1. TypeOK /\ ProcOK /\ Kept
    BY MigrationsAssumption, ScriptTypes DEF Init, TypeOK, ProcOK, Kept, Rest
  <1>2. Covered(version + 1, 1, schema)
    <2> SUFFICES ASSUME NEW m \in 1 .. Last, NEW l \in 1 .. Len(Script[m]), m < version + 1,
                        NEW o \in Makes(Script[m][l]), o[1] \notin Dropped
                 PROVE  o \in schema
      BY ScriptTypes, <1>1 DEF Covered, TypeOK
    <2>1. m \in 1 .. version /\ 1 .. version \subseteq 1 .. Last
      BY <1>1, ScriptTypes DEF TypeOK
    <2>2. o \in MadeBy(m) /\ \A i \in 1 .. Last : o[1] \notin DroppedBy(i)
      BY DEF MadeBy, Dropped
    <2> QED
      BY <2>1, <2>2 DEF Init, Left
  <1>3. \A p \in Procs : proc[p].pc \notin {"run", "ready"}
    BY DEF Init, Rest
  <1>4. skipped = {} /\ Covered(version + 1, 1, schema \cup skipped)
    BY <1>2, CoveredGrows DEF Init
  <1> QED
    BY <1>1, <1>3, <1>4 DEF Inv, Reached, ColumnsOnly

\* How many migrations there are, and how long each is.
LEMMA Lengths == Last \in Nat /\ \A i \in 1 .. Last : Len(Script[i]) \in Nat
  BY ScriptTypes

\* Migrate leads to the start of a migration, or past the last.
LEMMA MigrateIs ==
  ASSUME NEW i \in 1 .. Last + 1
  PROVE  /\ Migrate(i) \in [pc : {"off", "run", "ready", "failed", "gone"}, at : Int, next : Int]
         /\ Migrate(i).pc \in {"run", "ready"}
         /\ Migrate(i).pc = "run" => i \in 1 .. Last /\ Migrate(i).at = i /\ Migrate(i).next = 1
         /\ Migrate(i).pc = "ready" => i = Last + 1
  <1>1. Last \in Nat
    BY Lengths
  <1> QED
    BY <1>1 DEF Migrate, Rest

\* The types hold in every state, whatever dies or waits too long.
LEMMA TypesStep == TypeOK /\ ProcOK /\ [Next]_vars => (TypeOK /\ ProcOK)'
  <1> SUFFICES ASSUME TypeOK, ProcOK, [Next]_vars PROVE TypeOK' /\ ProcOK'
    OBVIOUS
  <1>0. Last \in Nat /\ MaxDeaths \in Nat /\ MaxLocks \in Nat
    BY ScriptTypes, MigrationsAssumption
  <1>1. CASE UNCHANGED vars
    BY <1>1 DEF TypeOK, ProcOK, vars, history
  <1>2. ASSUME NEW p \in Procs, Start(p) PROVE TypeOK' /\ ProcOK'
    <2>1. version + 1 \in 1 .. Last + 1
      BY <1>0 DEF TypeOK
    <2>2. proc'[p] = Migrate(version + 1) /\ \A q \in Procs \ {p} : proc'[q] = proc[q]
      BY <1>2 DEF Start, ProcOK, history
    <2>3. ProcOK'
      BY <1>2, <2>1, MigrateIs DEF Start, ProcOK, history
    <2>4. proc'[p].pc = "run" => proc'[p].at \in 1 .. Last /\ proc'[p].next = 1
      BY <2>1, <2>2, MigrateIs
    <2>5. \A q \in Procs : proc'[q].pc = "run" =>
            proc'[q].at \in 1 .. Last /\ proc'[q].next \in 1 .. Len(Script[proc'[q].at]) + 1
      <3>1. Len(Script[proc'[p].at]) \in Nat => 1 \in 1 .. Len(Script[proc'[p].at]) + 1
        OBVIOUS
      <3> QED
        BY <2>2, <2>4, <3>1, Lengths DEF TypeOK
    <2> QED
      BY <1>2, <2>3, <2>5 DEF Start, TypeOK, history
  <1>3. ASSUME NEW p \in Procs, Execute(p) PROVE TypeOK' /\ ProcOK'
    <2>1. proc[p].at \in 1 .. Last /\ proc[p].next \in 1 .. Len(Script[proc[p].at])
      BY <1>3, AtWork DEF Execute, More, history
    <2>2. ProcOK'
      <3>1. proc' = [proc EXCEPT ![p].next = @ + 1] /\ proc[p].next \in Int
        BY <1>3 DEF Execute, ProcOK, history
      <3> QED
        BY <3>1 DEF ProcOK
    <2>3. \A q \in Procs : proc'[q].pc = "run" =>
            proc'[q].at \in 1 .. Last /\ proc'[q].next \in 1 .. Len(Script[proc'[q].at]) + 1
      <3>1. proc'[p].at = proc[p].at /\ proc'[p].next = proc[p].next + 1
        BY <1>3 DEF Execute, ProcOK, history
      <3>2. \A q \in Procs \ {p} : proc'[q] = proc[q]
        BY <1>3 DEF Execute, ProcOK, history
      <3>3. proc[p].next + 1 \in 1 .. Len(Script[proc[p].at]) + 1
        BY <2>1, Lengths
      <3> QED
        BY <2>1, <3>1, <3>2, <3>3 DEF TypeOK
    <2>4. writer' \in Procs \cup {NoProc}
      BY <1>3 DEF Execute, TypeOK, history
    <2> QED
      BY <1>3, <2>2, <2>3, <2>4 DEF Execute, TypeOK, history
  <1>4. ASSUME NEW p \in Procs, Commit(p) PROVE TypeOK' /\ ProcOK'
    <2>1. proc[p].at \in 1 .. Last
      BY <1>4, AtWork DEF Commit
    <2>2. proc[p].at + 1 \in 1 .. Last + 1
      BY <1>0, <2>1
    <2>3. proc'[p] = Migrate(proc[p].at + 1) /\ \A q \in Procs \ {p} : proc'[q] = proc[q]
      BY <1>4 DEF Commit, ProcOK
    <2>4. ProcOK'
      BY <1>4, <2>2, MigrateIs DEF Commit, ProcOK
    <2>5. proc'[p].pc = "run" => proc'[p].at \in 1 .. Last /\ proc'[p].next = 1
      BY <2>2, <2>3, MigrateIs
    <2>6. \A q \in Procs : proc'[q].pc = "run" =>
            proc'[q].at \in 1 .. Last /\ proc'[q].next \in 1 .. Len(Script[proc'[q].at]) + 1
      <3>1. Len(Script[proc'[p].at]) \in Nat => 1 \in 1 .. Len(Script[proc'[p].at]) + 1
        OBVIOUS
      <3> QED
        BY <2>3, <2>5, <3>1, Lengths DEF TypeOK
    <2>7. runs' \in [1 .. Last -> Nat]
      BY <1>4, <2>1 DEF Commit, TypeOK
    <2>8. version' \in 0 .. Last /\ writer' \in Procs \cup {NoProc}
      BY <1>4, <2>1, <1>0 DEF Commit
    <2> QED
      BY <1>4, <2>4, <2>6, <2>7, <2>8 DEF Commit, TypeOK
  <1>5. ASSUME NEW p \in Procs, Raise(p) PROVE TypeOK' /\ ProcOK'
    <2>1. proc'[p] = Rest("failed") /\ \A q \in Procs \ {p} : proc'[q] = proc[q]
      BY <1>5 DEF Raise, ProcOK, history
    <2>2. ProcOK'
      BY <1>5 DEF Raise, ProcOK, Rest, history
    <2>3. writer' \in Procs \cup {NoProc}
      BY <1>5 DEF Raise, Rollback, TypeOK, history
    <2> QED
      BY <1>5, <2>1, <2>2, <2>3 DEF Raise, TypeOK, Rest, history
  <1>6. ASSUME NEW p \in Procs, TimesOut(p) PROVE TypeOK' /\ ProcOK'
    <2>1. \A q \in Procs \ {p} : proc'[q] = proc[q]
      BY <1>6 DEF TimesOut, ProcOK, history
    <2>2. \/ proc'[p] = Rest("failed")
          \/ More(p) /\ proc'[p] = [proc[p] EXCEPT !.next = @ + 1]
      BY <1>6 DEF TimesOut, ProcOK, history
    <2>3. ProcOK'
      BY <1>6, <2>2 DEF TimesOut, ProcOK, Rest, history
    <2>4. proc'[p].pc = "run" =>
            proc'[p].at \in 1 .. Last /\ proc'[p].next \in 1 .. Len(Script[proc'[p].at]) + 1
      <3>1. CASE proc'[p] = Rest("failed")
        BY <3>1 DEF Rest
      <3>2. CASE More(p) /\ proc'[p] = [proc[p] EXCEPT !.next = @ + 1]
        <4>1. proc[p].at \in 1 .. Last /\ proc[p].next \in 1 .. Len(Script[proc[p].at])
          BY <3>2, AtWork DEF More
        <4>2. proc'[p].at = proc[p].at /\ proc'[p].next = proc[p].next + 1
          BY <3>2 DEF ProcOK
        <4> QED
          BY <4>1, <4>2, Lengths
      <3> QED
        BY <2>2, <3>1, <3>2
    <2>5. locks' \in 0 .. MaxLocks
      BY <1>6, <1>0 DEF TimesOut, TypeOK, history
    <2> QED
      BY <1>6, <2>1, <2>3, <2>4, <2>5 DEF TimesOut, TypeOK, history
  <1>7. ASSUME NEW p \in Procs, Die(p) PROVE TypeOK' /\ ProcOK'
    <2>1. proc'[p].pc # "run" /\ \A q \in Procs \ {p} : proc'[q] = proc[q]
      BY <1>7 DEF Die, ProcOK, Rest, history
    <2>2. ProcOK'
      BY <1>7 DEF Die, ProcOK, Rest, history
    <2>3. writer' \in Procs \cup {NoProc}
      BY <1>7 DEF Die, Rollback, TypeOK, history
    <2>4. deaths' \in 0 .. MaxDeaths
      BY <1>7, <1>0 DEF Die, TypeOK, history
    <2> QED
      BY <1>7, <2>1, <2>2, <2>3, <2>4 DEF Die, TypeOK, history
  <1> QED
    BY <1>1, <1>2, <1>3, <1>4, <1>5, <1>6, <1>7 DEF Next, Step

LEMMA InvStep == Inv /\ [Next]_vars => Inv'
  <1> SUFFICES ASSUME Inv, [Next]_vars PROVE Inv'
    OBVIOUS
  <1>0. TypeOK /\ ProcOK /\ Kept /\ Reached
    BY DEF Inv
  <1>t. TypeOK' /\ ProcOK'
    BY <1>0, TypesStep
  <1>1. CASE UNCHANGED vars
    BY <1>1, <1>0, <1>t DEF Inv, Kept, Reached, Covered, Seen, vars, history
  <1>2. ASSUME NEW p \in Procs, Start(p) PROVE Kept' /\ Reached'
    <2>1. writer # p /\ version + 1 \in 1 .. Last + 1
      <3>1. writer # p
        BY <1>2, <1>0, NoProcIs DEF Start, Kept, history
      <3>2. version + 1 \in 1 .. Last + 1
        BY <1>0, Lengths DEF TypeOK
      <3> QED
        BY <3>1, <3>2
    <2>2. proc'[p] = Migrate(version + 1) /\ \A q \in Procs \ {p} : proc'[q] = proc[q]
      BY <1>2, <1>0 DEF Start, ProcOK, history
    <2>3. proc'[p].pc = "run" => Covered(proc'[p].at, proc'[p].next, schema \cup skipped)
      BY <1>0, <2>1, <2>2, MigrateIs DEF Reached
    <2>4. proc'[p].pc = "ready" => Covered(Last + 1, 1, schema \cup skipped)
      BY <1>0, <2>1, <2>2, MigrateIs DEF Reached
    <2>5. \A q \in Procs : Seen(q)' = Seen(q) /\ Seen(p) = schema
      BY <1>2, <2>1 DEF Start, Seen, history
    <2>6. UNCHANGED <<version, schema, writer, draft, skipped>>
      BY <1>2 DEF Start, history
    <2>7. Kept'
      BY <1>0, <2>1, <2>2, <2>6 DEF Kept, TypeOK
    <2>8. Reached'
      BY <1>0, <2>2, <2>3, <2>4, <2>5, <2>6 DEF Reached
    <2> QED
      BY <2>7, <2>8
  <1>3. ASSUME NEW p \in Procs, Execute(p) PROVE Kept' /\ Reached'
    <2> DEFINE i == proc[p].at
               k == proc[p].next
               s == Script[i][k]
    <2>1. i \in 1 .. Last /\ k \in 1 .. Len(Script[i]) /\ Statement(p) = s
      BY <1>3, <1>0, AtWork DEF Execute, Statement, More, history
    <2>2. proc'[p].pc = "run" /\ proc'[p].at = i /\ proc'[p].next = k + 1
      BY <1>3, <1>0 DEF Execute, ProcOK, More, history
    <2>3. \A q \in Procs \ {p} : proc'[q] = proc[q] /\ Seen(q) = schema
      BY <1>3, <1>0, NoProcIs DEF Execute, ProcOK, Seen, history
    <2>4. Covered(i, k + 1, After(s, Seen(p)) \cup skipped)
      <3>1. Covered(i, k, Seen(p) \cup skipped) /\ ColumnsOnly(skipped)
        BY <1>0, <1>3 DEF Reached, Execute, More, history
      <3> HIDE DEF i, k
      <3> QED
        BY <2>1, <3>1, AfterMakes
    <2>5. \A db : \A o \in db : o[1] \notin Dropped => o \in After(s, db)
      <3> HIDE DEF i, k
      <3> QED
        BY <2>1, AfterKeeps
    <2>6. version' = version /\ skipped' = skipped
      BY <1>3 DEF Execute, history
    <2>7. \A o \in schema : o[1] \notin Dropped => o \in schema' /\ o \in Seen(p)'
      <3>1. CASE writer' = p
        <4>1. schema' = schema /\ draft' = After(s, Seen(p))
          BY <1>3, <3>1, <2>1 DEF Execute, history
        <4>2. \A o \in schema : o[1] \notin Dropped => o \in Seen(p)
          BY <1>0, NoProcIs DEF Kept, Seen
        <4> QED
          BY <3>1, <4>1, <4>2, <2>5 DEF Seen
      <3>2. CASE writer' # p
        <4>1. schema' = After(s, schema)
          BY <1>3, <3>2, <2>1 DEF Execute, history
        <4> QED
          BY <3>2, <4>1, <2>5 DEF Seen
      <3> QED
        BY <3>1, <3>2
    <2>8. Seen(p)' = After(s, Seen(p)) /\ writer' \in {NoProc, p}
      BY <1>3, <2>1 DEF Execute, Seen, history
    <2>9. \A q \in Procs \ {p} : Seen(q)' = schema'
      BY <2>8, NoProcIs DEF Seen
    <2>10. Kept'
      BY <2>2, <2>7, <2>8, <1>3 DEF Kept, Execute, Seen, history
    <2>11. Covered(version + 1, 1, schema' \cup skipped)
      BY <1>0, <2>7, CoveredGrows DEF Reached
    <2>12. Covered(proc'[p].at, proc'[p].next, Seen(p)' \cup skipped)
      BY <2>2, <2>4, <2>8
    <2>13. ASSUME NEW q \in Procs \ {p}
           PROVE  /\ proc'[q].pc = "run" =>
                       Covered(proc'[q].at, proc'[q].next, Seen(q)' \cup skipped)
                  /\ proc'[q].pc = "ready" => Covered(Last + 1, 1, schema' \cup skipped)
      BY <1>0, <2>3, <2>7, <2>9, CoveredGrows DEF Reached
    <2>14. ColumnsOnly(skipped')
      BY <1>0, <2>6 DEF Reached
    <2>15. Reached'
      BY <2>2, <2>6, <2>11, <2>12, <2>13, <2>14 DEF Reached
    <2> QED
      BY <2>10, <2>15
  <1>4. ASSUME NEW p \in Procs, Commit(p) PROVE Kept' /\ Reached'
    <2> DEFINE i == proc[p].at
    <2>1. i \in 1 .. Last /\ i + 1 \in 1 .. Last + 1
      BY <1>4, <1>0, AtWork, Lengths DEF Commit
    <2>2. proc'[p] = Migrate(i + 1)
      BY <1>4, <1>0 DEF Commit, ProcOK
    <2>3. \A q \in Procs \ {p} : proc'[q] = proc[q] /\ Seen(q) = schema
      BY <1>4, <1>0, NoProcIs DEF Commit, ProcOK, Seen
    <2>4. /\ version' = i /\ schema' = Seen(p) /\ skipped' = skipped
          /\ \A q \in Procs : Seen(q)' = schema'
      BY <1>4, NoProcIs DEF Commit, Seen
    <2>5. Covered(i + 1, 1, schema' \cup skipped)
      <3>1. Covered(i, proc[p].next, Seen(p) \cup skipped)
        BY <1>0, <1>4 DEF Reached, Commit
      <3>2. proc[p].next \in Int /\ proc[p].next > Len(Script[i])
        BY <1>4, <1>0, AtWork DEF Commit
      <3> HIDE DEF i
      <3> QED
        BY <2>1, <2>4, <3>1, <3>2, CoveredNext
    <2>6. \A o \in schema : o[1] \notin Dropped => o \in schema'
      BY <2>4, <1>0, NoProcIs DEF Kept, Seen
    <2>7. Kept'
      BY <1>4 DEF Commit, Kept
    <2>8. /\ proc'[p].pc = "run" => Covered(proc'[p].at, proc'[p].next, schema' \cup skipped)
          /\ proc'[p].pc = "ready" => Covered(Last + 1, 1, schema' \cup skipped)
      <3> HIDE DEF i
      <3> QED
        BY <2>1, <2>2, <2>5, MigrateIs
    <2>9. ASSUME NEW q \in Procs \ {p}
          PROVE  /\ proc'[q].pc = "run" =>
                      Covered(proc'[q].at, proc'[q].next, Seen(q)' \cup skipped)
                 /\ proc'[q].pc = "ready" => Covered(Last + 1, 1, schema' \cup skipped)
      BY <1>0, <2>3, <2>4, <2>6, CoveredGrows DEF Reached
    <2>10. ColumnsOnly(skipped')
      BY <1>0, <2>4 DEF Reached
    <2>11. Reached'
      BY <2>4, <2>5, <2>8, <2>9, <2>10 DEF Reached
    <2> QED
      BY <2>7, <2>11
  <1>5. ASSUME NEW p \in Procs, Raise(p) \/ Die(p) PROVE Kept' /\ Reached'
    <2>1. UNCHANGED <<version, schema, skipped>> /\ proc'[p].pc \notin {"run", "ready"}
      BY <1>5, <1>0 DEF Raise, Die, ProcOK, Rest, history
    <2>2. \A q \in Procs \ {p} : proc'[q] = proc[q]
      BY <1>5, <1>0 DEF Raise, Die, ProcOK, history
    <2>3. \/ writer = p /\ writer' = NoProc
          \/ writer # p /\ UNCHANGED <<writer, draft>>
      BY <1>5 DEF Raise, Die, Rollback, history
    <2>4. \A q \in Procs \ {p} : Seen(q)' = Seen(q)
      BY <2>1, <2>3, NoProcIs DEF Seen
    <2>5. Kept'
      BY <1>0, <2>1, <2>2, <2>3 DEF Kept, TypeOK
    <2>6. Reached'
      BY <1>0, <2>1, <2>2, <2>4 DEF Reached
    <2> QED
      BY <2>5, <2>6
  <1>6. ASSUME NEW p \in Procs, TimesOut(p) PROVE Kept' /\ Reached'
    <2>1. UNCHANGED <<version, schema, writer, draft>> /\ writer # p
      BY <1>6 DEF TimesOut, history
    <2>2. \A q \in Procs \ {p} : proc'[q] = proc[q]
      BY <1>6, <1>0 DEF TimesOut, ProcOK, history
    <2>3. \A q \in Procs : Seen(q)' = Seen(q)
      BY <2>1 DEF Seen
    <2>4. Kept'
      BY <1>0, <2>1, <2>2 DEF Kept, TypeOK
    <2>5. CASE ~ (More(p) /\ Statement(p).do = "column")
      <3>1. skipped' = skipped /\ proc'[p].pc = "failed"
        BY <1>6, <1>0, <2>5 DEF TimesOut, ProcOK, Rest, history
      <3>2. Reached'
        BY <1>0, <2>1, <2>2, <2>3, <3>1 DEF Reached
      <3> QED
        BY <2>4, <3>2
    <2>6. CASE More(p) /\ Statement(p).do = "column"
      <3> DEFINE i == proc[p].at
                 k == proc[p].next
                 s == Script[i][k]
      <3>1. i \in 1 .. Last /\ k \in 1 .. Len(Script[i]) /\ Statement(p) = s
        BY <1>6, <1>0, AtWork, <2>6 DEF Statement, More
      <3>2. /\ skipped' = skipped \cup Makes(s)
            /\ proc'[p].at = i /\ proc'[p].next = k + 1 /\ proc'[p].pc = "run"
        BY <1>6, <1>0, <2>6, <3>1 DEF TimesOut, ProcOK, More, history
      <3>3. ColumnsOnly(skipped')
        <4>1. s.part # ""
          <5> HIDE DEF i, k
          <5> QED
            BY <2>6, <3>1, MigrationsAssumption DEF TableFirst
        <4>2. \A o \in Makes(s) : o[2] = s.part
          BY DEF Makes
        <4> QED
          BY <1>0, <3>2, <4>1, <4>2 DEF Reached, ColumnsOnly
      <3>4. \A db : \A o \in db \cup skipped : o[1] \notin Dropped => o \in db \cup skipped'
        BY <3>2
      <3>5. Covered(version + 1, 1, schema \cup skipped')
        BY <1>0, <3>4, CoveredGrows DEF Reached
      <3>6. Covered(i, k + 1, Seen(p) \cup skipped')
        <4>1. Covered(i, k, Seen(p) \cup skipped)
          BY <1>0, <1>6 DEF Reached, TimesOut, history
        <4>2. Covered(i, k + 1, (Seen(p) \cup skipped) \cup Makes(s))
          <5> HIDE DEF i, k
          <5> QED
            BY <3>1, <4>1, SkipMakes
        <4>3. (Seen(p) \cup skipped) \cup Makes(s) = Seen(p) \cup skipped'
          BY <3>2
        <4> QED
          BY <4>2, <4>3
      <3>7. ASSUME NEW q \in Procs \ {p}
            PROVE  /\ proc'[q].pc = "run" =>
                        Covered(proc'[q].at, proc'[q].next, Seen(q) \cup skipped')
                   /\ proc'[q].pc = "ready" => Covered(Last + 1, 1, schema \cup skipped')
        BY <1>0, <2>2, <3>4, CoveredGrows DEF Reached
      <3>8. Reached'
        BY <2>1, <2>3, <3>2, <3>3, <3>5, <3>6, <3>7 DEF Reached
      <3> QED
        BY <2>4, <3>8
    <2> QED
      BY <2>5, <2>6
  <1> QED
    BY <1>t, <1>1, <1>2, <1>3, <1>4, <1>5, <1>6 DEF Next, Step, Inv

-----------------------------------------------------------------------------
(* Theorems.                                                               *)

\* The variables keep their types, and a process its place in the script.
THEOREM TypesHold == Spec => []TypeOK
  <1>1. Init => TypeOK /\ ProcOK
    BY InitInv DEF Inv
  <1> QED
    BY <1>1, TypesStep, PTL DEF Spec

\* A database at version n has what the migrations up to n were to leave, but for
\* the columns skipped for a lock, and a process that is through has it all
\* (run_migrations; SchemaComplete).
THEOREM VersionTells == Spec => []SchemaComplete
  <1>1. Inv => SchemaComplete
    <2> SUFFICES ASSUME Inv PROVE SchemaComplete
      OBVIOUS
    <2>1. ASSUME NEW v \in 0 .. Last, NEW i \in 1 .. v, NEW db, Covered(v + 1, 1, db)
          PROVE  Lasting(i) \subseteq db
      <3>1. i \in 1 .. Last /\ i < v + 1
        BY Lengths
      <3> QED
        BY <2>1, <3>1 DEF Covered, Lasting, MadeBy
    <2>2. version \in 0 .. Last /\ Last \in 0 .. Last
      BY Lengths DEF Inv, TypeOK
    <2> QED
      BY <2>1, <2>2 DEF Inv, Reached, SchemaComplete
  <1> QED
    BY <1>1, InitInv, InvStep, PTL DEF Spec

\* The backend works on the migration after the committed one; no later one was
\* ever committed.
InStep ==
  /\ \A p \in Procs : proc[p].pc = "run" => proc[p].at = version + 1
  /\ \A i \in 1 .. Last : runs[i] <= 1 /\ (i > version => runs[i] = 0)

\* Where the backend alone migrates, each migration is committed once, whatever
\* is killed or times out (AppliedOnce).
THEOREM OneMigrator == Trainers = {} /\ Spec => []AppliedOnce
  <1>1. Init => InStep
    BY DEF Init, InStep, Rest
  <1>2. ASSUME Trainers = {} PROVE TypeOK /\ ProcOK /\ InStep /\ [Next]_vars => InStep'
    <2> SUFFICES ASSUME TypeOK, ProcOK, InStep, [Next]_vars PROVE InStep'
      OBVIOUS
    <2>1. \A p \in Procs : p = Backend
      BY <1>2 DEF Procs
    <2>2. CASE UNCHANGED vars
      BY <2>2 DEF InStep, vars, history
    <2>3. ASSUME NEW p \in Procs, Start(p) PROVE InStep'
      <3>1. version + 1 \in 1 .. Last + 1
        BY Lengths DEF TypeOK
      <3>2. proc'[p] = Migrate(version + 1)
        BY <2>3 DEF Start, ProcOK, history
      <3> QED
        BY <2>1, <2>3, <3>1, <3>2, MigrateIs DEF Start, InStep, history
    <2>4. ASSUME NEW p \in Procs, Commit(p) PROVE InStep'
      <3>1. proc[p].at = version + 1 /\ proc[p].at \in 1 .. Last
        BY <2>4, AtWork DEF Commit, InStep
      <3>2. proc[p].at + 1 \in 1 .. Last + 1
        BY <3>1, Lengths
      <3>3. proc'[p] = Migrate(proc[p].at + 1) /\ version' = proc[p].at
        BY <2>4 DEF Commit, ProcOK
      <3>4. \A q \in Procs : proc'[q].pc = "run" => proc'[q].at = version' + 1
        BY <2>1, <3>2, <3>3, MigrateIs
      <3>5. runs' = [runs EXCEPT ![version + 1] = @ + 1] /\ version' = version + 1
        BY <2>4, <3>1, <3>3 DEF Commit
      <3>6. runs[version + 1] = 0 /\ version \in Int /\ Last \in Int
        BY <3>1, Lengths DEF InStep, TypeOK
      <3>7. \A i \in 1 .. Last : runs'[i] <= 1 /\ (i > version' => runs'[i] = 0)
        BY <3>5, <3>6 DEF InStep, TypeOK
      <3> QED
        BY <3>4, <3>7 DEF InStep
    <2>5. ASSUME NEW p \in Procs, Execute(p) \/ TimesOut(p) \/ Raise(p) \/ Die(p) PROVE InStep'
      <3>1. version' = version /\ runs' = runs
        BY <2>5 DEF Execute, TimesOut, Raise, Die, history
      <3>2. proc'[p].pc = "run" => proc[p].pc = "run" /\ proc'[p].at = proc[p].at
        BY <2>5 DEF Execute, More, TimesOut, Raise, Die, ProcOK, Rest, history
      <3> QED
        BY <2>1, <3>1, <3>2 DEF InStep
    <2> QED
      BY <2>2, <2>3, <2>4, <2>5 DEF Next, Step
  <1>3. TypeOK /\ InStep => AppliedOnce
    BY DEF InStep, AppliedOnce
  <1>4. Init => TypeOK /\ ProcOK
    BY InitInv DEF Inv
  <1>5. ASSUME Trainers = {} PROVE Spec => []AppliedOnce
    <2>1. TypeOK /\ ProcOK /\ InStep /\ [Next]_vars => InStep'
      BY <1>2, <1>5
    <2> QED
      BY <1>1, <2>1, <1>3, <1>4, TypesStep, PTL DEF Spec
  <1> QED
    BY <1>5
=============================================================================
