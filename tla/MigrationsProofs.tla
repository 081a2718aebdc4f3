--------------------------- MODULE MigrationsProofs -------------------------
(***************************************************************************)
(* Theorems about the migration script, for any number of files and runs.  *)
(***************************************************************************)
EXTENDS Migrations, WellFoundedInduction, TLAPS

\* The smallest file of a set that has one.
LEMMA NextFileIsFirst ==
    ASSUME NEW S \in SUBSET Files, S # {}
    PROVE  /\ NextFile(S) \in S
           /\ \A f \in S : NextFile(S) <= f
<1> S \subseteq Nat
  BY FilesAssumption DEF Files
<1>1. PICK n \in S : \A f \in S : ~ (<<f, n>> \in OpToRel(<, Nat))
  <2> HIDE DEF Files
  <2> QED
  BY WFMin, NatLessThanWellFounded, Zenon
<1>2. \A f \in S : n <= f
  <2> SUFFICES ASSUME NEW f \in S, ~ n <= f PROVE FALSE
    OBVIOUS
  <2>1. <<f, n>> \in OpToRel(<, Nat)
    BY DEF OpToRel
  <2> QED
    BY <1>1, <2>1, Zenon
<1> QED
  BY <1>2 DEF NextFile, Min, Files

-----------------------------------------------------------------------------
(* The types *)

LEMMA TypeInit == Init => TypeOK
BY FilesAssumption DEF Init, TypeOK, Steps, Files, NoFile

LEMMA TypeNext == TypeOK /\ [Next]_vars => TypeOK'
<1> SUFFICES ASSUME TypeOK, [Next]_vars PROVE TypeOK'
  OBVIOUS
<1> USE FilesAssumption DEF TypeOK, Steps, Files, NoFile
<1>1. CASE Ship
  BY <1>1 DEF Ship, runVars
<1>2. ASSUME NEW r \in Runs, Start(r) PROVE TypeOK'
  BY <1>2 DEF Start
<1>3. ASSUME NEW r \in Runs, ReadTracked(r) PROVE TypeOK'
  BY <1>3 DEF ReadTracked
<1>4. ASSUME NEW r \in Runs, Plan(r) PROVE TypeOK'
  BY <1>4 DEF Plan, PlanMigrations
<1>5. ASSUME NEW r \in Runs, Backfill(r) PROVE TypeOK'
  <2>1. NextFile(backfill[r]) \in Files
    BY <1>5, NextFileIsFirst DEF Backfill
  <2> QED
    BY <1>5, <2>1 DEF Backfill
<1>6. ASSUME NEW r \in Runs, Backfilled(r) PROVE TypeOK'
  BY <1>6 DEF Backfilled
<1>7. ASSUME NEW r \in Runs, RunSql(r) PROVE TypeOK'
  <2>1. NextFile(toApply[r]) \in Files
    BY <1>7, NextFileIsFirst DEF RunSql
  <2> QED
    BY <1>7, <2>1 DEF RunSql
<1>8. ASSUME NEW r \in Runs, Record(r) PROVE TypeOK'
  BY <1>8 DEF Record
<1>9. ASSUME NEW r \in Runs, Commit(r) PROVE TypeOK'
  BY <1>9 DEF Commit
<1>10. ASSUME NEW r \in Runs, Finish(r) PROVE TypeOK'
  BY <1>10 DEF Finish
<1>11. ASSUME NEW r \in Runs, Fail(r) PROVE TypeOK'
  BY <1>11 DEF Fail, Going
<1>12. CASE UNCHANGED vars
  BY <1>12 DEF vars
<1> QED
  BY <1>1, <1>2, <1>3, <1>4, <1>5, <1>6, <1>7, <1>8, <1>9, <1>10, <1>11, <1>12 DEF Next

\* Every variable has its type, and a run has a transaction open only between the SQL of a
\* file and its COMMIT.
THEOREM MigrationsType == Spec => []TypeOK
BY TypeInit, TypeNext, PTL DEF Spec

-----------------------------------------------------------------------------
(* The inductive invariant *)

\* What a run has planned is still true of the database, whatever others did since.
RunOK(r) ==
    /\ \A f \in filesOnDisk[r] : 1..f \subseteq filesOnDisk[r]
    /\ Going(r) /\ tracked = {} /\ original # 0 => filesOnDisk[r] \subseteq 1..original
    /\ applied[r] \subseteq tracked
    /\ step[r] = "plan" /\ applied[r] = {} => tracked = {}
    /\ step[r] \in {"idle", "read", "plan"} => backfill[r] = {} /\ toApply[r] = {}
    /\ backfill[r] \subseteq 1..original
    /\ toApply[r] \subseteq filesOnDisk[r]
    /\ step[r] \in {"backfill", "apply", "record", "commit", "done"} =>
          filesOnDisk[r] \ toApply[r] \subseteq schema
    /\ step[r] \in {"record", "commit"} =>
          /\ toApply[r] # {} /\ open[r] = NextFile(toApply[r])
          /\ open[r] \notin schema
    /\ step[r] = "done" => toApply[r] = {}

\* Nobody runs the SQL of a file that another open transaction has run.
Exclusive == \A q, r \in Runs : open[q] # NoFile /\ open[q] = open[r] => q = r

\* While nothing is recorded there is one run at most.
Alone == tracked = {} => \A q, r \in Runs : Going(q) /\ Going(r) => q = r

IInv ==
    /\ TypeOK
    /\ TrackedAsApplied
    /\ 1..original \subseteq schema
    /\ Exclusive
    /\ Alone
    /\ \A r \in Runs : RunOK(r)

\* The first run is alone, and nothing is there that was run untracked, or no file comes
\* between what is there and the first run.
Supervised == FirstAlone /\ (AdoptedInTime \/ original = 0)

LEMMA InvInit == Init => IInv
BY FilesAssumption DEF Init, IInv, TypeOK, TrackedAsApplied, RecordedWasApplied, Exclusive, Alone,
   RunOK, Going, Files, NoFile, Steps

\* What all the steps of a run but Backfill and Commit have in common: neither table nor schema
\* changes, nor does anything of another run.
Quiet(r) ==
    /\ UNCHANGED <<original, schema, tracked>>
    /\ \A q \in Runs \ {r} :
          /\ step'[q] = step[q] /\ filesOnDisk'[q] = filesOnDisk[q] /\ applied'[q] = applied[q]
          /\ backfill'[q] = backfill[q] /\ toApply'[q] = toApply[q] /\ open'[q] = open[q]

LEMMA QuietOthers ==
    ASSUME IInv, NEW r \in Runs, Quiet(r)
    PROVE  /\ TrackedAsApplied' /\ (1..original \subseteq schema)'
           /\ \A q \in Runs \ {r} : RunOK(q)'
BY DEF IInv, Quiet, TrackedAsApplied, RecordedWasApplied, RunOK, Going

LEMMA InvStart ==
    ASSUME IInv, NEW r \in Runs, Start(r), TypeOK', Supervised
    PROVE  IInv'
<1> USE FilesAssumption DEF NoFile
<1>1. Quiet(r)
  BY DEF Start, Quiet, IInv, TypeOK
<1>2. RunOK(r)'
  BY DEF Start, IInv, TypeOK, RunOK, Going, TrackedAsApplied, RecordedWasApplied, Supervised, Files, Steps
<1>3. Exclusive'
  BY DEF Start, IInv, TypeOK, Exclusive
<1>4. Alone'
  BY DEF Start, IInv, TypeOK, Alone, Going, Supervised
<1> QED
  BY <1>1, <1>2, <1>3, <1>4, QuietOthers DEF IInv

LEMMA InvReadTracked ==
    ASSUME IInv, NEW r \in Runs, ReadTracked(r), TypeOK'
    PROVE  IInv'
<1> USE FilesAssumption DEF NoFile
<1>1. Quiet(r)
  BY DEF ReadTracked, Quiet, IInv, TypeOK
<1>2. RunOK(r)'
  BY DEF ReadTracked, IInv, TypeOK, RunOK, Going, TrackedAsApplied, RecordedWasApplied
<1>3. Exclusive'
  BY DEF ReadTracked, IInv, TypeOK, Exclusive
<1>4. Alone'
  BY DEF ReadTracked, IInv, TypeOK, Alone, Going
<1> QED
  BY <1>1, <1>2, <1>3, <1>4, QuietOthers DEF IInv

LEMMA InvPlan ==
    ASSUME IInv, NEW r \in Runs, Plan(r), TypeOK'
    PROVE  IInv'
<1> USE FilesAssumption DEF NoFile
<1>1. Quiet(r)
  BY DEF Plan, Quiet, IInv, TypeOK
<1>2. RunOK(r)'
  BY DEF Plan, IInv, TypeOK, RunOK, Going, TrackedAsApplied, RecordedWasApplied, PlanMigrations, Files
<1>3. Exclusive'
  BY DEF Plan, IInv, TypeOK, Exclusive
<1>4. Alone'
  BY DEF Plan, IInv, TypeOK, Alone, Going
<1> QED
  BY <1>1, <1>2, <1>3, <1>4, QuietOthers DEF IInv

LEMMA InvBackfilled ==
    ASSUME IInv, NEW r \in Runs, Backfilled(r), TypeOK'
    PROVE  IInv'
<1> USE FilesAssumption DEF NoFile
<1>1. Quiet(r)
  BY DEF Backfilled, Quiet, IInv, TypeOK
<1>2. RunOK(r)'
  BY DEF Backfilled, IInv, TypeOK, RunOK, Going, TrackedAsApplied, RecordedWasApplied
<1>3. Exclusive'
  BY DEF Backfilled, IInv, TypeOK, Exclusive
<1>4. Alone'
  BY DEF Backfilled, IInv, TypeOK, Alone, Going
<1> QED
  BY <1>1, <1>2, <1>3, <1>4, QuietOthers DEF IInv

LEMMA InvRunSql ==
    ASSUME IInv, NEW r \in Runs, RunSql(r), TypeOK'
    PROVE  IInv'
<1> USE FilesAssumption DEF NoFile
<1>1. Quiet(r)
  BY DEF RunSql, Quiet, IInv, TypeOK
<1>2. RunOK(r)'
  BY NextFileIsFirst DEF RunSql, IInv, TypeOK, RunOK, Going, TrackedAsApplied, RecordedWasApplied
<1>3. Exclusive'
  BY DEF RunSql, IInv, TypeOK, Exclusive
<1>4. Alone'
  BY DEF RunSql, IInv, TypeOK, Alone, Going
<1> QED
  BY <1>1, <1>2, <1>3, <1>4, QuietOthers DEF IInv

LEMMA InvRecord ==
    ASSUME IInv, NEW r \in Runs, Record(r), TypeOK'
    PROVE  IInv'
<1> USE FilesAssumption DEF NoFile
<1>1. Quiet(r)
  BY DEF Record, Quiet, IInv, TypeOK
<1>2. RunOK(r)'
  BY DEF Record, IInv, TypeOK, RunOK, Going, TrackedAsApplied, RecordedWasApplied
<1>3. Exclusive'
  BY DEF Record, IInv, TypeOK, Exclusive
<1>4. Alone'
  BY DEF Record, IInv, TypeOK, Alone, Going
<1> QED
  BY <1>1, <1>2, <1>3, <1>4, QuietOthers DEF IInv

LEMMA InvFinish ==
    ASSUME IInv, NEW r \in Runs, Finish(r), TypeOK'
    PROVE  IInv'
<1> USE FilesAssumption DEF NoFile
<1>1. Quiet(r)
  BY DEF Finish, Quiet, IInv, TypeOK
<1>2. RunOK(r)'
  BY DEF Finish, IInv, TypeOK, RunOK, Going, TrackedAsApplied, RecordedWasApplied
<1>3. Exclusive'
  BY DEF Finish, IInv, TypeOK, Exclusive
<1>4. Alone'
  BY DEF Finish, IInv, TypeOK, Alone, Going
<1> QED
  BY <1>1, <1>2, <1>3, <1>4, QuietOthers DEF IInv

LEMMA InvFail ==
    ASSUME IInv, NEW r \in Runs, Fail(r), TypeOK'
    PROVE  IInv'
<1> USE FilesAssumption DEF NoFile
<1>1. Quiet(r)
  BY DEF Fail, Quiet, IInv, TypeOK
<1>2. RunOK(r)'
  BY DEF Fail, IInv, TypeOK, RunOK, Going, TrackedAsApplied, RecordedWasApplied
<1>3. Exclusive'
  BY DEF Fail, IInv, TypeOK, Exclusive
<1>4. Alone'
  BY DEF Fail, IInv, TypeOK, Alone, Going
<1> QED
  BY <1>1, <1>2, <1>3, <1>4, QuietOthers DEF IInv

LEMMA InvBackfill ==
    ASSUME IInv, NEW r \in Runs, Backfill(r), TypeOK'
    PROVE  IInv'
<1> USE FilesAssumption DEF NoFile
<1> DEFINE f == NextFile(backfill[r])
<1>1. f \in backfill[r] /\ f \in schema
  BY NextFileIsFirst DEF Backfill, IInv, TypeOK, RunOK
<1>2. tracked' = tracked \cup {f} /\ backfill' = [backfill EXCEPT ![r] = @ \ {f}]
  BY DEF Backfill
<1> HIDE DEF f
<1>3. TrackedAsApplied' /\ (1..original \subseteq schema)'
  BY <1>1, <1>2 DEF Backfill, IInv, TrackedAsApplied, RecordedWasApplied
<1>4. Exclusive' /\ Alone'
  BY <1>2 DEF Backfill, IInv, Exclusive, Alone
<1>5. ASSUME NEW q \in Runs PROVE RunOK(q)'
  <2>1. RunOK(q) /\ (Going(q) /\ tracked = {} => q = r)
    BY DEF IInv, Alone, Backfill, Going
  <2> QED
    BY <1>2, <2>1 DEF Backfill, IInv, TypeOK, RunOK, Going
<1> QED
  BY <1>3, <1>4, <1>5 DEF IInv

\* The files before the one that is committed are in effect: the plan had them, and the run
\* has been through them.
LEMMA InvCommit ==
    ASSUME IInv, NEW r \in Runs, Commit(r), TypeOK'
    PROVE  IInv'
<1> USE FilesAssumption DEF NoFile
<1> DEFINE f == open[r]
<1>1. /\ f \in toApply[r] /\ f \notin schema
      /\ \A g \in toApply[r] : f <= g
  BY NextFileIsFirst DEF Commit, IInv, TypeOK, RunOK
<1>2. /\ schema' = schema \cup {f} /\ tracked' = tracked \cup {f}
      /\ toApply' = [toApply EXCEPT ![r] = @ \ {f}]
  BY DEF Commit
<1>3. 1..f \subseteq schema \cup {f}
  <2> SUFFICES ASSUME NEW g \in 1..f, g # f PROVE g \in schema
    OBVIOUS
  <2>1. f \in Files /\ g < f
    BY <1>1 DEF IInv, TypeOK, Files
  <2>2. g \in filesOnDisk[r]
    BY <1>1 DEF IInv, RunOK
  <2>3. g \notin toApply[r]
    BY <1>1, <2>1 DEF Files
  <2> QED
    BY <2>2, <2>3 DEF Commit, IInv, RunOK
<1>4. \A q \in Runs \ {r} : open[q] # f
  BY DEF IInv, Exclusive, Commit, TypeOK
<1> HIDE DEF f
<1>5. TrackedAsApplied' /\ (1..original \subseteq schema)'
  BY <1>2, <1>3 DEF Commit, IInv, TrackedAsApplied, RecordedWasApplied
<1>6. Exclusive' /\ Alone'
  BY <1>2 DEF Commit, IInv, Exclusive, Alone, TypeOK
<1>7. ASSUME NEW q \in Runs PROVE RunOK(q)'
  <2>1. RunOK(q) /\ (Going(q) /\ tracked = {} => q = r)
    BY DEF IInv, Alone, Commit, Going
  <2>2. CASE q = r
    BY <1>2, <2>1, <2>2 DEF Commit, IInv, TypeOK, RunOK, Going
  <2>3. CASE q # r
    BY <1>2, <1>4, <2>1, <2>3 DEF Commit, IInv, TypeOK, RunOK, Going
  <2> QED
    BY <2>2, <2>3
<1> QED
  BY <1>5, <1>6, <1>7 DEF IInv

LEMMA InvNext == Supervised /\ IInv /\ [Next]_vars => IInv'
<1> SUFFICES ASSUME Supervised, IInv, [Next]_vars PROVE IInv'
  OBVIOUS
<1>1. TypeOK'
  BY TypeNext DEF IInv
<1>2. CASE Ship
  BY <1>1, <1>2 DEF Ship, runVars, IInv, TrackedAsApplied, RecordedWasApplied, Exclusive, Alone,
     RunOK, Going
<1>3. CASE UNCHANGED vars
  BY <1>1, <1>3 DEF vars, IInv, TrackedAsApplied, RecordedWasApplied, Exclusive, Alone, RunOK, Going
<1>4. ASSUME NEW r \in Runs,
             \/ Start(r) \/ ReadTracked(r) \/ Plan(r) \/ Backfill(r) \/ Backfilled(r)
             \/ RunSql(r) \/ Record(r) \/ Commit(r) \/ Finish(r) \/ Fail(r)
      PROVE  IInv'
  BY <1>1, <1>4, InvStart, InvReadTracked, InvPlan, InvBackfill, InvBackfilled, InvRunSql,
     InvRecord, InvCommit, InvFinish, InvFail
<1> QED
  BY <1>2, <1>3, <1>4 DEF Next

LEMMA OriginalStays == [Next]_vars => original' = original
BY DEF Next, Ship, Start, ReadTracked, Plan, Backfill, Backfilled, RunSql, Record, Commit, Finish,
   Fail, vars

LEMMA Invariance == Spec /\ Supervised => []IInv
<1>1. Supervised /\ [Next]_vars => Supervised'
  BY OriginalStays DEF Supervised
<1> QED
  BY <1>1, InvInit, InvNext, PTL DEF Spec

\* Adopted in time and with nobody beside the first run, the record in schema_migrations is
\* true, complete and in order, whatever fails, is killed or overlaps.
THEOREM MigrationsTracked == ASSUME AdoptedInTime, FirstAlone PROVE Spec => []TrackedAsApplied
<1>1. IInv => TrackedAsApplied
  BY DEF IInv
<1>2. Supervised
  BY DEF Supervised
<1> QED
  BY <1>1, <1>2, Invariance, PTL

\* Under the same conditions a run that ends well has left every file it found in effect.
THEOREM MigrationsDone == ASSUME AdoptedInTime, FirstAlone PROVE Spec => []DoneMeansUpToDate
<1>1. IInv => DoneMeansUpToDate
  BY DEF IInv, RunOK, DoneMeansUpToDate
<1>2. Supervised
  BY DEF Supervised
<1> QED
  BY <1>1, <1>2, Invariance, PTL

\* A counterpart of the backfill that records what was never run: a database on which
\* nothing was run untracked needs no adoption. Whenever files are shipped, the record is true,
\* complete and in order, and every file in effect has its row.
THEOREM FreshDatabasesAreTracked ==
    ASSUME FirstAlone
    PROVE  Spec /\ original = 0 =>
               [](TrackedAsApplied /\ DoneMeansUpToDate /\ schema = tracked)
<1>1. IInv /\ original = 0 => TrackedAsApplied /\ DoneMeansUpToDate /\ schema = tracked
  BY DEF IInv, RunOK, DoneMeansUpToDate, TrackedAsApplied, RecordedWasApplied
<1>2. original = 0 /\ [Next]_vars => (original = 0)'
  BY OriginalStays
<1>3. original = 0 => Supervised
  BY DEF Supervised
<1> QED
  BY <1>1, <1>2, <1>3, Invariance, PTL DEF Spec
=============================================================================
