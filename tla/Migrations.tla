------------------------------ MODULE Migrations ------------------------------
(***************************************************************************)
(* src/database/migrationRunner.js: the files of a catalogue are applied in *)
(* order at boot, statement by statement, and recorded one by one.         *)
(*                                                                         *)
(* A file makes tables and features of tables (columns, indexes).  Every   *)
(* statement commits by itself, with MariaDB as with SQLite, so the process *)
(* may die between any two of them, and before the record.  Statements that *)
(* take a feature away, or insert rows, and the renaming of sample tables  *)
(* from before v1.7.3 are left out.                                        *)
(***************************************************************************)
EXTENDS Naturals, Sequences

CONSTANTS
  Table, Feature,
  Files,         \* the catalogue, in the order of the file names
  MaxRestarts,   \* bound: boots after the first
  MaxFaults,     \* bound: statements and checks that the database refuses
  MaxDrops       \* bound: tables removed by hand

(* CREATE TABLE IF NOT EXISTS with the features of the table as first made, or
   ALTER TABLE ... ADD / CREATE INDEX, guarded by IF NOT EXISTS or not. *)
Statement ==
  [op : {"create"}, table : Table, features : SUBSET Feature, guarded : {TRUE}]
    \cup [op : {"add"}, table : Table, features : SUBSET Feature, guarded : BOOLEAN]

(* ignore: -- @migration-options: ignore-already-applied (MariaDB only);
   blocking: no -- @migration-options: non-blocking *)
File == [stmts : Seq(Statement), ignore : BOOLEAN, blocking : BOOLEAN]

ASSUME CatalogueType == Files \in Seq(File)
ASSUME MigrationBounds == {MaxRestarts, MaxFaults, MaxDrops} \subseteq Nat

Stmts(f) == Files[f].stmts
Creates(f) ==
  {t \in Table : \E i \in DOMAIN Stmts(f) : Stmts(f)[i].op = "create" /\ Stmts(f)[i].table = t}

(* What ignores that a table is not there comes after the file that makes it. *)
ASSUME TablesComeFirst ==
  \A f \in DOMAIN Files : \A i \in DOMAIN Stmts(f) :
    Files[f].ignore /\ Stmts(f)[i].op = "add" =>
      \E g \in 1..(f - 1) : Files[g].blocking /\ Stmts(f)[i].table \in Creates(g)

(* What ignores that something is there already adds one thing at a time. *)
ASSUME OneAtATime ==
  \A f \in DOMAIN Files : \A i \in DOMAIN Stmts(f) :
    Files[f].ignore /\ Stmts(f)[i].op = "add" => \E x \in Feature : Stmts(f)[i].features = {x}

VARIABLES
  server,     \* "down", "migrating", "failed" or "done"
  applied,    \* the records as loaded at boot
  file, stmt, \* the file under way and its next statement, 0 before the first
  recorded,   \* schema_migrations
  present,    \* the tables there are
  schema,     \* the features of each
  excused,    \* history: tables dropped, or not looked at, since the boot
  dropped,    \* history: tables dropped ever
  faulty,     \* history: has the database refused a statement since the boot?
  budget      \* boots, faults and drops left

runner == <<applied, file, stmt>>
database == <<recorded, present, schema>>
vars == <<server, runner, database, excused, dropped, faulty, budget>>

TypeOK ==
  /\ server \in {"down", "migrating", "failed", "done"}
  /\ applied \subseteq DOMAIN Files
  /\ file \in 1..(Len(Files) + 1)
  /\ stmt \in Nat
  /\ recorded \subseteq DOMAIN Files
  /\ present \subseteq Table
  /\ schema \in [Table -> SUBSET Feature]
  /\ excused \subseteq Table
  /\ dropped \subseteq Table
  /\ faulty \in BOOLEAN
  /\ budget \in [boots : 0..MaxRestarts, faults : 0..MaxFaults, drops : 0..MaxDrops]

Init ==
  /\ server = "down"
  /\ applied = {} /\ file = 1 /\ stmt = 0
  /\ recorded = {} /\ present = {}
  /\ schema = [t \in Table |-> {}]
  /\ excused = {} /\ dropped = {} /\ faulty = FALSE
  /\ budget = [boots |-> MaxRestarts, faults |-> MaxFaults, drops |-> MaxDrops]

Spend(what) ==
  /\ budget[what] > 0
  /\ budget' = [budget EXCEPT ![what] = @ - 1]

-----------------------------------------------------------------------------
(* runMigrations() begins: ensureMigrationTable, loadAppliedSet. *)
Boot ==
  /\ server = "down"
  /\ server' = "migrating"
  /\ applied' = recorded
  /\ file' = 1 /\ stmt' = 0
  /\ excused' = {} /\ faulty' = FALSE
  /\ UNCHANGED <<database, dropped, budget>>

(* One of the two is refused: no file is looked at. *)
BootFails ==
  /\ server = "down"
  /\ Spend("faults")
  /\ server' = "failed"
  /\ excused' = {} /\ faulty' = TRUE
  /\ UNCHANGED <<runner, database, dropped>>

(* The process dies, or is restarted. *)
GoesDown ==
  /\ server # "down"
  /\ Spend("boots")
  /\ server' = "down"
  /\ UNCHANGED <<runner, database, excused, dropped, faulty>>

(* A person clears the database, or restores a dump. *)
DropTable(t) ==
  /\ t \in present
  /\ Spend("drops")
  /\ present' = present \ {t}
  /\ schema' = [schema EXCEPT ![t] = {}]
  /\ excused' = excused \cup {t}
  /\ dropped' = dropped \cup {t}
  /\ UNCHANGED <<server, runner, recorded, faulty>>

-----------------------------------------------------------------------------
AtFile == server = "migrating" /\ file <= Len(Files) /\ stmt = 0
AtStatement ==
  /\ server = "migrating" /\ file <= Len(Files)
  /\ stmt \in DOMAIN Stmts(file)
AtRecord ==
  /\ server = "migrating" /\ file <= Len(Files)
  /\ stmt = Len(Stmts(file)) + 1

NextFile == file' = file + 1 /\ stmt' = 0 /\ UNCHANGED applied
NextStatement == stmt' = stmt + 1 /\ UNCHANGED <<applied, file>>

(* A file is skipped if it is recorded and its tables are there, or could not
   be looked for (missingTablesOf). *)
SkipsFile_Faulty ==   \* the record alone decides, as before v1.10.40
  /\ AtFile /\ file \in applied
  /\ NextFile
  /\ UNCHANGED <<server, database, excused, dropped, faulty, budget>>

SkipsFile ==
  /\ AtFile /\ file \in applied
  /\ \/ Creates(file) \subseteq present /\ UNCHANGED <<excused, budget>>
     \/ Spend("faults") /\ excused' = excused \cup Creates(file)
  /\ NextFile
  /\ UNCHANGED <<server, database, dropped, faulty>>

StartsFile ==
  /\ AtFile
  /\ file \in applied => ~(Creates(file) \subseteq present)
  /\ NextStatement
  /\ UNCHANGED <<server, database, excused, dropped, faulty, budget>>

(* What the database answers to a statement *)
Succeeds(s) ==
  \/ s.op = "create"
  \/ /\ s.op = "add" /\ s.table \in present
     /\ s.guarded \/ s.features \cap schema[s.table] = {}

Executes(s) ==
  /\ present' = present \cup {s.table}
  /\ schema' = [schema EXCEPT ![s.table] =
       IF s.op = "create" /\ s.table \in present THEN @ ELSE @ \cup s.features]
  /\ UNCHANGED recorded

StatementDone_Faulty ==   \* what is already there is an error
  /\ AtStatement
  /\ Succeeds(Stmts(file)[stmt]) /\ Executes(Stmts(file)[stmt])
  /\ NextStatement
  /\ UNCHANGED <<server, excused, dropped, faulty, budget>>

StatementDone ==
  /\ AtStatement
  /\ LET s == Stmts(file)[stmt] IN
       \/ Succeeds(s) /\ Executes(s)
       \/ ~Succeeds(s) /\ Files[file].ignore /\ UNCHANGED database
  /\ NextStatement
  /\ UNCHANGED <<server, excused, dropped, faulty, budget>>

(* The catch of runMigrations: a file that does not block is left for the next
   boot, any other ends the run, and the server goes on as it is. *)
FileFails_Faulty ==   \* every failed file is passed over
  /\ NextFile
  /\ UNCHANGED <<server, database, excused, dropped>>

FileFails ==
  /\ \/ Files[file].blocking /\ server' = "failed" /\ UNCHANGED runner
     \/ ~Files[file].blocking /\ NextFile /\ UNCHANGED server
  /\ UNCHANGED <<database, excused, dropped>>

StatementFails ==
  /\ AtStatement
  /\ ~Succeeds(Stmts(file)[stmt])
  /\ ~Files[file].ignore
  /\ FileFails
  /\ UNCHANGED <<faulty, budget>>

DatabaseFails ==
  /\ AtStatement \/ AtRecord
  /\ Spend("faults")
  /\ faulty' = TRUE
  /\ FileFails

(* recordApplied: an upsert *)
RecordsFile_Faulty ==   \* recorded before it is executed
  /\ AtStatement /\ stmt = 1
  /\ recorded' = recorded \cup {file}
  /\ NextFile
  /\ UNCHANGED <<server, present, schema, excused, dropped, faulty, budget>>

RecordsFile ==
  /\ AtRecord
  /\ recorded' = recorded \cup {file}
  /\ NextFile
  /\ UNCHANGED <<server, present, schema, excused, dropped, faulty, budget>>

Finishes ==
  /\ server = "migrating" /\ file > Len(Files)
  /\ server' = "done"
  /\ UNCHANGED <<runner, database, excused, dropped, faulty, budget>>

-----------------------------------------------------------------------------
Runs == Boot \/ SkipsFile \/ StartsFile \/ StatementDone \/ StatementFails
          \/ RecordsFile \/ Finishes

Next == Runs \/ BootFails \/ DatabaseFails \/ GoesDown \/ \E t \in Table : DropTable(t)

(* The runner goes on, and a run that failed is repeated as long as boots are
   left: the failure is reported and the server restarted. *)
Spec == Init /\ [][Next]_vars /\ WF_vars(Runs)
=============================================================================
