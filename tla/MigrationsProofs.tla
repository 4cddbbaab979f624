---------------------------- MODULE MigrationsProofs ----------------------------
(***************************************************************************)
(* For every catalogue that Migrations allows, any number of boots, faults *)
(* and removed tables: a record is never ahead of the schema, nothing is   *)
(* built on a file that failed, and a run that ends has put back every     *)
(* table of a blocking file.                                               *)
(*                                                                         *)
(* A statement that is ignored because of what is there already makes the  *)
(* record true only if its table is there, or was removed; that comes from *)
(* the blocking file that made it, which is recorded by then (Behind).     *)
(***************************************************************************)
EXTENDS MigrationsProps, TLAPS

(* What the runner has passed, it has recorded, unless it does not block. *)
Behind ==
  server \in {"migrating", "done"} =>
    \A g \in 1..(file - 1) : Files[g].blocking => g \in recorded

(* The tables of what it has passed in this run. *)
Restored ==
  server \in {"migrating", "done"} =>
    /\ \A g \in 1..(file - 1) : Files[g].blocking => Creates(g) \subseteq present \cup excused
    /\ file <= Len(Files) =>
         \A i \in DOMAIN Stmts(file) :
           i < stmt /\ Stmts(file)[i].op = "create" =>
             Stmts(file)[i].table \in present \cup excused

EndIsEnd == server = "done" => file > Len(Files)

RunInv ==
  /\ TypeOK
  /\ applied \subseteq recorded
  /\ \A f \in recorded : Made(f, Len(Stmts(f)) + 1)
  /\ file <= Len(Files) => Made(file, stmt)
  /\ BlockingFirst
  /\ Behind
  /\ Restored
  /\ EndIsEnd

-----------------------------------------------------------------------------
(* What a catalogue is made of. *)
LEMMA Catalogue ==
  /\ Len(Files) \in Nat /\ DOMAIN Files = 1..Len(Files)
  /\ \A f \in DOMAIN Files :
       /\ Files[f] \in File
       /\ Len(Stmts(f)) \in Nat /\ DOMAIN Stmts(f) = 1..Len(Stmts(f))
       /\ \A i \in DOMAIN Stmts(f) : Stmts(f)[i] \in Statement
<1>1. Len(Files) \in Nat /\ DOMAIN Files = 1..Len(Files)
      /\ \A f \in 1..Len(Files) : Files[f] \in File
  BY CatalogueType
<1>2. \A f \in DOMAIN Files : Stmts(f) \in Seq(Statement)
  BY <1>1 DEF Stmts, File
<1> QED
  BY <1>1, <1>2

LEMMA StatementType ==
  ASSUME NEW s \in Statement
  PROVE  /\ s.op \in {"create", "add"} /\ s.table \in Table
         /\ s.features \subseteq Feature /\ s.guarded \in BOOLEAN
         /\ s.op = "create" => s.guarded
BY DEF Statement

(* What is made stays made as long as nothing but people takes tables away. *)
LEMMA MadeStays ==
  ASSUME NEW f \in DOMAIN Files, NEW n \in Nat, Made(f, n),
         dropped \subseteq dropped', present \subseteq present' \cup dropped',
         \A t \in Table : t \in dropped' \/ schema[t] \subseteq schema'[t]
  PROVE  Made(f, n)'
<1> SUFFICES ASSUME NEW i \in DOMAIN Stmts(f), i < n
             PROVE  LET s == Stmts(f)[i] IN
                    \/ s.table \in dropped'
                    \/ s.table \in present' /\ (s.op = "add" => s.features \subseteq schema'[s.table])
  BY DEF Made
<1>1. Stmts(f)[i].table \in Table
  BY Catalogue, StatementType
<1>2. LET s == Stmts(f)[i] IN
      \/ s.table \in dropped
      \/ s.table \in present /\ (s.op = "add" => s.features \subseteq schema[s.table])
  BY DEF Made
<1> QED
  BY <1>1, <1>2

(* What a file has made includes its tables. *)
LEMMA MadeTables ==
  ASSUME NEW f \in DOMAIN Files, Made(f, Len(Stmts(f)) + 1)
  PROVE  Creates(f) \subseteq present \cup dropped
<1> SUFFICES ASSUME NEW t \in Creates(f) PROVE t \in present \cup dropped
  OBVIOUS
<1>1. PICK i \in DOMAIN Stmts(f) : Stmts(f)[i].op = "create" /\ Stmts(f)[i].table = t
  BY DEF Creates
<1>2. i < Len(Stmts(f)) + 1
  BY Catalogue
<1> QED
  BY <1>1, <1>2 DEF Made

-----------------------------------------------------------------------------
(* A statement that the database executes *)

LEMMA ExecutesMakes ==
  ASSUME TypeOK, NEW s \in Statement, Succeeds(s), Executes(s)
  PROVE  /\ present' \subseteq Table /\ schema' \in [Table -> SUBSET Feature]
         /\ present \subseteq present' /\ recorded' = recorded
         /\ \A t \in Table : schema[t] \subseteq schema'[t]
         /\ s.table \in present'
         /\ s.op = "add" => s.features \subseteq schema'[s.table]
<1>1. /\ s.op \in {"create", "add"} /\ s.table \in Table /\ s.features \subseteq Feature
  BY StatementType
<1>2. present \subseteq Table /\ schema \in [Table -> SUBSET Feature]
  BY Zenon DEF TypeOK
<1>3. /\ present' = present \cup {s.table}
      /\ schema' = [schema EXCEPT ![s.table] =
           IF s.op = "create" /\ s.table \in present THEN @ ELSE @ \cup s.features]
      /\ recorded' = recorded
  BY DEF Executes
<1> QED
  BY <1>1, <1>2, <1>3

(* One that is ignored: what it would add is there, or its table was removed. *)
LEMMA IgnoredIsMade ==
  ASSUME RunInv, AtStatement, Files[file].ignore, ~Succeeds(Stmts(file)[stmt])
  PROVE  LET s == Stmts(file)[stmt] IN
         \/ s.table \in dropped
         \/ s.table \in present /\ s.features \subseteq schema[s.table]
<1> DEFINE s == Stmts(file)[stmt]
<1>1. file \in DOMAIN Files /\ stmt \in DOMAIN Stmts(file) /\ server = "migrating"
      /\ file \in Nat
  BY Catalogue DEF AtStatement, RunInv, TypeOK
<1>2. s \in Statement /\ s.op = "add"
  BY <1>1, Catalogue, StatementType DEF Succeeds
<1>3. CASE s.table \in present
  <2>1. PICK x \in Feature : s.features = {x}
    BY <1>1, <1>2, OneAtATime
  <2>2. s.features \cap schema[s.table] # {}
    BY <1>2, <1>3 DEF Succeeds
  <2> QED
    BY <1>3, <2>1, <2>2
<1>4. CASE s.table \notin present
  <2>1. PICK g \in 1..(file - 1) : Files[g].blocking /\ s.table \in Creates(g)
    BY <1>1, <1>2, TablesComeFirst
  <2>2. g \in DOMAIN Files /\ Made(g, Len(Stmts(g)) + 1)
    BY <1>1, <2>1, Catalogue DEF RunInv, Behind
  <2> QED
    BY <1>4, <2>1, <2>2, MadeTables
<1> QED
  BY <1>3, <1>4

-----------------------------------------------------------------------------
LEMMA InitInv == Init => RunInv
<1> SUFFICES ASSUME Init PROVE RunInv
  OBVIOUS
<1>1. file \in 1..(Len(Files) + 1) /\ stmt \in Nat
  BY Catalogue DEF Init
<1>2. schema \in [Table -> SUBSET Feature]
  BY DEF Init
<1>3. budget \in [boots : 0..MaxRestarts, faults : 0..MaxFaults, drops : 0..MaxDrops]
  BY MigrationBounds DEF Init
<1>4. TypeOK
  BY <1>1, <1>2, <1>3 DEF Init, TypeOK
<1>5. file <= Len(Files) => Made(file, stmt)
  BY Catalogue DEF Init, Made
<1> QED
  BY <1>4, <1>5 DEF Init, RunInv, BlockingFirst, Behind, Restored, EndIsEnd

(* A step that leaves the database alone keeps what was made. *)
LEMMA DatabaseSame ==
  ASSUME RunInv, UNCHANGED <<database, dropped>>
  PROVE  /\ \A f \in recorded' : Made(f, Len(Stmts(f)) + 1)'
         /\ BlockingFirst'
BY DEF RunInv, database, Made, BlockingFirst

-----------------------------------------------------------------------------
(* The boots, and what people do *)

LEMMA BootKeeps == ASSUME RunInv, Boot \/ BootFails \/ GoesDown PROVE RunInv'
<1>1. server' \in {"down", "migrating", "failed"} /\ UNCHANGED <<database, dropped>>
  BY DEF Boot, BootFails, GoesDown
<1>2. /\ \A f \in recorded' : Made(f, Len(Stmts(f)) + 1)'
      /\ BlockingFirst'
  BY <1>1, DatabaseSame
<1>3. recorded' = recorded /\ present' = present /\ schema' = schema
  BY <1>1 DEF database
<1>4. CASE Boot
  <2>1. /\ applied' = recorded /\ file' = 1 /\ stmt' = 0 /\ excused' = {} /\ faulty' = FALSE
        /\ server' = "migrating" /\ budget' = budget
    BY <1>4 DEF Boot
  <2>2. file' \in 1..(Len(Files) + 1) /\ 1..(file' - 1) = {}
    BY <2>1, Catalogue
  <2>3. TypeOK'
    <3>1. schema' \in [Table -> SUBSET Feature]
      BY <1>3, Zenon DEF RunInv, TypeOK
    <3> QED
      BY <1>1, <1>3, <2>1, <2>2, <3>1 DEF RunInv, TypeOK
  <2>4. (file <= Len(Files) => Made(file, stmt))'
    BY <2>1, Catalogue DEF Made
  <2>5. Behind' /\ Restored'
    BY <2>1, <2>2, Catalogue DEF Behind, Restored
  <2> QED
    BY <1>2, <1>3, <2>1, <2>3, <2>4, <2>5 DEF RunInv, EndIsEnd
<1>5. CASE BootFails \/ GoesDown
  <2>1. /\ UNCHANGED runner /\ server' \in {"down", "failed"}
        /\ excused' \in {excused, {}} /\ faulty' \in {faulty, TRUE}
        /\ \E what \in {"faults", "boots"} : Spend(what)
    BY <1>5 DEF BootFails, GoesDown
  <2>2. budget' \in [boots : 0..MaxRestarts, faults : 0..MaxFaults, drops : 0..MaxDrops]
    BY <2>1, MigrationBounds DEF Spend, RunInv, TypeOK
  <2>3. TypeOK'
    <3>1. schema' \in [Table -> SUBSET Feature]
      BY <1>3, Zenon DEF RunInv, TypeOK
    <3> QED
      BY <1>1, <1>3, <2>1, <2>2, <3>1 DEF RunInv, TypeOK, runner
  <2>4. (file <= Len(Files) => Made(file, stmt))'
    BY <1>1, <1>3, <2>1 DEF RunInv, runner, Made
  <2> QED
    BY <1>2, <1>3, <2>1, <2>3, <2>4 DEF RunInv, runner, Behind, Restored, EndIsEnd
<1> QED
  BY <1>4, <1>5

LEMMA DropKeeps == ASSUME RunInv, NEW t \in Table, DropTable(t) PROVE RunInv'
<1>1. /\ present' = present \ {t} /\ schema' = [schema EXCEPT ![t] = {}]
      /\ excused' = excused \cup {t} /\ dropped' = dropped \cup {t}
      /\ UNCHANGED <<server, runner, recorded, faulty>> /\ Spend("drops")
  BY DEF DropTable
<1>2. schema \in [Table -> SUBSET Feature]
  BY Zenon DEF RunInv, TypeOK
<1>3. \A u \in Table : u \in dropped' \/ schema[u] \subseteq schema'[u]
  BY <1>1, <1>2
<1>4. \A f \in DOMAIN Files, n \in Nat : Made(f, n) => Made(f, n)'
  BY <1>1, <1>3, MadeStays
<1>5. TypeOK'
  <2>1. schema' \in [Table -> SUBSET Feature]
    BY <1>1, <1>2
  <2>2. budget' \in [boots : 0..MaxRestarts, faults : 0..MaxFaults, drops : 0..MaxDrops]
    BY <1>1, MigrationBounds DEF Spend, RunInv, TypeOK
  <2> QED
    BY <1>1, <2>1, <2>2 DEF RunInv, TypeOK, runner
<1>6. \A f \in recorded' : Made(f, Len(Stmts(f)) + 1)'
  BY <1>1, <1>4, Catalogue DEF RunInv, TypeOK
<1>7. (file <= Len(Files) => Made(file, stmt))'
  <2>1. file \in 1..(Len(Files) + 1) /\ stmt \in Nat
    BY DEF RunInv, TypeOK
  <2> QED
    BY <1>1, <1>4, <2>1, Catalogue DEF RunInv, runner
<1>8. present \cup excused \subseteq present' \cup excused'
  BY <1>1
<1>9. Restored'
  BY <1>1, <1>8 DEF RunInv, Restored, runner
<1> QED
  BY <1>1, <1>5, <1>6, <1>7, <1>9 DEF RunInv, runner, BlockingFirst, Behind, EndIsEnd

-----------------------------------------------------------------------------
(* A file is passed, or begun *)

LEMMA SkipKeeps == ASSUME RunInv, SkipsFile PROVE RunInv'
<1>1. /\ server = "migrating" /\ file \in DOMAIN Files /\ file \in Nat /\ file \in applied
      /\ file' = file + 1 /\ stmt' = 0 /\ applied' = applied
      /\ server' = server /\ UNCHANGED <<database, dropped, faulty>>
  BY Catalogue DEF SkipsFile, AtFile, NextFile, RunInv, TypeOK
<1>2. /\ excused' = excused \/ excused' = excused \cup Creates(file)
      /\ Creates(file) \subseteq present \cup excused'
      /\ budget' \in [boots : 0..MaxRestarts, faults : 0..MaxFaults, drops : 0..MaxDrops]
  BY MigrationBounds DEF SkipsFile, Spend, RunInv, TypeOK
<1>3. /\ \A f \in recorded' : Made(f, Len(Stmts(f)) + 1)'
      /\ BlockingFirst'
  BY <1>1, DatabaseSame
<1>4. recorded' = recorded /\ present' = present /\ schema' = schema
  BY <1>1 DEF database
<1>5. 1..(file' - 1) = 1..(file - 1) \cup {file} /\ file' \in 1..(Len(Files) + 1)
  BY <1>1, Catalogue
<1>6. TypeOK'
  <2>1. schema' \in [Table -> SUBSET Feature]
    BY <1>4, Zenon DEF RunInv, TypeOK
  <2>2. Creates(file) \subseteq Table
    BY DEF Creates
  <2> QED
    BY <1>1, <1>2, <1>4, <1>5, <2>1, <2>2 DEF RunInv, TypeOK
<1>7. (file <= Len(Files) => Made(file, stmt))'
  BY <1>1, <1>5, Catalogue DEF Made
<1>8. Behind'
  BY <1>1, <1>4, <1>5 DEF RunInv, Behind
<1>9. Restored'
  <2>1. \A g \in 1..(file' - 1) : Files[g].blocking => Creates(g) \subseteq present' \cup excused'
    BY <1>1, <1>2, <1>4, <1>5 DEF RunInv, Restored
  <2>2. file' <= Len(Files) => \A i \in DOMAIN Stmts(file') : ~(i < stmt')
    BY <1>1, <1>5, Catalogue
  <2> QED
    BY <2>1, <2>2 DEF Restored
<1> QED
  BY <1>1, <1>3, <1>4, <1>6, <1>7, <1>8, <1>9 DEF RunInv, EndIsEnd

LEMMA StartKeeps == ASSUME RunInv, StartsFile PROVE RunInv'
<1>1. /\ server = "migrating" /\ file \in DOMAIN Files /\ stmt = 0 /\ stmt' = 1
      /\ UNCHANGED <<server, applied, file, database, excused, dropped, faulty, budget>>
  BY Catalogue DEF StartsFile, AtFile, NextStatement, RunInv, TypeOK
<1>2. recorded' = recorded /\ present' = present /\ schema' = schema
  BY <1>1 DEF database
<1>3. /\ \A f \in recorded' : Made(f, Len(Stmts(f)) + 1)'
      /\ BlockingFirst'
  BY <1>1, DatabaseSame
<1>4. TypeOK'
  <2>1. schema' \in [Table -> SUBSET Feature]
    BY <1>2, Zenon DEF RunInv, TypeOK
  <2> QED
    BY <1>1, <1>2, <2>1 DEF RunInv, TypeOK
<1>5. \A i \in DOMAIN Stmts(file) : ~(i < stmt')
  BY <1>1, Catalogue
<1>6. (file <= Len(Files) => Made(file, stmt))'
  BY <1>1, <1>5 DEF Made
<1> QED
  BY <1>1, <1>2, <1>3, <1>4, <1>5, <1>6 DEF RunInv, Behind, Restored, EndIsEnd

-----------------------------------------------------------------------------
(* A statement *)

LEMMA StatementKeeps == ASSUME RunInv, StatementDone PROVE RunInv'
<1> DEFINE s == Stmts(file)[stmt]
<1>1. /\ server = "migrating" /\ file \in DOMAIN Files /\ stmt \in DOMAIN Stmts(file)
      /\ stmt \in Nat /\ stmt' = stmt + 1 /\ s \in Statement
      /\ UNCHANGED <<server, applied, file, excused, dropped, faulty, budget>>
  BY Catalogue DEF StatementDone, AtStatement, NextStatement, RunInv, TypeOK
<1>2. \/ Succeeds(s) /\ Executes(s)
      \/ ~Succeeds(s) /\ Files[file].ignore /\ UNCHANGED database
  BY DEF StatementDone
<1>3. TypeOK
  BY DEF RunInv
<1>4. s.op \in {"create", "add"} /\ s.table \in Table
  BY <1>1, StatementType
<1> HIDE DEF s
<1>5. /\ present' \subseteq Table /\ schema' \in [Table -> SUBSET Feature]
      /\ present \subseteq present' /\ recorded' = recorded
      /\ \A t \in Table : schema[t] \subseteq schema'[t]
      /\ \/ s.table \in dropped
         \/ s.table \in present' /\ (s.op = "add" => s.features \subseteq schema'[s.table])
      /\ s.op = "create" => s.table \in present'
  <2>1. CASE Succeeds(s) /\ Executes(s)
    BY <1>1, <1>3, <2>1, ExecutesMakes
  <2>2. CASE ~Succeeds(s) /\ Files[file].ignore /\ UNCHANGED database
    <3>1. \/ s.table \in dropped
          \/ s.table \in present /\ s.features \subseteq schema[s.table]
      BY <2>2, IgnoredIsMade DEF s, StatementDone
    <3>2. recorded' = recorded /\ present' = present /\ schema' = schema
      BY <2>2 DEF database
    <3>3. s.op = "add"
      BY <1>4, <2>2 DEF Succeeds
    <3>4. schema \in [Table -> SUBSET Feature]
      BY <1>3, Zenon DEF TypeOK
    <3>5. present \subseteq Table
      BY <1>3 DEF TypeOK
    <3> QED
      BY <3>1, <3>2, <3>3, <3>4, <3>5
  <2> QED
    BY <1>2, <2>1, <2>2
<1>6. TypeOK'
  BY <1>1, <1>3, <1>5 DEF TypeOK
<1>7. \A f \in DOMAIN Files, n \in Nat : Made(f, n) => Made(f, n)'
  BY <1>1, <1>5, MadeStays
<1>8. \A f \in recorded' : Made(f, Len(Stmts(f)) + 1)'
  BY <1>5, <1>7, Catalogue DEF RunInv, TypeOK
<1>9. \A i \in DOMAIN Stmts(file) : i < stmt' => i < stmt \/ i = stmt
  BY <1>1, Catalogue
<1>10. Made(file, stmt)'
  <2>1. file <= Len(Files)
    BY <1>1, Catalogue
  <2>2. \A i \in DOMAIN Stmts(file) :
          i < stmt => \/ Stmts(file)[i].table \in dropped'
                      \/ /\ Stmts(file)[i].table \in present'
                         /\ Stmts(file)[i].op = "add" =>
                              Stmts(file)[i].features \subseteq schema'[Stmts(file)[i].table]
    <3>1. \A i \in DOMAIN Stmts(file) : Stmts(file)[i].table \in Table
      BY <1>1, Catalogue, StatementType
    <3> QED
      BY <1>1, <1>5, <2>1, <3>1 DEF RunInv, Made
  <2> QED
    BY <1>1, <1>5, <1>9, <2>2 DEF Made, s
<1>11. Restored'
  <2>1. present \cup excused \subseteq present' \cup excused'
    BY <1>1, <1>5
  <2>2. /\ \A g \in 1..(file - 1) : Files[g].blocking => Creates(g) \subseteq present \cup excused
        /\ \A i \in DOMAIN Stmts(file) :
             i < stmt /\ Stmts(file)[i].op = "create" =>
               Stmts(file)[i].table \in present \cup excused
    BY <1>1, Catalogue DEF RunInv, Restored
  <2> QED
    BY <1>1, <1>5, <1>9, <2>1, <2>2 DEF Restored, s
<1> QED
  BY <1>1, <1>5, <1>6, <1>8, <1>10, <1>11 DEF RunInv, BlockingFirst, Behind, EndIsEnd

(* A file fails: the run is over, or goes on behind a file that does not block. *)
LEMMA FailKeeps ==
  ASSUME RunInv, AtStatement \/ AtRecord, FileFails, faulty' \in BOOLEAN,
         budget' \in [boots : 0..MaxRestarts, faults : 0..MaxFaults, drops : 0..MaxDrops]
  PROVE  RunInv'
<1>1. /\ server = "migrating" /\ file \in DOMAIN Files /\ file \in Nat
      /\ UNCHANGED <<database, excused, dropped>>
  BY Catalogue DEF AtStatement, AtRecord, FileFails, RunInv, TypeOK
<1>2. recorded' = recorded /\ present' = present /\ schema' = schema
  BY <1>1 DEF database
<1>3. /\ \A f \in recorded' : Made(f, Len(Stmts(f)) + 1)'
      /\ BlockingFirst'
  BY <1>1, DatabaseSame
<1>4. schema' \in [Table -> SUBSET Feature]
  BY <1>2, Zenon DEF RunInv, TypeOK
<1>5. CASE Files[file].blocking /\ server' = "failed" /\ UNCHANGED runner
  <2>1. TypeOK'
    BY <1>1, <1>2, <1>4, <1>5 DEF RunInv, TypeOK, runner
  <2>2. (file <= Len(Files) => Made(file, stmt))'
    BY <1>1, <1>2, <1>5 DEF RunInv, runner, Made
  <2> QED
    BY <1>2, <1>3, <1>5, <2>1, <2>2 DEF RunInv, runner, Behind, Restored, EndIsEnd
<1>6. CASE ~Files[file].blocking /\ NextFile /\ UNCHANGED server
  <2>1. file' = file + 1 /\ stmt' = 0 /\ applied' = applied /\ server' = server
    BY <1>6 DEF NextFile
  <2>2. 1..(file' - 1) = 1..(file - 1) \cup {file} /\ file' \in 1..(Len(Files) + 1)
    BY <1>1, <2>1, Catalogue
  <2>3. TypeOK'
    BY <1>1, <1>2, <1>4, <2>1, <2>2 DEF RunInv, TypeOK
  <2>4. (file <= Len(Files) => Made(file, stmt))'
    BY <2>1, <2>2, Catalogue DEF Made
  <2>5. Behind'
    BY <1>1, <1>2, <1>6, <2>1, <2>2 DEF RunInv, Behind
  <2>6. Restored'
    <3>1. \A g \in 1..(file' - 1) : Files[g].blocking => Creates(g) \subseteq present' \cup excused'
      BY <1>1, <1>2, <1>6, <2>2 DEF RunInv, Restored
    <3>2. file' <= Len(Files) => \A i \in DOMAIN Stmts(file') : ~(i < stmt')
      BY <2>1, <2>2, Catalogue
    <3> QED
      BY <3>1, <3>2 DEF Restored
  <2> QED
    BY <1>1, <1>2, <1>3, <2>1, <2>3, <2>4, <2>5, <2>6 DEF RunInv, EndIsEnd
<1> QED
  BY <1>5, <1>6 DEF FileFails

-----------------------------------------------------------------------------
(* The record, and the end *)

LEMMA RecordKeeps == ASSUME RunInv, RecordsFile PROVE RunInv'
<1>1. /\ server = "migrating" /\ file \in DOMAIN Files /\ file \in Nat
      /\ stmt = Len(Stmts(file)) + 1 /\ recorded' = recorded \cup {file}
      /\ file' = file + 1 /\ stmt' = 0 /\ applied' = applied
      /\ UNCHANGED <<server, present, schema, excused, dropped, faulty, budget>>
  BY Catalogue DEF RecordsFile, AtRecord, NextFile, RunInv, TypeOK
<1>2. 1..(file' - 1) = 1..(file - 1) \cup {file} /\ file' \in 1..(Len(Files) + 1)
  BY <1>1, Catalogue
<1>3. file <= Len(Files)
  BY <1>1, Catalogue
<1>4. TypeOK'
  <2>1. schema' \in [Table -> SUBSET Feature]
    BY <1>1, Zenon DEF RunInv, TypeOK
  <2> QED
    BY <1>1, <1>2, <2>1 DEF RunInv, TypeOK
<1>5. \A f \in recorded' : Made(f, Len(Stmts(f)) + 1)'
  BY <1>1, <1>3 DEF RunInv, Made
<1>6. BlockingFirst' /\ Behind'
  BY <1>1, <1>2 DEF RunInv, BlockingFirst, Behind
<1>7. (file <= Len(Files) => Made(file, stmt))'
  BY <1>1, <1>2, Catalogue DEF Made
<1>8. Restored'
  <2>1. Creates(file) \subseteq present \cup excused
    <3>1. \A i \in DOMAIN Stmts(file) : i < stmt
      BY <1>1, Catalogue
    <3> QED
      BY <1>1, <1>3, <3>1 DEF RunInv, Restored, Creates
  <2>2. \A g \in 1..(file' - 1) : Files[g].blocking => Creates(g) \subseteq present' \cup excused'
    BY <1>1, <1>2, <2>1 DEF RunInv, Restored
  <2>3. file' <= Len(Files) => \A i \in DOMAIN Stmts(file') : ~(i < stmt')
    BY <1>1, <1>2, Catalogue
  <2> QED
    BY <2>2, <2>3 DEF Restored
<1>9. applied' \subseteq recorded'
  BY <1>1 DEF RunInv
<1> QED
  BY <1>1, <1>4, <1>5, <1>6, <1>7, <1>8, <1>9 DEF RunInv, EndIsEnd

LEMMA FinishKeeps == ASSUME RunInv, Finishes PROVE RunInv'
<1>1. /\ server = "migrating" /\ file > Len(Files) /\ server' = "done"
      /\ UNCHANGED <<runner, database, excused, dropped, faulty, budget>>
  BY DEF Finishes
<1>2. UNCHANGED <<recorded, present, schema, applied, file, stmt>>
  BY <1>1 DEF runner, database
<1>3. TypeOK'
  <2>1. schema' \in [Table -> SUBSET Feature]
    BY <1>2, Zenon DEF RunInv, TypeOK
  <2> QED
    BY <1>1, <1>2, <2>1 DEF RunInv, TypeOK
<1> QED
  BY <1>1, <1>2, <1>3 DEF RunInv, Made, BlockingFirst, Behind, Restored, EndIsEnd

-----------------------------------------------------------------------------
(* Hence every step keeps the invariant. *)
LEMMA StepInv == RunInv /\ [Next]_vars => RunInv'
<1> SUFFICES ASSUME RunInv, [Next]_vars PROVE RunInv'
  OBVIOUS
<1>1. CASE Boot \/ BootFails \/ GoesDown
  BY <1>1, BootKeeps
<1>2. ASSUME NEW t \in Table, DropTable(t) PROVE RunInv'
  BY <1>2, DropKeeps
<1>3. CASE SkipsFile
  BY <1>3, SkipKeeps
<1>4. CASE StartsFile
  BY <1>4, StartKeeps
<1>5. CASE StatementDone
  BY <1>5, StatementKeeps
<1>6. CASE StatementFails
  <2>1. AtStatement /\ FileFails /\ faulty' = faulty /\ budget' = budget
    BY <1>6 DEF StatementFails
  <2> QED
    BY <2>1, FailKeeps DEF RunInv, TypeOK
<1>7. CASE DatabaseFails
  <2>1. (AtStatement \/ AtRecord) /\ Spend("faults") /\ faulty' = TRUE /\ FileFails
    BY <1>7 DEF DatabaseFails
  <2>2. budget' \in [boots : 0..MaxRestarts, faults : 0..MaxFaults, drops : 0..MaxDrops]
    BY <2>1, MigrationBounds DEF Spend, RunInv, TypeOK
  <2> QED
    BY <2>1, <2>2, FailKeeps
<1>8. CASE RecordsFile
  BY <1>8, RecordKeeps
<1>9. CASE Finishes
  BY <1>9, FinishKeeps
<1>10. CASE UNCHANGED vars
  <2>1. UNCHANGED <<server, applied, file, stmt, recorded, present, schema, excused,
                    dropped, faulty, budget>>
    BY <1>10 DEF vars, runner, database
  <2>2. TypeOK'
    <3>1. schema' \in [Table -> SUBSET Feature]
      BY <2>1, Zenon DEF RunInv, TypeOK
    <3> QED
      BY <2>1, <3>1 DEF RunInv, TypeOK
  <2> QED
    BY <2>1, <2>2 DEF RunInv, Made, BlockingFirst, Behind, Restored, EndIsEnd
<1> QED
  BY <1>1, <1>2, <1>3, <1>4, <1>5, <1>6, <1>7, <1>8, <1>9, <1>10 DEF Next, Runs

(* The invariant of the runner. *)
THEOREM Invariant == Spec => []RunInv
BY InitInv, StepInv, PTL DEF Spec

(* A record is never ahead of the schema, for any catalogue, wherever the process
   dies and whatever is refused or ignored. *)
THEOREM RecordsAreTrue == Spec => []RecordedIsMade
<1>1. RunInv => RecordedIsMade
  BY DEF RunInv, RecordedIsMade
<1> QED
  BY <1>1, Invariant, PTL

(* A file is recorded only after all the blocking files before it. *)
THEOREM NothingOnFailed == Spec => []BlockingFirst
<1>1. RunInv => BlockingFirst
  BY DEF RunInv
<1> QED
  BY <1>1, Invariant, PTL

(* A run that comes to its end has put back the tables of the blocking files,
   those recorded long ago included. *)
THEOREM TablesReturn == Spec => []TablesComeBack
<1>1. RunInv => TablesComeBack
  <2> SUFFICES ASSUME RunInv, server = "done", NEW f \in DOMAIN Files, Files[f].blocking
               PROVE  Creates(f) \subseteq present \cup excused
    BY DEF TablesComeBack
  <2>1. f \in 1..(file - 1)
    BY Catalogue DEF RunInv, EndIsEnd, TypeOK
  <2> QED
    BY <2>1 DEF RunInv, Restored
<1> QED
  BY <1>1, Invariant, PTL
=============================================================================
