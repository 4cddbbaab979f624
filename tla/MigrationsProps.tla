---------------------------- MODULE MigrationsProps ----------------------------
(***************************************************************************)
(* What the migration runner should guarantee.                             *)
(***************************************************************************)
EXTENDS Migrations

(* What the statements of file f before the n-th make is there. *)
Made(f, n) ==
  \A i \in DOMAIN Stmts(f) :
    i < n =>
      LET s == Stmts(f)[i] IN
      \/ s.table \in dropped
      \/ s.table \in present /\ (s.op = "add" => s.features \subseteq schema[s.table])

(* A record is never ahead of the schema, wherever the process died and whatever
   was ignored: what is recorded is there, unless a person took it away
   (migrationRunner.js:92-95). *)
RecordedIsMade == TypeOK /\ \A f \in recorded : Made(f, Len(Stmts(f)) + 1)

(* Nothing is built on a file that failed: a file is recorded only after every
   blocking file before it (migrationRunner.js:99-111). *)
BlockingFirst ==
  \A f \in recorded : \A g \in 1..(f - 1) : Files[g].blocking => g \in recorded

(* A run that comes to its end leaves every table of a blocking file in place,
   also those whose file was recorded long ago and that were removed since
   (migrationRunner.js:83-86). *)
TablesComeBack ==
  server = "done" =>
    \A f \in DOMAIN Files : Files[f].blocking => Creates(f) \subseteq present \cup excused

(* A boot without a fault of the database does not fail, however far an earlier
   one came: files can be applied again over what is there
   (migrationRunner.js:102, 142-143). *)
ReappliesSafely == server = "failed" /\ dropped = {} => faulty

(* If boots go on after the last fault, everything gets applied. *)
GetsApplied ==
  <>[](server \in {"failed", "done"} /\ (~faulty /\ dropped = {} =>
         /\ server = "done"
         /\ recorded = DOMAIN Files
         /\ \A f \in recorded : Made(f, Len(Stmts(f)) + 1)))
=============================================================================
