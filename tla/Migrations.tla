----------------------------- MODULE Migrations -----------------------------
(***************************************************************************)
(* internal/database/migrate.go: versions of the schema are applied and    *)
(* rolled back, one transaction each, by processes that may run at the     *)
(* same time and may have been built with different sets of migrations.    *)
(* A transaction of the database is one step; its SQL is idempotent, as    *)
(* the migrations under migrations/ are.                                   *)
(***************************************************************************)
EXTENDS Integers

CONSTANTS
    Migrator,       \* processes that migrate the database
    Embedded,       \* Embedded[p]: the versions in p's binary, ascending from 1
    NoDownSQL,      \* versions without a down file
    MaxCommands     \* bound: commands begun by all processes

\* Every binary numbers its migrations without a gap.
EmbeddedAssumption ==
    /\ \A p \in Migrator : \E n \in Embedded[p] \cup {0} : n \in Nat /\ Embedded[p] = 1..n
    /\ MaxCommands \in Nat

Version == UNION {Embedded[p] : p \in Migrator}

VARIABLES
    schema,         \* versions whose tables exist
    versions,       \* rows of schema_migrations
    migrator,       \* per process: its command, what it read, its answer
    commands,       \* commands begun
    rolledBack      \* some down migration was committed

migrateVars == <<schema, versions, migrator, commands, rolledBack>>

MigrateTypeOK ==
    /\ schema \subseteq Version /\ versions \subseteq Version
    /\ migrator \in [Migrator -> [command : {"none", "up", "down", "reset"}, at : {"idle", "read", "run", "ok", "error"},
                                  applied : SUBSET Version, next : Version \cup {0}]]
    /\ commands \in 0..MaxCommands /\ rolledBack \in BOOLEAN

MigrateInit ==
    /\ schema = {} /\ versions = {}
    /\ migrator = [p \in Migrator |-> [command |-> "none", at |-> "idle", applied |-> {}, next |-> 0]]
    /\ commands = 0 /\ rolledBack = FALSE

LastVersion(S) == CHOOSE v \in S : \A w \in S : w <= v
FirstVersion(S) == CHOOSE v \in S : \A w \in S : v <= w

\* MigrateUp, MigrateDown or MigrateReset is called.
Begin(p, command) ==
    /\ migrator[p].at \in {"idle", "ok", "error"} /\ commands < MaxCommands
    /\ migrator' = [migrator EXCEPT ![p] = [command |-> command, at |-> "read", applied |-> {}, next |-> 0]]
    /\ commands' = commands + 1 /\ UNCHANGED <<schema, versions, rolledBack>>

\* getAppliedMigrations, and the decision what to run first. Reset reads
\* once more inside MigrateDown; it goes on with up when nothing is applied.
GetAppliedMigrations(p) ==
    LET s == migrator[p]
        up == s.command = "up" \/ (s.command = "reset" /\ versions = {})
        pending == Embedded[p] \ versions IN
    /\ s.at = "read"
    /\ migrator' = [migrator EXCEPT ![p] =
         IF up
         THEN [command |-> "up", applied |-> versions,
               at |-> IF pending = {} THEN "ok" ELSE "run", next |-> IF pending = {} THEN 0 ELSE FirstVersion(pending)]
         ELSE IF versions = {} THEN [s EXCEPT !.at = "ok"]
         ELSE IF LastVersion(versions) \in Embedded[p] THEN [s EXCEPT !.at = "run", !.applied = versions, !.next = LastVersion(versions)]
         ELSE [s EXCEPT !.at = "error", !.applied = versions]]
    /\ UNCHANGED <<schema, versions, commands, rolledBack>>

\* The row of a version can be inserted: version is the primary key.
CanInsert(v) == v \notin versions
\* Wrong on purpose: the SQL of a migration is not rolled back with its row.
AfterFailedCommit(v) == schema \union {v}
\* What is left of a migration whose transaction fails.
AfterRollback(v) == schema

\* What a process does after it ran version v: up goes on with the next one
\* of those it had read as missing; reset reads again; down returns.
Continue(p, v) ==
    LET s == migrator[p]
        pending == {w \in Embedded[p] \ s.applied : w > v} IN
    CASE s.command = "up" -> IF pending = {} THEN [s EXCEPT !.at = "ok", !.next = 0] ELSE [s EXCEPT !.next = FirstVersion(pending)]
      [] s.command = "reset" -> [s EXCEPT !.at = "read", !.next = 0]
      [] OTHER -> [s EXCEPT !.at = "ok", !.next = 0]

\* runMigration(up = true), committed or failed; without an up file, and when
\* another process has inserted the version meanwhile, it always fails.
RunUp(p, committed) ==
    LET v == migrator[p].next IN
    /\ migrator[p].at = "run" /\ migrator[p].command = "up"
    /\ IF committed /\ CanInsert(v)
       THEN /\ schema' = schema \union {v} /\ versions' = versions \union {v}
            /\ migrator' = [migrator EXCEPT ![p] = Continue(p, v)]
       ELSE /\ schema' = AfterRollback(v) /\ UNCHANGED versions
            /\ migrator' = [migrator EXCEPT ![p].at = "error"]
    /\ UNCHANGED <<commands, rolledBack>>

\* runMigration(up = false): DELETE succeeds also when the row has gone.
RunDown(p, committed) ==
    LET v == migrator[p].next IN
    /\ migrator[p].at = "run" /\ migrator[p].command \in {"down", "reset"}
    /\ IF committed /\ v \notin NoDownSQL
       THEN /\ schema' = schema \ {v} /\ versions' = versions \ {v}
            /\ migrator' = [migrator EXCEPT ![p] = Continue(p, v)] /\ rolledBack' = TRUE
       ELSE /\ migrator' = [migrator EXCEPT ![p].at = "error"] /\ UNCHANGED <<schema, versions, rolledBack>>
    /\ UNCHANGED commands

MigrateNext ==
    \E p \in Migrator :
        \/ \E command \in {"up", "down", "reset"} : Begin(p, command)
        \/ GetAppliedMigrations(p)
        \/ \E committed \in BOOLEAN : RunUp(p, committed) \/ RunDown(p, committed)

MigrateSpec == MigrateInit /\ [][MigrateNext]_migrateVars

-----------------------------------------------------------------------------
VersionsInStep ==
    /\ schema = versions
    /\ ~rolledBack =>
         /\ \A v \in versions : 1..v \subseteq versions
         /\ \A p \in Migrator : (migrator[p].command = "up" /\ migrator[p].at = "ok") => Embedded[p] \subseteq versions

\* The versions that are recorded are those whose tables exist, whatever
\* processes ran together and wherever one failed (runMigration); as long as
\* nobody rolls back they are applied without a gap; and a MigrateUp that
\* returned nil then left every version of its binary applied.
SchemaConsistent == MigrateTypeOK /\ VersionsInStep
=============================================================================
