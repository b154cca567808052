------------------------------ MODULE Migration ------------------------------
(***************************************************************************)
(* Startup migration (runStartupMigration of internal/app/app.go) and the  *)
(* migrate command: internal/migration/migration.go, run by several        *)
(* processes against one database.                                         *)
(*                                                                         *)
(* golang-migrate is external: it takes an advisory lock that belongs to   *)
(* its connection, waits for it for a limited time, refuses a version that *)
(* is marked dirty, and runs each migration between marking its version    *)
(* dirty and marking it clean.  A process may die, or lose its connection, *)
(* between any two steps.                                                  *)
(***************************************************************************)
EXTENDS Integers

CONSTANTS
    Processes,
    Latest,       \* number of migrations
    Goals,        \* directions in use: a subset of {"up", "down"}
    CreateSchema  \* migration.create_schema with a schema, not MySQL

ASSUME LatestAssumption == Latest \in Nat
ASSUME GoalsAssumption == Goals \subseteq {"up", "down"}
ASSUME CreateSchemaAssumption == CreateSchema \in BOOLEAN

Nobody == "nobody"

ASSUME NobodyAssumption == Nobody \notin Processes

VARIABLES
    schema,         \* whether the schema exists
    schemaLock,     \* holder of the advisory lock of createSchema
    migrationLock,  \* holder of the migration lock
    version,        \* the version table: version ...
    dirty,          \* ... and its mark
    content,        \* the migrations whose statements have taken effect: 1..content
    procs

migrationVars == <<schema, schemaLock, migrationLock, version, dirty, content, procs>>

MigrationStages == {"off", "schema", "looking", "creating", "waiting", "reading",
                    "marked", "ran", "done", "failed"}

MigrationInit ==
    /\ schema \in BOOLEAN
    /\ schemaLock = Nobody
    /\ migrationLock = Nobody
    /\ version = 0
    /\ dirty = FALSE
    /\ content = 0
    /\ procs = [p \in Processes |-> [stage |-> "off", goal |-> "up", saw |-> FALSE]]

At(p, stage) == procs[p].stage = stage

Go(p, stage) == procs' = [procs EXCEPT ![p].stage = stage]

Tables == <<version, dirty, content>>

-----------------------------------------------------------------------------
(* ensureSchema and createSchema *)

Begin(p, goal) ==
    /\ At(p, "off")
    /\ procs' = [procs EXCEPT ![p] =
                   [stage |-> IF CreateSchema THEN "schema" ELSE "waiting",
                    goal |-> goal, saw |-> FALSE]]
    /\ UNCHANGED <<schema, schemaLock, migrationLock, Tables>>

SchemaLockFree(p) == schemaLock = Nobody

\* pg_advisory_xact_lock: waits as long as it takes.
LockSchema(p) ==
    /\ At(p, "schema")
    /\ SchemaLockFree(p)
    /\ schemaLock' = p
    /\ Go(p, "looking")
    /\ UNCHANGED <<schema, migrationLock, Tables>>

\* CREATE SCHEMA IF NOT EXISTS looks first ...
LookForSchema(p) ==
    /\ At(p, "looking")
    /\ procs' = [procs EXCEPT ![p].stage = "creating", ![p].saw = schema]
    /\ UNCHANGED <<schema, schemaLock, migrationLock, Tables>>

FaultySchemaUnlocked(p) == schemaLock

\* The lock belongs to the transaction, and ends with it.
SchemaUnlocked(p) == IF schemaLock = p THEN Nobody ELSE schemaLock

\* ... and then inserts, which fails if another transaction has done so since.
CommitSchema(p) ==
    /\ At(p, "creating")
    /\ schema' = TRUE
    /\ schemaLock' = SchemaUnlocked(p)
    /\ Go(p, IF schema /\ ~procs[p].saw THEN "failed" ELSE "waiting")
    /\ UNCHANGED <<migrationLock, Tables>>

-----------------------------------------------------------------------------
(* Up and Down *)

LockFree(p) == migrationLock = Nobody

Lock(p) ==
    /\ At(p, "waiting")
    /\ LockFree(p)
    /\ migrationLock' = p
    /\ Go(p, "reading")
    /\ UNCHANGED <<schema, schemaLock, Tables>>

\* The migration lock belongs to the connection, and ends with it.
Unlocked(p) == IF migrationLock = p THEN Nobody ELSE migrationLock

FaultyOutcome(result) == "done"

\* What Run makes of the result of Up or Down: only ErrNoChange is no error.
Outcome(result) == IF result \in {"nil", "ErrNoChange"} THEN "done" ELSE "failed"

\* The lock is not had in time.
LockTimeout(p) ==
    /\ At(p, "waiting")
    /\ ~LockFree(p)
    /\ Go(p, Outcome("ErrLockTimeout"))
    /\ UNCHANGED <<schema, schemaLock, migrationLock, Tables>>

\* The version that comes next in the direction of p; its own if there is none.
Following(p) ==
    IF procs[p].goal = "up"
    THEN IF version < Latest THEN version + 1 ELSE version
    ELSE IF version > 0 THEN version - 1 ELSE version

\* ErrDirty
Refuses == dirty

\* A dirty version is refused.
Refuse(p) ==
    /\ At(p, "reading")
    /\ Refuses
    /\ migrationLock' = Unlocked(p)
    /\ Go(p, Outcome("ErrDirty"))
    /\ UNCHANGED <<schema, schemaLock, Tables>>

\* ErrNoChange, or the last migration is done: Run returns without error, unless
\* the migrator cannot be closed.
Finish(p) ==
    /\ At(p, "reading")
    /\ ~Refuses
    /\ Following(p) = version
    /\ migrationLock' = Unlocked(p)
    /\ Go(p, Outcome("ErrNoChange")) \/ Go(p, "failed")
    /\ UNCHANGED <<schema, schemaLock, Tables>>

FaultyMark == FALSE

\* SetVersion(v, dirty = true) before a migration.
Mark == TRUE

MarkDirty(p) ==
    /\ At(p, "reading")
    /\ ~Refuses
    /\ Following(p) # version
    /\ version' = Following(p)
    /\ dirty' = Mark
    /\ Go(p, "marked")
    /\ UNCHANGED <<schema, schemaLock, migrationLock, content>>

\* The statements of the migration take effect.
RunStatements(p) ==
    /\ At(p, "marked")
    /\ content' = version
    /\ Go(p, "ran")
    /\ UNCHANGED <<schema, schemaLock, migrationLock, version, dirty>>

MarkClean(p) ==
    /\ At(p, "ran")
    /\ dirty' = FALSE
    /\ Go(p, "reading")
    /\ UNCHANGED <<schema, schemaLock, migrationLock, version, content>>

-----------------------------------------------------------------------------
(* Failures *)

\* An error of the database or of a migration, or the process dies.  Statements
\* that were running may have taken effect.
Abort(p) ==
    /\ procs[p].stage \notin {"off", "done", "failed"}
    /\ schemaLock' = SchemaUnlocked(p)
    /\ migrationLock' = Unlocked(p)
    /\ content' \in {content} \cup (IF At(p, "marked") THEN {version} ELSE {})
    /\ Go(p, "failed")
    /\ UNCHANGED <<schema, version, dirty>>

\* The process exits, and may be started again.
Leave(p) ==
    /\ procs[p].stage \in {"done", "failed"}
    /\ Go(p, "off")
    /\ UNCHANGED <<schema, schemaLock, migrationLock, Tables>>

-----------------------------------------------------------------------------
Step(p) ==
    \/ LockSchema(p) \/ LookForSchema(p) \/ CommitSchema(p)
    \/ Lock(p) \/ LockTimeout(p) \/ Refuse(p) \/ Finish(p)
    \/ MarkDirty(p) \/ RunStatements(p) \/ MarkClean(p)

MigrationNext ==
    \E p \in Processes :
        \/ \E goal \in Goals : Begin(p, goal)
        \/ Step(p) \/ Abort(p) \/ Leave(p)

MigrationSpec == MigrationInit /\ [][MigrationNext]_migrationVars

\* The code runs on; waiting for the migration lock ends with its timeout, and
\* the advisory lock of the schema is granted to each who waits for it.
FairMigrationSpec ==
    /\ MigrationSpec
    /\ \A p \in Processes : WF_migrationVars(Step(p)) /\ SF_migrationVars(LockSchema(p))

-----------------------------------------------------------------------------
(* Properties *)

\* The type invariant.
MigrationTypeOK ==
    /\ schema \in BOOLEAN
    /\ schemaLock \in Processes \cup {Nobody}
    /\ migrationLock \in Processes \cup {Nobody}
    /\ version \in 0 .. Latest
    /\ dirty \in BOOLEAN
    /\ content \in 0 .. Latest
    /\ procs \in [Processes -> [stage : MigrationStages, goal : {"up", "down"}, saw : BOOLEAN]]

InMigration(p) == procs[p].stage \in {"reading", "marked", "ran"}

\* Replicas that start together are serialized (README.md:197): at most one
\* process reads the version or runs migrations (m.Up under the migration lock).
OneMigrator ==
    \A p, q \in Processes : InMigration(p) /\ InMigration(q) => p = q

\* The version table never lies: a clean version names exactly what has taken
\* effect, and a dirty one is at most one migration away from it, across crashes
\* and concurrent starts.  So no migration runs twice, or out of order.
VersionIsContent ==
    /\ ~dirty => content = version
    /\ content \in {version - 1, version, version + 1}

\* Concurrent creation of the schema never fails with a duplicate: what
\* createSchema saw is still so when it inserts (pg_advisory_xact_lock).
SchemaSeenIsCurrent ==
    \A p \in Processes : At(p, "creating") => procs[p].saw = schema

\* A process that is past its startup migration found the latest schema, or
\* brought it about; Run reports success for nothing less.  For processes that
\* only migrate up.
StartedIsMigrated ==
    Goals = {"up"} =>
        \A p \in Processes : At(p, "done") => content = Latest /\ ~dirty

\* What an interrupted migration left behind is not touched by a later start: it
\* takes a person to decide (ErrDirty is an error of Run, not ErrNoChange).
DirtyIsKept ==
    [][dirty /\ (\A p \in Processes : procs[p].stage \notin {"marked", "ran"})
         => UNCHANGED Tables]_migrationVars

\* A start ends, in service or with an error, also when the holder of a lock
\* dies.
StartEnds ==
    \A p \in Processes :
        (procs[p].stage \notin {"off", "done", "failed"})
            ~> (procs[p].stage \in {"done", "failed"})

\* The inductive invariant: the lock is held by whoever is in a migration, and
\* what such a process is about to do fits the version table.
MigrationInv ==
    /\ MigrationTypeOK
    /\ \A p \in Processes :
         /\ InMigration(p) => migrationLock = p
         /\ procs[p].stage \in {"looking", "creating"} => schemaLock = p
         /\ At(p, "creating") => procs[p].saw = schema
         /\ At(p, "marked") => dirty
         /\ At(p, "ran") => dirty /\ content = version
         /\ procs[p].stage # "off" => procs[p].goal \in Goals
    /\ VersionIsContent
    /\ StartedIsMigrated
=============================================================================
