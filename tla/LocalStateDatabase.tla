------------------------- MODULE LocalStateDatabase -------------------------
(***************************************************************************)
(* Opening and forward-migrating the machine-shared local-state database   *)
(* (symphony/local_state/database.rs, admin.rs): several processes, of     *)
(* binaries that support different schema versions, initialize the same    *)
(* SQLite file at the same time.  Any of them may crash between two steps. *)
(*                                                                         *)
(* Each migration runs in one BEGIN IMMEDIATE transaction.  What it writes *)
(* is invisible until the commit and gone when the transaction is dropped, *)
(* so a transaction is two steps: taking the lock, and the rest up to the  *)
(* commit or the rollback.  SQLite itself is external.                     *)
(***************************************************************************)
EXTENDS Naturals

CONSTANTS
    Processes,       \* calls of initialize, each made once
    Supported,       \* process -> CURRENT_SCHEMA_VERSION of its binary
    MaxTries         \* attempts to switch to WAL within BUSY_TIMEOUT

ASSUME DatabaseAssumption ==
    /\ "none" \notin Processes
    /\ Supported \in [Processes -> Nat \ {0}]
    /\ MaxTries \in Nat

VARIABLES
    db,              \* the committed file
    lock,            \* holder of the write lock, or NoHolder
    call             \* process -> progress of its initialize

databaseVars == <<db, lock, call>>

NoHolder == "none"

\* user_version; the migrations whose objects exist; whether objects of an
\* unversioned application schema exist; the journal mode.
Database == [version : Nat, schema : SUBSET Nat, foreign : BOOLEAN,
             wal : BOOLEAN]

NewFile == [version |-> 0, schema |-> {}, foreign |-> FALSE, wal |-> FALSE]

Finals == {"Ok", "UnsupportedSchemaVersion", "UnversionedSchemaConflict",
           "DatabaseBusy", "Migration", "PostMigrationReadback", "Crashed"}
Stages == {"open", "journal", "migrate", "locked"}

Call == [stage : Stages \cup Finals, observed : Nat, next : Nat, tries : Nat]
NewCall == [stage |-> "open", observed |-> 0, next |-> 1, tries |-> 0]

\* has_application_schema: any object but SQLite's own.
HasApplicationSchema(d) == d.foreign \/ d.schema # {}

End(p, result) == call' = [call EXCEPT ![p].stage = result]

-----------------------------------------------------------------------------
(* initialize.                                                             *)

\* inspect_initial_schema: version and schema from one read snapshot.  A file
\* this binary must not touch is refused before anything is changed.
Inspect(p) ==
    /\ call[p].stage = "open"
    /\ \/ /\ db.version > Supported[p]
          /\ End(p, "UnsupportedSchemaVersion")
       \/ /\ db.version = 0 /\ HasApplicationSchema(db)
          /\ End(p, "UnversionedSchemaConflict")
       \/ /\ db.version <= Supported[p]
          /\ ~(db.version = 0 /\ HasApplicationSchema(db))
          /\ call' = [call EXCEPT ![p].stage = "journal",
                                  ![p].observed = db.version]
       \/ /\ lock # NoHolder
          /\ End(p, "DatabaseBusy")
    /\ UNCHANGED <<db, lock>>

\* configure_journal_mode_bounded succeeds; a file that is already current
\* needs nothing else.
JournalIsWal(p) ==
    /\ call[p].stage = "journal"
    /\ lock = NoHolder \/ db.wal
    /\ db' = [db EXCEPT !.wal = TRUE]
    /\ IF call[p].observed = Supported[p]
         THEN End(p, "Ok")
         ELSE End(p, "migrate")
    /\ UNCHANGED lock

\* Mutant of JournalIsBusy: the connection is used in the journal mode it has.
JournalIsBusyIgnored(p) ==
    /\ call[p].stage = "journal"
    /\ \E q \in Processes \ {p} : call[q].stage \in {"journal", "locked"}
    /\ End(p, "migrate")
    /\ UNCHANGED <<db, lock>>

\* SQLite reports busy because another call is switching the mode or holds the
\* lock: try again until the deadline.
JournalIsBusy(p) ==
    /\ call[p].stage = "journal"
    /\ \E q \in Processes \ {p} : call[q].stage \in {"journal", "locked"}
    /\ IF call[p].tries < MaxTries
         THEN call' = [call EXCEPT ![p].tries = call[p].tries + 1]
         ELSE End(p, "DatabaseBusy")
    /\ UNCHANGED <<db, lock>>

-----------------------------------------------------------------------------
(* apply_migrations, one iteration per migration this binary knows.        *)

\* BEGIN IMMEDIATE gets the lock or times out.
BeginImmediate(p) ==
    /\ call[p].stage = "migrate"
    /\ call[p].next <= Supported[p]
    /\ \/ /\ lock = NoHolder
          /\ lock' = p
          /\ End(p, "locked")
       \/ /\ lock # NoHolder
          /\ End(p, "DatabaseBusy")
          /\ UNCHANGED lock
    /\ UNCHANGED db

\* Mutants of UnderLock: the schema is not inspected again; the version is the
\* one read before the lock was taken.
UnderLockTrusting(p) ==
    LET n == call[p].next IN
    IF db.version >= n THEN "skip"
    ELSE IF db.version + 1 # n THEN "gap"
    ELSE "apply"
UnderLockStale(p) ==
    LET n == call[p].next IN
    IF call[p].observed >= n THEN "skip" ELSE "apply"

\* What is done about migration "next", from the version read under the lock.
UnderLock(p) ==
    LET n == call[p].next IN
    IF db.version >= n THEN "skip"
    ELSE IF db.version = 0 /\ HasApplicationSchema(db) THEN "conflict"
    ELSE IF db.version + 1 # n THEN "gap"
    ELSE "apply"

\* Mutant of Migrated: user_version is set although the objects are not created.
MigratedInNameOnly(d, n) == [d EXCEPT !.version = n]
\* Migration and user_version, in the same transaction.
Migrated(d, n) == [d EXCEPT !.schema = d.schema \cup {n}, !.version = n]

NextMigration(p) ==
    call' = [call EXCEPT ![p].stage = "migrate", ![p].next = call[p].next + 1]

\* The rest of the transaction.  The statements of a migration have no
\* IF NOT EXISTS: running one twice fails.  Every early return drops the
\* transaction, which rolls it back.
RunMigration(p) ==
    LET decision == UnderLock(p)
        n        == call[p].next
    IN
    /\ call[p].stage = "locked" /\ lock = p
    /\ lock' = NoHolder
    /\ \/ /\ decision = "skip"
          /\ NextMigration(p)
          /\ UNCHANGED db
       \/ /\ decision = "conflict"
          /\ End(p, "UnversionedSchemaConflict")
          /\ UNCHANGED db
       \/ /\ decision = "gap" \/ (decision = "apply" /\ n \in db.schema)
          /\ End(p, "Migration")
          /\ UNCHANGED db
       \/ /\ decision = "apply" /\ n \notin db.schema
          /\ db' = Migrated(db, n)
          /\ NextMigration(p)

\* The readback after the last migration.
Confirm(p) ==
    /\ call[p].stage = "migrate"
    /\ call[p].next > Supported[p]
    /\ End(p, IF db.version = Supported[p] THEN "Ok"
                                           ELSE "PostMigrationReadback")
    /\ UNCHANGED <<db, lock>>

\* The process dies, or an I/O error ends the call; its transaction, if any, is
\* never committed.
Crash(p) ==
    /\ call[p].stage \in Stages
    /\ End(p, "Crashed")
    /\ lock' = IF lock = p THEN NoHolder ELSE lock
    /\ UNCHANGED db

\* Some other program creates objects in the still unversioned file (external).
ForeignSchema ==
    /\ db.version = 0 /\ ~db.foreign /\ lock = NoHolder
    /\ db' = [db EXCEPT !.foreign = TRUE]
    /\ UNCHANGED <<lock, call>>

-----------------------------------------------------------------------------
(* LocalStateAdmin::check_health: a verdict on the committed file, for a   *)
(* binary that supports version v.                                         *)

Health(d, v) ==
    IF d.version > v THEN "UnsupportedSchemaVersion"
    ELSE IF d.version = 0 /\ HasApplicationSchema(d)
           THEN "UnversionedSchemaConflict"
    ELSE IF d.version < v THEN "MigrationRequired"
    ELSE IF 1..v \subseteq d.schema THEN "Current"
    ELSE "IncompleteCurrentSchema"

-----------------------------------------------------------------------------
DatabaseInit ==
    /\ db = NewFile
    /\ lock = NoHolder
    /\ call = [p \in Processes |-> NewCall]

Step(p) ==
    \/ Inspect(p)
    \/ JournalIsWal(p)
    \/ JournalIsBusy(p)
    \/ BeginImmediate(p)
    \/ RunMigration(p)
    \/ Confirm(p)

DatabaseNext ==
    \/ \E p \in Processes : Step(p)
    \/ \E p \in Processes : Crash(p)
    \/ ForeignSchema

\* A call is a synchronous function on a thread of its own.
Fairness == \A p \in Processes : WF_databaseVars(Step(p))

DatabaseSpec == DatabaseInit /\ [][DatabaseNext]_databaseVars /\ Fairness

-----------------------------------------------------------------------------
\* Types of the file, the lock and the calls; a call never retries the
\* journal switch beyond its budget and never runs past its last migration.
DatabaseTypeOK ==
    /\ db \in Database
    /\ lock \in Processes \cup {NoHolder}
    /\ call \in [Processes -> Call]
    /\ \A p \in Processes : /\ call[p].tries <= MaxTries
                            /\ call[p].next \in 1..(Supported[p] + 1)

\* No application schema that was found unversioned is ever adopted: a file
\* holding foreign objects stays at version zero with no migration applied,
\* even if the objects appear after initialize has inspected an empty file
\* (has_application_schema is evaluated again under the lock).
ForeignSchemaIsNeverAdopted == db.foreign => db.version = 0 /\ db.schema = {}

\* No interleaving or crash leaves a file whose version promises objects it
\* does not have: whatever a binary's check_health is asked, it never answers
\* "incomplete current schema", and objects never run ahead of the version.
NeverIncomplete ==
    /\ \A v \in 1..db.version : Health(db, v) # "IncompleteCurrentSchema"
    /\ db.schema = 1..db.version

\* A call that returned Ok left a file its binary can use: in WAL mode and with
\* every migration up to its version, although a newer binary may have moved it
\* on since (projections later insist on WAL, with_immediate_transaction).
OkMeansUsable ==
    \A p \in Processes :
        call[p].stage = "Ok" =>
            /\ db.wal
            /\ db.version >= Supported[p]
            /\ 1..Supported[p] \subseteq db.schema

\* Losing a race is never a migration failure: the version is read again under
\* the lock, so a migration another process committed meanwhile is skipped.
NoMigrationRace == \A p \in Processes : call[p].stage # "Migration"
=============================================================================
