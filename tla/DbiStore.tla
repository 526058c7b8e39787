------------------------------- MODULE DbiStore -------------------------------
(***************************************************************************)
(* The database store (src/libgnucash/backend/dbi/gnc-backend-dbi.cpp and  *)
(* gnc-dbisqlconnection.cpp, with sync and commit of                       *)
(* src/libgnucash/backend/sql/gnc-sql-backend.cpp): the lock table, opening*)
(* a database, recovery of an interrupted safe save, the safe save that    *)
(* converts an old database, edits, and the end of a session; statements   *)
(* that fail, and crashes between any two statements.                      *)
(*                                                                         *)
(* Abstractions: a database has one row in each table, known by its        *)
(* version; version 1 is of the old format, and the versions of the tables *)
(* agree when nothing is under way.  The tables an operation goes through  *)
(* are listed when it starts, as the code does, so that an operation is    *)
(* the statements it has still to execute on each table; the tables have   *)
(* their turn in any order, one after the other.  The database executes a  *)
(* statement and ends a transaction atomically; of isolation only what the *)
(* lock table depends on is modelled.                                      *)
(***************************************************************************)
EXTENDS Integers, FiniteSets, Sequences, SequencesExt

CONSTANTS
    Process,     \* running programs; one that restarts is a new one
    Table,
    None,        \* a table that does not exist
    Kinds,       \* of "sqlite", "mysql", "pgsql", the databases to consider
    Serializable,  \* the kinds that refuse a transaction to write after another
                   \* has written since it read; of the code's, sqlite
    ReadOnly,    \* the kinds that are opened for reading, with no lock, as well
    Fails,       \* of "ddl", "dml", "commit", the statements that may fail
    MaxVersion,  \* bound: versions of the book
    MaxFaults    \* bound: failures and crashes in a behaviour

ASSUME DbiStoreAssumption ==
    /\ None \notin Process
    /\ \A rows \in SUBSET (1 .. MaxVersion) : None # rows
    /\ IsFiniteSet(Table) /\ Table # {}
    /\ Kinds \subseteq {"sqlite", "mysql", "pgsql"}
    /\ Serializable \subseteq Kinds /\ ReadOnly \subseteq Kinds
    /\ MaxVersion \in Nat \ {0, 1} /\ MaxFaults \in Nat

VARIABLES
    kind,     \* DbType
    db,       \* the tables as the process in a transaction sees them
    undo,     \* what they were when it began the transaction and each savepoint
    txn,      \* the process in a transaction
    locks,    \* the rows of the lock table: processes, None for one that is gone
    pc,       \* what each process is doing
    mode,     \* how it began the session
    seen,     \* whether it found rows in the lock table, and those rows
    todo,     \* the statements it has still to execute on each table
    depth,    \* m_sql_savepoint
    err,      \* whether the backend has an error
    book,     \* the version in memory, 0 for none
    stored,   \* the version the program has last been told is stored
    harm,     \* history: what has happened that this does not survive
    faults

sessionVars == <<pc, mode, seen, todo, depth, err, book>>
dbiVars == <<kind, db, undo, txn, locks, sessionVars, stored, harm, faults>>

Version == 1 .. MaxVersion
Mode == {"normal", "break", "readonly"}  \* how a session is begun
Format == 2   \* the first version of the present format

-----------------------------------------------------------------------------
(***************************************************************************)
(* Statements.  A table t may exist as t, as t_back and as t_merge; as it  *)
(* has a primary key, t holds at most one version of the row.              *)
(***************************************************************************)
Exists(where, t) == db[where][t] # None

With(where, t, rows) == [db EXCEPT ![where][t] = rows]

Both(w1, t, rows1, w2, rows2) == [db EXCEPT ![w1][t] = rows1, ![w2][t] = rows2]

\* Whether the database can execute a statement on table t, and what it then holds;
\* row is what a write writes.
CanExecute(op, t) ==
    CASE op = "move"       -> Exists("data", t) /\ ~ Exists("back", t)
      [] op = "restore"    -> Exists("back", t) /\ ~ Exists("data", t)
      [] op = "create"     -> ~ Exists("data", t)
      [] op = "merge"      -> /\ Exists("data", t) /\ Exists("back", t)
                              /\ ~ Exists("merge", t)
      [] op = "copy"       -> /\ Exists("data", t) /\ Exists("merge", t)
                              /\ Cardinality(db.data[t] \cup db.merge[t]) <= 1
      [] op \in {"write", "empty", "drop_data"} -> Exists("data", t)
      [] op = "drop_back"  -> Exists("back", t)
      [] op = "drop_merge" -> Exists("merge", t)

Executed(op, t, row) ==
    CASE op = "move"       -> Both("data", t, None, "back", db.data[t])
      [] op = "restore"    -> Both("back", t, None, "data", db.back[t])
      [] op = "create"     -> With("data", t, {})
      [] op = "merge"      -> With("merge", t, db.data[t] \cup db.back[t])
      [] op = "empty"      -> With("data", t, {})
      [] op = "copy"       -> With("data", t, db.data[t] \cup db.merge[t])
      [] op = "write"      -> With("data", t, {row})
      [] op = "drop_data"  -> With("data", t, None)
      [] op = "drop_back"  -> With("back", t, None)
      [] op = "drop_merge" -> With("merge", t, None)

Class(op) == IF op \in {"write", "empty", "copy"} THEN "dml" ELSE "ddl"

Fault == faults < MaxFaults /\ faults' = faults + 1

NoFault == UNCHANGED faults

\* What process p writes: the converted book, or the book as edited.
Row(p) == IF book[p] < Format THEN Format ELSE book[p] + 1

\* The statement p has to execute next on table t, whose turn it is.
Turn(p, t) == todo[p].of[t] # <<>> /\ todo[p].begun \subseteq {t}
Current(p, t) == Head(todo[p].of[t])
Finished(p) == \A t \in Table : todo[p].of[t] = <<>>

GoesOn(p, t) ==
    LET left == [todo[p].of EXCEPT ![t] = Tail(@)]
    IN  todo' = [todo EXCEPT ![p] =
                   [begun |-> IF left[t] = <<>> THEN {} ELSE {t}, of |-> left]]

\* It is executed, or fails.
Succeeds(p, t) ==
    /\ CanExecute(Current(p, t), t)
    /\ db' = Executed(Current(p, t), t, Row(p))
    /\ NoFault

FailsAt(p, t) ==
    \/ ~ CanExecute(Current(p, t), t) /\ NoFault
    \/ Class(Current(p, t)) \in Fails /\ Fault

Failing(p, t) == FailsAt(p, t) /\ UNCHANGED db

(***************************************************************************)
(* table_operation: the statements for the tables there are, which are     *)
(* those without t_back for "backup" and those with it for the others.     *)
(***************************************************************************)
Script(tables, statements(_)) ==
    [begun |-> {}, of |-> [t \in Table |-> IF t \in tables THEN statements(t) ELSE <<>>]]

Nothing == Script({}, LAMBDA t : <<>>)

BackupTables == {t \in Table : Exists("back", t)}

BackupScript == Script({t \in Table : Exists("data", t)}, LAMBDA t : <<"move">>)

DropBackupScript ==
    Script(BackupTables,
           LAMBDA t : IF Exists("data", t) THEN <<"drop_back">> ELSE <<"restore">>)

RollbackScript ==
    Script(BackupTables,
           LAMBDA t : IF Exists("data", t) THEN <<"drop_data", "restore">> ELSE <<"restore">>)

\* Mutant of RecoverScript: t_back is dropped when t exists.
RecoverByDropping ==
    Script(BackupTables,
           LAMBDA t : IF Exists("data", t) THEN <<"drop_back">> ELSE <<"restore">>)

\* Mutant of RecoverScript: tables that were not created anew stay renamed.
RecoverMergedOnly ==
    Script({t \in BackupTables : Exists("data", t)},
           LAMBDA t : <<"merge", "empty", "copy", "drop_merge", "drop_back">>)

\* merge_tables, or rename_table
RecoverScript ==
    Script(BackupTables,
           LAMBDA t : IF Exists("data", t)
                      THEN <<"merge", "empty", "copy", "drop_merge", "drop_back">>
                      ELSE <<"restore">>)

CreateScript == Script(Table, LAMBDA t : <<"create">>)

WriteScript == Script(Table, LAMBDA t : <<"write">>)

-----------------------------------------------------------------------------
(***************************************************************************)
(* Transactions.                                                           *)
(***************************************************************************)
Transactional == kind # "mysql"  \* whether tables may be renamed in one

\* begin_transaction: BEGIN, or SAVEPOINT in a transaction.
Begun(p) ==
    /\ txn \in {None, p}
    /\ txn' = p
    /\ undo' = <<db>> \o undo
    /\ depth' = [depth EXCEPT ![p] = @ + 1]

\* Mutant of RolledBackTo: a savepoint is rolled back as if it were all.
RolledBackWhole(p, image) ==
    /\ db' = image
    /\ undo' = Tail(undo)
    /\ txn' = None
    /\ depth' = [depth EXCEPT ![p] = @ - 1]

\* rollback_transaction: what it restores.
RolledBackTo(p, image) ==
    /\ db' = image
    /\ undo' = Tail(undo)
    /\ txn' = IF Len(undo) = 1 THEN None ELSE txn
    /\ depth' = [depth EXCEPT ![p] = @ - 1]

\* commit_transaction: COMMIT, or RELEASE SAVEPOINT.
Committed(p) ==
    /\ undo' = Tail(undo)
    /\ txn' = IF Len(undo) = 1 THEN None ELSE txn
    /\ depth' = [depth EXCEPT ![p] = @ - 1]
    /\ UNCHANGED <<db, faults>>

\* COMMIT fails: sqlite finds the file busy or the disk full and keeps the
\* transaction open.  That a server refuses a COMMIT is not modelled.
CommitFails(p) ==
    /\ depth[p] = 1 /\ kind = "sqlite"
    /\ "commit" \in Fails /\ Fault
    /\ UNCHANGED <<db, undo, txn, depth>>

\* The connection of p is closed, or p ends.
Disconnected(p) ==
    IF txn = p THEN db' = Last(undo) /\ undo' = <<>> /\ txn' = None
    ELSE UNCHANGED <<db, undo, txn>>

-----------------------------------------------------------------------------
Goes(p, label) == pc' = [pc EXCEPT ![p] = label]
Does(p, label, script) == Goes(p, label) /\ todo' = [todo EXCEPT ![p] = script]
Reports(p) == err' = [err EXCEPT ![p] = TRUE]

At(p, label) == pc[p] = label

(***************************************************************************)
(* History.  Sessions overlap when one starts to work on the database      *)
(* while another opens or saves it, or while another edits it and the one  *)
(* is not for reading; the lock table is there to prevent it.  Whoever     *)
(* only reads what is in memory does not count.                            *)
(***************************************************************************)
Opening == {"detect", "recover", "unlock", "load", "safe_sync", "backup", "create",
            "write", "synced", "list", "drop_backup", "rollback", "close"}
Editing == {"open", "edit"}
Harm == {"overlap", "commit"}  \* "commit": the COMMIT of an edit failed

Overlapping(p, m) ==
    \E q \in Process \ {p} : pc[q] \in Opening \/ (pc[q] \in Editing /\ m # "readonly")

Starts(p, m) == harm' = IF Overlapping(p, m) THEN harm \cup {"overlap"} ELSE harm

\* session_begin of an existing database.
Begin(p, m) ==
    /\ At(p, "idle")
    /\ m = "readonly" => kind \in ReadOnly
    /\ mode' = [mode EXCEPT ![p] = m]
    /\ err' = [err EXCEPT ![p] = FALSE]
    /\ Does(p, IF m = "readonly" THEN "detect" ELSE "lock", Nothing)
    /\ IF m = "readonly" THEN Starts(p, m) ELSE UNCHANGED harm
    /\ UNCHANGED <<kind, db, undo, txn, locks, seen, depth, book, stored, faults>>

\* lock_database, up to the test for an entry.  The user breaks a lock only when
\* the session that holds it is gone, as the dialog says.
LookAtLock(p) ==
    /\ At(p, "lock")
    /\ mode[p] = "break" => locks \subseteq {None}
    /\ IF locks # {} /\ mode[p] # "break"
       THEN Goes(p, "idle") /\ Reports(p) /\ UNCHANGED seen
       ELSE Goes(p, "insert") /\ seen' = [seen EXCEPT ![p] = locks] /\ UNCHANGED err
    /\ UNCHANGED <<kind, harm, db, undo, txn, locks, mode, todo, depth, book, stored, faults>>

\* Mutant of InsertLock: the entry is not replaced but added to.
InsertLockUnchecked(p) ==
    /\ At(p, "insert")
    /\ locks' = locks \cup {p}
    /\ Goes(p, "detect") /\ UNCHANGED err
    /\ Starts(p, mode[p])
    /\ NoFault
    /\ UNCHANGED <<kind, db, undo, txn, mode, seen, todo, depth, book, stored>>

\* The rest of lock_database: a found entry is deleted, an entry added and the
\* transaction committed.
InsertLock(p) ==
    /\ At(p, "insert")
    /\ \/ /\ kind \in Serializable => locks = seen[p]
          /\ locks' = (IF seen[p] = {} THEN locks ELSE {}) \cup {p}
          /\ Goes(p, "detect") /\ UNCHANGED err
          /\ Starts(p, mode[p])
          /\ NoFault
       \/ /\ \/ kind \in Serializable /\ locks # seen[p] /\ NoFault
             \/ "dml" \in Fails /\ Fault
          /\ Goes(p, "idle") /\ Reports(p)
          /\ UNCHANGED <<locks, harm>>
    /\ UNCHANGED <<kind, db, undo, txn, mode, seen, todo, depth, book, stored>>

\* What the others see of the database.
Durable == IF undo = <<>> THEN db ELSE Last(undo)

\* check_and_rollback_failed_save, up to the tables of a recovery.  That merge
\* tables exist is logged, but no error is set.
Detect(p) ==
    /\ At(p, "detect")
    /\ txn = None
    /\ IF BackupTables = {} THEN Does(p, "load", Nothing)
       ELSE IF \E t \in Table : Exists("merge", t) THEN Does(p, "unlock", Nothing)
       ELSE Does(p, "recover", RecoverScript)
    /\ UNCHANGED <<kind, harm, db, undo, txn, locks, mode, seen, depth, err, book, stored, faults>>

\* table_operation(recover), which gives up at the first failure.
Recover(p) ==
    /\ At(p, "recover")
    /\ txn = None
    /\ \/ Finished(p) /\ Does(p, "load", Nothing) /\ NoFault /\ UNCHANGED <<db, err>>
       \/ \E t \in Table :
            /\ Turn(p, t)
            /\ \/ Succeeds(p, t) /\ GoesOn(p, t) /\ UNCHANGED <<pc, err>>
               \/ Failing(p, t) /\ Does(p, "unlock", Nothing) /\ Reports(p)
    /\ UNCHANGED <<kind, harm, undo, txn, locks, mode, seen, depth, book, stored>>

\* The connection is not made: unlock_database, which leaves the entry when the
\* last statement failed.
Unlock(p) ==
    /\ At(p, "unlock")
    /\ locks' = IF mode[p] = "readonly" \/ p \notin locks THEN locks
                ELSE IF err[p] THEN (locks \ {p}) \cup {None} ELSE {}
    /\ Goes(p, "idle")
    /\ UNCHANGED <<kind, harm, db, undo, txn, mode, seen, todo, depth, err, book, stored, faults>>

\* GncDbiBackend::load, and the offer to save a database of the old format anew;
\* if that is declined, or the session is for reading, the book is read-only.
Load(p) ==
    /\ At(p, "load")
    /\ LET rows == UNION {Durable.data[t] : t \in {u \in Table : Durable.data[u] # None}}
       IN
       /\ book' = [book EXCEPT ![p] = Max(rows \cup {0})]
       /\ \/ book'[p] < Format /\ mode[p] # "readonly" /\ Goes(p, "safe_sync")
          \/ book'[p] >= Format /\ mode[p] # "readonly" /\ Goes(p, "open")
          \/ Goes(p, "read")
    /\ UNCHANGED <<kind, harm, db, undo, txn, locks, mode, seen, todo, depth, err, stored, faults>>

-----------------------------------------------------------------------------
(***************************************************************************)
(* safe_sync: the tables are renamed, all is created and written anew, and *)
(* the renamed tables are dropped.  On mysql it has no transaction, and a  *)
(* failure takes table_operation(rollback).                                *)
(***************************************************************************)
SafeSync(p) ==
    /\ At(p, "safe_sync")
    /\ Does(p, "backup", BackupScript)
    /\ IF Transactional THEN Begun(p) ELSE UNCHANGED <<undo, txn, depth>>
    /\ UNCHANGED <<kind, harm, db, locks, mode, seen, err, book, stored, faults>>

\* What a failure of safe_sync leads to, from a database in state image: the
\* transaction is rolled back, or tables are with statements of their own.
GivesUp(p) ==
    /\ Reports(p)
    /\ IF Transactional
       THEN /\ db' = Last(undo) /\ undo' = <<>> /\ txn' = None
            /\ depth' = [depth EXCEPT ![p] = 0]
            /\ Does(p, "close", Nothing)
       ELSE /\ Does(p, "rollback", RollbackScript)
            /\ UNCHANGED <<db, undo, txn, depth>>

\* table_operation(backup), then drop_indexes.
Backup(p) ==
    /\ At(p, "backup")
    /\ \/ \E t \in Table :
            /\ Turn(p, t)
            /\ \/ Succeeds(p, t) /\ GoesOn(p, t) /\ UNCHANGED <<undo, txn, pc, depth, err>>
               \/ FailsAt(p, t) /\ GivesUp(p)
       \/ /\ Finished(p) /\ Does(p, "create", CreateScript)
          /\ UNCHANGED <<db, undo, txn, depth, err, faults>>
       \/ Finished(p) /\ "ddl" \in Fails /\ Fault /\ GivesUp(p)
    /\ UNCHANGED <<kind, harm, locks, mode, seen, book, stored>>

\* sync: create_tables, which goes on after a failure, then begin_transaction.
Create(p) ==
    /\ At(p, "create")
    /\ \/ \E t \in Table :
            /\ Turn(p, t)
            /\ \/ Succeeds(p, t) /\ UNCHANGED err
               \/ Failing(p, t) /\ Reports(p)
            /\ GoesOn(p, t)
            /\ UNCHANGED <<undo, txn, pc, depth>>
       \/ /\ Finished(p)
          /\ Begun(p)
          /\ Does(p, "write", WriteScript)
          /\ UNCHANGED <<db, err, faults>>
    /\ UNCHANGED <<kind, harm, locks, mode, seen, book, stored>>

\* sync: the objects are written; a failure rolls back to the savepoint, and
\* safe_sync then finds the error.  What is written last, by the write of each
\* backend of the registry, may fail without sync taking notice.
Write(p) ==
    /\ At(p, "write")
    /\ \E t \in Table :
         /\ Turn(p, t)
         /\ \/ Succeeds(p, t) /\ GoesOn(p, t) /\ UNCHANGED <<undo, txn, pc, depth, err>>
            \/ /\ FailsAt(p, t)
               /\ RolledBackTo(p, Head(undo))
               /\ Does(p, "synced", Nothing) /\ Reports(p)
            \/ /\ Failing(p, t) /\ GoesOn(p, t) /\ Reports(p)
               /\ UNCHANGED <<undo, txn, pc, depth>>
    /\ UNCHANGED <<kind, harm, locks, mode, seen, book, stored>>

\* sync: commit_transaction, which on mysql is the one that counts, or when it
\* fails rollback_transaction.
WriteDone(p) ==
    /\ At(p, "write")
    /\ Finished(p)
    /\ \/ /\ Committed(p)
          /\ stored' = IF Transactional \/ err[p] THEN stored ELSE Format
          /\ UNCHANGED err
       \/ /\ "commit" \in Fails /\ Fault
          /\ RolledBackTo(p, Head(undo))
          /\ Reports(p) /\ UNCHANGED stored
    /\ Goes(p, "synced")
    /\ UNCHANGED <<kind, harm, locks, mode, seen, todo, book>>

\* safe_sync after sync.  That the commit fails is noticed by the error only.
Synced(p) ==
    /\ At(p, "synced")
    /\ \/ /\ err[p]
          /\ GivesUp(p) /\ NoFault
          /\ UNCHANGED stored
       \/ /\ ~ err[p] /\ Transactional /\ Committed(p)
          /\ stored' = Format
          /\ Does(p, "list", Nothing) /\ UNCHANGED err
       \/ /\ ~ err[p] /\ Transactional /\ CommitFails(p)
          /\ Does(p, "list", Nothing) /\ Reports(p) /\ UNCHANGED stored
       \/ /\ ~ err[p] /\ ~ Transactional /\ NoFault
          /\ Does(p, "list", Nothing) /\ UNCHANGED <<db, undo, txn, depth, err, stored>>
    /\ UNCHANGED <<kind, harm, locks, mode, seen, book>>

\* table_operation(drop_backup) lists the tables.
List(p) ==
    /\ At(p, "list")
    /\ Does(p, "drop_backup", DropBackupScript)
    /\ UNCHANGED <<kind, harm, db, undo, txn, locks, mode, seen, depth, err, book, stored, faults>>

\* table_operation(drop_backup) and table_operation(rollback) go on after a
\* failure, of which the backend keeps the error; a session with an error ends.
Finish(p) ==
    /\ pc[p] \in {"drop_backup", "rollback"}
    /\ \/ \E t \in Table :
            /\ Turn(p, t)
            /\ \/ Succeeds(p, t) /\ UNCHANGED err
               \/ Failing(p, t) /\ Reports(p)
            /\ GoesOn(p, t)
            /\ UNCHANGED <<pc, book>>
       \/ /\ Finished(p)
          /\ IF err[p] THEN Goes(p, "close") /\ UNCHANGED book
             ELSE Goes(p, "open") /\ book' = [book EXCEPT ![p] = Format]
          /\ UNCHANGED <<db, err, todo, faults>>
    /\ UNCHANGED <<kind, harm, undo, txn, locks, mode, seen, depth, stored>>

-----------------------------------------------------------------------------
\* GncSqlBackend::commit of an edit.
Edit(p) ==
    /\ At(p, "open")
    /\ book[p] < MaxVersion
    /\ Begun(p)
    /\ Does(p, "edit", WriteScript)
    /\ err' = [err EXCEPT ![p] = FALSE]
    /\ UNCHANGED <<kind, harm, db, locks, mode, seen, book, stored, faults>>

\* A failure rolls the edit back, in the database and in memory.
EditWrite(p) ==
    /\ At(p, "edit")
    /\ \E t \in Table :
         /\ Turn(p, t)
         /\ \/ Succeeds(p, t) /\ GoesOn(p, t) /\ UNCHANGED <<undo, txn, pc, depth, err>>
            \/ /\ FailsAt(p, t)
               /\ RolledBackTo(p, Head(undo))
               /\ Does(p, "open", Nothing) /\ Reports(p)
    /\ UNCHANGED <<kind, harm, locks, mode, seen, book, stored>>

\* commit_transaction reports its failure through the error of the backend.
EditDone(p) ==
    /\ At(p, "edit")
    /\ Finished(p)
    /\ \/ /\ Committed(p)
          /\ book' = [book EXCEPT ![p] = @ + 1]
          /\ stored' = book[p] + 1
          /\ UNCHANGED <<err, harm>>
       \/ /\ CommitFails(p) /\ Reports(p)
          /\ harm' = harm \cup {"commit"}
          /\ UNCHANGED <<book, stored>>
    /\ Goes(p, "open")
    /\ UNCHANGED <<kind, locks, mode, seen, todo>>

\* session_end: unlock_database, whose entry is part of the transaction when one
\* is open, and the connection is closed.
End(p) ==
    /\ pc[p] \in {"open", "read", "close"}
    /\ locks' = IF mode[p] = "readonly" \/ p \notin locks THEN locks
                ELSE IF err[p] \/ depth[p] > 0 THEN (locks \ {p}) \cup {None}
                ELSE {}
    /\ Disconnected(p)
    /\ Goes(p, "idle")
    /\ mode' = [mode EXCEPT ![p] = "none"]
    /\ depth' = [depth EXCEPT ![p] = 0]
    /\ book' = [book EXCEPT ![p] = 0]
    /\ UNCHANGED <<kind, harm, seen, todo, err, stored, faults>>

\* The process ends at any point, and leaves its entry in the lock table.
Crash(p) ==
    /\ ~ At(p, "idle")
    /\ Fault
    /\ locks' = IF p \in locks THEN (locks \ {p}) \cup {None} ELSE locks
    /\ Disconnected(p)
    /\ Does(p, "idle", Nothing)
    /\ mode' = [mode EXCEPT ![p] = "none"]
    /\ depth' = [depth EXCEPT ![p] = 0]
    /\ book' = [book EXCEPT ![p] = 0]
    /\ UNCHANGED <<kind, harm, seen, err, stored>>

-----------------------------------------------------------------------------
\* A database of the old format.
DbiInit ==
    /\ kind \in Kinds
    /\ db = [data |-> [t \in Table |-> {1}], back |-> [t \in Table |-> None],
             merge |-> [t \in Table |-> None]]
    /\ undo = <<>> /\ txn = None /\ locks = {}
    /\ pc = [p \in Process |-> "idle"]
    /\ mode = [p \in Process |-> "none"]
    /\ seen = [p \in Process |-> {}]
    /\ todo = [p \in Process |-> Nothing]
    /\ depth = [p \in Process |-> 0]
    /\ err = [p \in Process |-> FALSE]
    /\ book = [p \in Process |-> 0]
    /\ stored = 1
    /\ harm = {}
    /\ faults = 0

DbiNext == \E p \in Process :
    \/ \E m \in Mode : Begin(p, m)
    \/ LookAtLock(p) \/ InsertLock(p) \/ Detect(p) \/ Recover(p) \/ Unlock(p)
    \/ Load(p)
    \/ SafeSync(p) \/ Backup(p) \/ Create(p) \/ Write(p) \/ WriteDone(p)
    \/ Synced(p) \/ List(p) \/ Finish(p)
    \/ Edit(p) \/ EditWrite(p) \/ EditDone(p)
    \/ End(p) \/ Crash(p)

DbiSpec == DbiInit /\ [][DbiNext]_dbiVars

-----------------------------------------------------------------------------
Rows == (SUBSET Version) \cup {None}
Image == [data : [Table -> Rows], back : [Table -> Rows], merge : [Table -> Rows]]
Label == {"idle", "lock", "insert", "detect", "recover", "unlock", "load", "read",
          "safe_sync", "backup", "create", "write", "synced", "list",
          "drop_backup", "rollback", "open", "edit", "close"}

Statement == {"move", "restore", "create", "write", "merge", "empty", "copy",
              "drop_data", "drop_back", "drop_merge"}
Pending == [begun : SUBSET Table, of : [Table -> Seq(Statement)]]

DbiTypeOK ==
    /\ kind \in Kinds
    /\ db \in Image /\ undo \in Seq(Image)
    /\ txn \in Process \cup {None}
    /\ txn = None <=> undo = <<>>
    /\ locks \subseteq Process \cup {None}
    /\ pc \in [Process -> Label]
    /\ mode \in [Process -> Mode \cup {"none"}]
    /\ seen \in [Process -> SUBSET (Process \cup {None})]
    /\ todo \in [Process -> Pending]
    /\ depth \in [Process -> Nat]
    /\ err \in [Process -> BOOLEAN]
    /\ book \in [Process -> Version \cup {0}]
    /\ stored \in Version /\ faults \in 0 .. MaxFaults
    /\ harm \subseteq Harm

\* qof-backend.hpp of safe_sync: "Perform a sync in a way that prevents data
\* loss".  Whatever fails and wherever the program ends, in a save, in the
\* rolling back of one or in the recovery from one, what it has been told is
\* stored is in the database, under one of the names of each table; unless two
\* sessions have overlapped, or the COMMIT of an edit has failed (EndKeepsData).
DataKept == harm = {} =>
    \A t \in Table :
        \E where \in {"data", "back", "merge"} :
            Durable[where][t] # None /\ \E v \in Durable[where][t] : v >= stored

\* check_and_rollback_failed_save: no session is opened on a database that is
\* half saved or half recovered; a session for reading recovers one as well.  The
\* exceptions are those of DataKept.
OpenIsWhole == harm = {} =>
    \A p \in Process :
        At(p, "load") => \E v \in stored .. MaxVersion :
                             \A t \in Table : Durable.data[t] = {v}

\* lock_database: "Protect everything with a single transaction to prevent
\* races": two sessions do not both believe that they hold the lock.  It is so
\* where the database refuses the second one to write; mysql and pgsql do not at
\* the isolation they are used with, and there both get it.
OneWriter == kind \in Serializable =>
    \A p, q \in Process :
        /\ p # q
        /\ {mode[p], mode[q]} \cap {"readonly", "none"} = {}
        => pc[p] \in {"idle", "lock", "insert"} \/ pc[q] \in {"idle", "lock", "insert"}

\* qofsession.h of qof_session_end: "for other backends, such as the sql
\* backend, the data would have been written out before this, and so this
\* routines wouldn't roll-back anything; it would just shut the connection".
EndKeepsData == [][\A p \in Process : End(p) /\ ~ err[p] => db' = db]_dbiVars

=============================================================================
