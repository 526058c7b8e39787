---------------------------- MODULE DbiStoreProofs ----------------------------
(***************************************************************************)
(* Theorems about DbiStore.  The argument for the lock table, where the    *)
(* database refuses a transaction to write after another has written since *)
(* it read: a session that adds its entry has found no entry of a living   *)
(* session, and the table is then still as it found it, so its entry is    *)
(* afterwards the only one; whoever is past that point has its entry in    *)
(* the table until the session ends.  So it does not matter which of them  *)
(* reads, writes, fails or crashes in between.                             *)
(*                                                                         *)
(* The argument for the data needs no lock, only that sessions have not    *)
(* overlapped and that no COMMIT of an edit has failed: at most one session *)
(* then opens or saves the database, or one edits it while another opens   *)
(* it for reading.  Phase says what each table holds at each point of a    *)
(* session's work, by the statements that it has still to execute on the   *)
(* table, and Kept what a table may look like to whoever comes after a     *)
(* crash.                                                                  *)
(***************************************************************************)
EXTENDS DbiStore, FiniteSetTheorems, WellFoundedInduction, TLAPS

\* A session that is begun to write and has not yet added its entry.
Asking(p) == pc[p] \in {"lock", "insert"}

\* A session that writes.
Holds(p) == pc[p] \notin {"idle", "lock", "insert"} /\ mode[p] # "readonly"

\* The entries of the lock table, the sessions and what they have found agree.
LockTable ==
    /\ pc \in [Process -> Label]
    /\ mode \in [Process -> Mode \cup {"none"}]
    /\ seen \in [Process -> SUBSET (Process \cup {None})]
    /\ locks \subseteq Process \cup {None}
    /\ \A p, q \in Process : {p, q} \subseteq locks => p = q
    /\ \A p \in Process :
         /\ Holds(p) => p \in locks
         /\ mode[p] = "readonly" => p \notin locks
         /\ pc[p] = "idle" => p \notin locks
         /\ Asking(p) => mode[p] # "readonly" /\ p \notin locks
         /\ pc[p] = "insert" => seen[p] \subseteq {None}

-----------------------------------------------------------------------------
(* The writers are those that the property is about.                       *)
LEMMA LockTableOneWriter == LockTable => OneWriter
PROOF
<1> SUFFICES ASSUME LockTable, kind \in Serializable, NEW p \in Process, NEW q \in Process, p # q,
                    {mode[p], mode[q]} \cap {"readonly", "none"} = {},
                    pc[p] \notin {"idle", "lock", "insert"},
                    pc[q] \notin {"idle", "lock", "insert"}
             PROVE  FALSE
  BY DEF OneWriter
<1>1. mode[p] # "readonly" /\ mode[q] # "readonly" OBVIOUS
<1>2. p \in locks /\ q \in locks BY <1>1 DEF LockTable, Holds
<1>3. QED BY <1>2 DEF LockTable

LEMMA LockTableInit == DbiInit => LockTable
BY DEF DbiInit, LockTable, Holds, Asking, Label

(* A step of a session with its entry that leaves the lock table alone.    *)
LEMMA HolderMoves ==
    ASSUME LockTable, NEW p \in Process, ~ Asking(p), pc[p] # "idle",
           NEW x \in Label \ {"idle", "lock", "insert"},
           pc' = [pc EXCEPT ![p] = x] \/ pc' = pc,
           UNCHANGED <<locks, mode, seen>>
    PROVE  LockTable'
BY DEF LockTable, Holds, Asking, Label

(* A session ends: its entry is removed, or belongs to nobody.             *)
LEMMA HolderEnds ==
    ASSUME DbiStoreAssumption, LockTable, NEW p \in Process,
           pc' = [pc EXCEPT ![p] = "idle"],
           mode' = mode \/ mode' = [mode EXCEPT ![p] = "none"],
           locks' \in {(locks \ {p}) \cup {None}, locks \ {p}}
             \/ (locks' = {} /\ p \in locks),
           UNCHANGED seen
    PROVE  LockTable'
BY DEF DbiStoreAssumption, LockTable, Holds, Asking, Label

LEMMA LockTableInvariant ==
    ASSUME DbiStoreAssumption, kind \in Serializable, LockTable, [DbiNext]_dbiVars
    PROVE  LockTable'
PROOF
<1>1. CASE UNCHANGED dbiVars
  BY <1>1 DEF dbiVars, sessionVars, LockTable, Holds, Asking
<1>2. ASSUME NEW p \in Process, NEW m \in Mode, Begin(p, m) PROVE LockTable'
  BY <1>2 DEF Begin, Does, Goes, At, LockTable, Holds, Asking, Label, Mode
<1>3. ASSUME NEW p \in Process, LookAtLock(p) PROVE LockTable'
  <2> USE <1>3 DEF LookAtLock, Goes, At, Reports
  <2>1. CASE locks # {} /\ mode[p] # "break"
    BY <2>1 DEF LockTable, Holds, Asking, Label
  <2>2. CASE ~ (locks # {} /\ mode[p] # "break")
    <3>1. locks \subseteq {None} BY <2>2
    <3>2. QED BY <2>2, <3>1 DEF LockTable, Holds, Asking, Label
  <2>3. QED BY <2>1, <2>2
<1>4. ASSUME NEW p \in Process, InsertLock(p) PROVE LockTable'
  <2> USE <1>4 DEF InsertLock, Goes, At, Reports
  <2>1. CASE locks' = (IF seen[p] = {} THEN locks ELSE {}) \cup {p}
             /\ locks = seen[p] /\ pc' = [pc EXCEPT ![p] = "detect"]
    <3>1. locks' = {p} BY <2>1
    <3>2. \A q \in Process : q \notin locks
      BY <2>1 DEF LockTable, DbiStoreAssumption
    <3>3. QED BY <2>1, <3>1, <3>2 DEF LockTable, Holds, Asking, Label
  <2>2. CASE pc' = [pc EXCEPT ![p] = "idle"] /\ UNCHANGED locks
    BY <2>2 DEF LockTable, Holds, Asking, Label
  <2>3. QED BY <2>1, <2>2
<1>5. ASSUME NEW p \in Process,
             Detect(p) \/ Recover(p) \/ Load(p) \/ SafeSync(p) \/ List(p)
      PROVE  LockTable'
  <2>1. ~ Asking(p) /\ pc[p] # "idle" /\ UNCHANGED <<locks, mode, seen>>
    BY <1>5 DEF Detect, Recover, Load, SafeSync, List, At, Asking
  <2>2. \E x \in Label \ {"idle", "lock", "insert"} :
           pc' = [pc EXCEPT ![p] = x] \/ pc' = pc
    BY <1>5 DEF Detect, Recover, Load, SafeSync, List, Does, Goes, Label
  <2>3. QED BY <2>1, <2>2, HolderMoves
<1>6. ASSUME NEW p \in Process,
             Backup(p) \/ Create(p) \/ Write(p) \/ WriteDone(p) \/ Synced(p) \/ Finish(p)
      PROVE  LockTable'
  <2>1. ~ Asking(p) /\ pc[p] # "idle" /\ UNCHANGED <<locks, mode, seen>>
    BY <1>6 DEF Backup, Create, Write, WriteDone, Synced, Finish, At, Asking
  <2>2. \E x \in Label \ {"idle", "lock", "insert"} :
           pc' = [pc EXCEPT ![p] = x] \/ pc' = pc
    BY <1>6 DEF Backup, Create, Write, WriteDone, Synced, Finish, GivesUp, Does,
                Goes, Label
  <2>3. QED BY <2>1, <2>2, HolderMoves
<1>7. ASSUME NEW p \in Process, Edit(p) \/ EditWrite(p) \/ EditDone(p)
      PROVE  LockTable'
  <2>1. ~ Asking(p) /\ pc[p] # "idle" /\ UNCHANGED <<locks, mode, seen>>
    BY <1>7 DEF Edit, EditWrite, EditDone, At, Asking
  <2>2. \E x \in Label \ {"idle", "lock", "insert"} :
           pc' = [pc EXCEPT ![p] = x] \/ pc' = pc
    BY <1>7 DEF Edit, EditWrite, EditDone, Does, Goes, Label
  <2>3. QED BY <2>1, <2>2, HolderMoves
<1>8. ASSUME NEW p \in Process, Unlock(p) PROVE LockTable'
  <2>1. /\ pc' = [pc EXCEPT ![p] = "idle"] /\ UNCHANGED <<mode, seen>>
        /\ pc[p] = "unlock"
    BY <1>8 DEF Unlock, Goes, At
  <2>2. p \in locks => locks' \in {(locks \ {p}) \cup {None}, {}}
    BY <1>8, <2>1 DEF Unlock, LockTable, Holds
  <2>3. p \notin locks => locks' = locks \ {p}
    BY <1>8 DEF Unlock
  <2>4. QED BY <2>1, <2>2, <2>3, HolderEnds
<1>9. ASSUME NEW p \in Process, End(p) PROVE LockTable'
  <2>1. /\ pc' = [pc EXCEPT ![p] = "idle"] /\ UNCHANGED seen
        /\ mode' = [mode EXCEPT ![p] = "none"]
    BY <1>9 DEF End, Goes
  <2>2. p \in locks => locks' \in {(locks \ {p}) \cup {None}, {}}
    BY <1>9 DEF End, LockTable
  <2>3. p \notin locks => locks' = locks \ {p}
    BY <1>9 DEF End
  <2>4. QED BY <2>1, <2>2, <2>3, HolderEnds
<1>10. ASSUME NEW p \in Process, Crash(p) PROVE LockTable'
  <2>1. /\ pc' = [pc EXCEPT ![p] = "idle"] /\ UNCHANGED seen
        /\ mode' = [mode EXCEPT ![p] = "none"]
    BY <1>10 DEF Crash, Does, Goes
  <2>2. locks' \in {(locks \ {p}) \cup {None}, locks \ {p}}
    BY <1>10 DEF Crash
  <2>3. QED BY <2>1, <2>2, HolderEnds
<1>11. QED
  BY <1>1, <1>2, <1>3, <1>4, <1>5, <1>6, <1>7, <1>8, <1>9, <1>10 DEF DbiNext

(* GncDbiSqlConnection::lock_database: on sqlite, and wherever else a      *)
(* transaction is refused to write after another has written since it      *)
(* read, two sessions never both have the database to write, whatever      *)
(* fails, whoever crashes and whichever read it without the lock.  Nothing *)
(* is claimed of mysql and pgsql, where two sessions may get the lock.     *)
THEOREM OneWriterHolds == DbiSpec => []OneWriter
PROOF
<1> DEFINE Locked == kind \in Serializable => LockTable
<1>1. DbiInit => Locked BY LockTableInit
<1>2. [DbiNext]_dbiVars => kind' = kind
  BY DEF DbiNext, dbiVars, Begin, LookAtLock, InsertLock, Detect, Recover, Unlock,
         Load, SafeSync, Backup, Create, Write, WriteDone, Synced, List, Finish,
         Edit, EditWrite, EditDone, End, Crash
<1>3. Locked /\ [DbiNext]_dbiVars => Locked'
  BY <1>2, LockTableInvariant, DbiStoreAssumption
<1>4. Locked => OneWriter BY LockTableOneWriter DEF OneWriter
<1>5. QED BY <1>1, <1>3, <1>4, PTL DEF DbiSpec

-----------------------------------------------------------------------------
(***************************************************************************)
(* Transactions.  Who has one is at a point where the code has begun one,  *)
(* and as deep in savepoints as it has begun them.                         *)
(***************************************************************************)
\* A session that has begun to save or edit has loaded a book, and what it
\* may write is a version.
BookAt(p) ==
    /\ pc[p] \in {"idle", "lock", "insert", "detect", "recover", "unlock", "load"}
          => book[p] = 0
    /\ pc[p] \in {"safe_sync", "backup", "create", "write", "synced", "list",
                  "drop_backup", "rollback"}
          => book[p] < Format
    /\ pc[p] = "edit" => book[p] < MaxVersion

\* How deep in transactions the session is at least.
Depth(p) ==
    /\ pc[p] \in {"write", "edit"} => depth[p] >= 1
    /\ Transactional /\ pc[p] \in {"backup", "create", "synced"} => depth[p] >= 1
    /\ Transactional /\ pc[p] = "write" => depth[p] >= 2
    /\ pc[p] \in {"idle", "lock", "insert", "detect", "recover", "unlock", "load",
                  "safe_sync", "read"}
          => depth[p] = 0

Transactions ==
    /\ DbiTypeOK
    /\ \A p \in Process :
         /\ depth[p] = IF txn = p THEN Len(undo) ELSE 0
         /\ BookAt(p) /\ Depth(p)

-----------------------------------------------------------------------------
(***************************************************************************)
(* What a table holds under its three names, when s is stored.             *)
(***************************************************************************)
Settled(s, d, b, m) == d = {s} /\ b = None /\ m = None

\* A table that is being saved anew or merged, or was when the session ended.
Unsettled(s, d, b, m) ==
    /\ b = {1}
    /\ \/ s = 1 /\ m = None /\ d \in {None, {}, {1}}
       \/ s = 1 /\ m = {1} /\ d \in {{}, {1}}
       \/ s \in {1, 2} /\ m = None /\ d = {2}
       \/ s \in {1, 2} /\ m = {1, 2} /\ d \in {{}, {2}}

Kept(s, d, b, m) == Settled(s, d, b, m) \/ Unsettled(s, d, b, m)

\* A table of which recovery has still to execute ops.
Recovers(s, d, b, m, ops) ==
    \/ ops = <<>> /\ Settled(s, d, b, m)
    \/ /\ b = {1} /\ s = 1
       /\ \/ ops = <<"restore">> /\ d = None /\ m = None
          \/ ops = <<"drop_merge", "drop_back">> /\ d = {1} /\ m = {1}
          \/ ops = <<"drop_back">> /\ d = {1} /\ m = None
    \/ /\ b = {1}
       /\ \/ /\ ops = <<"merge", "empty", "copy", "drop_merge", "drop_back">>
             /\ m = None
             /\ \/ s = 1 /\ d \in {{}, {1}}
                \/ s \in {1, 2} /\ d = {2}
          \/ /\ ops = <<"empty", "copy", "drop_merge", "drop_back">>
             /\ \/ s = 1 /\ m = {1} /\ d \in {{}, {1}}
                \/ s \in {1, 2} /\ m = {1, 2} /\ d = {2}
          \/ /\ ops = <<"copy", "drop_merge", "drop_back">>
             /\ d = {}
             /\ \/ s = 1 /\ m = {1}
                \/ s \in {1, 2} /\ m = {1, 2}

\* A table that is written anew beside the renamed one.
Renamed(d, b, m, ds) == d \in ds /\ b = {1} /\ m = None

BacksUp(d, b, m, ops) ==
    \/ ops = <<"move">> /\ Settled(1, d, b, m)
    \/ ops = <<>> /\ Renamed(d, b, m, {None})

Creates(d, b, m, ops) ==
    \/ ops = <<"create">> /\ Renamed(d, b, m, {None})
    \/ ops = <<>> /\ Renamed(d, b, m, {None, {}})

Writes(d, b, m, ops, e) ==
    \/ ops = <<"write">> /\ Renamed(d, b, m, {None, {}})
    \/ ops = <<>> /\ Renamed(d, b, m, {{2}})
    \/ ops = <<>> /\ e /\ Renamed(d, b, m, {None, {}})

DropsBackup(d, b, m, ops, e) ==
    /\ d = {2} /\ m = None
    /\ \/ ops = <<"drop_back">> /\ b \in {{1}, None}
       \/ ops = <<>> /\ b = None
       \/ ops = <<>> /\ b = {1} /\ e

RollsBack(d, b, m, ops) ==
    \/ ops \in {<<"drop_data", "restore">>, <<"restore">>, <<>>}
         /\ Renamed(d, b, m, {None, {}, {2}})
    \/ ops = <<>> /\ Settled(1, d, b, m)

Edits(s, d, b, m, ops) ==
    \/ ops = <<"write">> /\ Settled(s, d, b, m)
    \/ ops = <<>> /\ Settled(s + 1, d, b, m)

-----------------------------------------------------------------------------
(***************************************************************************)
(* The tables of an image, at each point of the session that writes.       *)
(***************************************************************************)
Whole(image, s) ==
    \A t \in Table : Settled(s, image.data[t], image.back[t], image.merge[t])

AllRenamed(image, ds) ==
    \A t \in Table : Renamed(image.data[t], image.back[t], image.merge[t], ds)

Ops(p, t) == todo[p].of[t]

\* The transaction safe_sync begins, where tables may be renamed in one.
InSave(n) ==
    IF Transactional THEN Len(undo) = n + 1 /\ Whole(undo[n + 1], 1)
    ELSE Len(undo) = n

\* The COMMIT of safe_sync has failed: the database has still what it had.
Unsaved(p) == err[p] /\ Len(undo) = 1 /\ Whole(undo[1], 1) /\ stored = 1

Phase(p) ==
    /\ pc[p] \in {"recover", "unlock", "safe_sync", "rollback", "open"} => undo = <<>>
    /\ pc[p] \in {"list", "drop_backup", "close"} => undo = <<>> \/ Unsaved(p)
    /\ pc[p] \in {"detect", "recover", "load", "safe_sync", "backup"} => ~ err[p]
    /\ pc[p] \in {"safe_sync", "backup", "create", "write", "rollback"} => stored = 1
    /\ pc[p] \in {"list", "drop_backup"} /\ undo = <<>> => stored = 2
    /\ pc[p] = "load" => Whole(Durable, stored)
    /\ pc[p] \in {"safe_sync", "open"} => Whole(db, stored)
    /\ pc[p] \in {"open", "edit"} => book[p] = stored /\ stored >= 2
    /\ pc[p] = "recover" =>
         \A t \in Table :
             Recovers(stored, db.data[t], db.back[t], db.merge[t], Ops(p, t))
    /\ pc[p] = "backup" =>
         /\ InSave(0)
         /\ \A t \in Table : BacksUp(db.data[t], db.back[t], db.merge[t], Ops(p, t))
    /\ pc[p] = "create" =>
         /\ InSave(0)
         /\ \A t \in Table : Creates(db.data[t], db.back[t], db.merge[t], Ops(p, t))
    /\ pc[p] = "write" =>
         /\ InSave(1)
         /\ AllRenamed(Head(undo), {None, {}})
         /\ \A t \in Table :
                Writes(db.data[t], db.back[t], db.merge[t], Ops(p, t), err[p])
    /\ pc[p] = "synced" =>
         /\ InSave(0)
         /\ stored = IF Transactional \/ err[p] THEN 1 ELSE 2
         /\ AllRenamed(db, IF err[p] THEN {None, {}, {2}} ELSE {{2}})
    /\ pc[p] = "list" /\ undo = <<>> => ~ err[p] /\ AllRenamed(db, {{2}})
    /\ pc[p] = "drop_backup" /\ undo = <<>> =>
         \A t \in Table :
             DropsBackup(db.data[t], db.back[t], db.merge[t], Ops(p, t), err[p])
    /\ pc[p] = "rollback" =>
         /\ err[p]
         /\ \A t \in Table : RollsBack(db.data[t], db.back[t], db.merge[t], Ops(p, t))
    /\ pc[p] = "edit" =>
         /\ Len(undo) = 1 /\ Whole(undo[1], stored)
         /\ \A t \in Table :
                Edits(stored, db.data[t], db.back[t], db.merge[t], Ops(p, t))

\* What is durable is kept.
AllKept ==
    \A t \in Table : Kept(stored, Durable.data[t], Durable.back[t], Durable.merge[t])

\* A session that works on the database.
Working(p) == pc[p] \notin {"idle", "lock", "insert", "read"}

\* One that opens it for reading beside another that edits it.
Beside(p, q) ==
    /\ pc[p] \in {"detect", "load"} /\ mode[p] = "readonly"
    /\ pc[q] \in Editing

\* The inductive invariant: the tables hold what is stored, for whoever reads
\* the database, and the sessions that work are where their statements say.
Data ==
    /\ AllKept
    /\ txn # None => Working(txn)
    /\ \A p \in Process :
           /\ Asking(p) => ~ err[p]
           /\ Working(p) => Phase(p)
    /\ \A p, q \in Process :
           p # q /\ Working(p) /\ Working(q) => Beside(p, q) \/ Beside(q, p)

-----------------------------------------------------------------------------
(***************************************************************************)
(* Sequences of images, and statements and scripts.                        *)
(***************************************************************************)
LEMMA Pushed ==
    ASSUME NEW S, NEW s \in Seq(S), NEW x \in S
    PROVE  /\ <<x>> \o s \in Seq(S) /\ <<x>> \o s # <<>>
           /\ Len(<<x>> \o s) = Len(s) + 1
           /\ (<<x>> \o s)[1] = x /\ Head(<<x>> \o s) = x
           /\ \A i \in 1 .. Len(s) : (<<x>> \o s)[i + 1] = s[i]
           /\ s # <<>> => Last(<<x>> \o s) = Last(s)
           /\ s = <<>> => Last(<<x>> \o s) = x
BY DEF Last

LEMMA Popped ==
    ASSUME NEW S, NEW s \in Seq(S), s # <<>>
    PROVE  /\ Tail(s) \in Seq(S) /\ Len(Tail(s)) = Len(s) - 1 /\ Len(s) >= 1
           /\ Head(s) \in S /\ Head(s) = s[1] /\ Last(s) \in S
           /\ Tail(s) = <<>> <=> Len(s) = 1
           /\ \A i \in 1 .. Len(s) - 1 : Tail(s)[i] = s[i + 1]
           /\ Len(s) > 1 => Last(Tail(s)) = Last(s)
PROOF
<1>1. Len(s) \in Nat /\ Len(s) >= 1 OBVIOUS
<1>2. /\ Tail(s) \in Seq(S) /\ Len(Tail(s)) = Len(s) - 1
      /\ \A i \in 1 .. Len(s) - 1 : Tail(s)[i] = s[i + 1]
  BY <1>1
<1>3. Tail(s) = <<>> <=> Len(s) = 1 BY <1>1, <1>2
<1>4. Head(s) \in S /\ Head(s) = s[1] /\ Last(s) \in S BY <1>1 DEF Last
<1>5. Len(s) > 1 => Last(Tail(s)) = Last(s)
  <2> SUFFICES ASSUME Len(s) > 1 PROVE Tail(s)[Len(s) - 1] = s[Len(s)]
    BY <1>2 DEF Last
  <2>1. Len(s) - 1 \in 1 .. Len(s) - 1 /\ (Len(s) - 1) + 1 = Len(s) BY <1>1
  <2>2. QED BY <1>2, <2>1
<1>6. QED BY <1>1, <1>2, <1>3, <1>4, <1>5

LEMMA PoppedOfTwo ==
    ASSUME NEW S, NEW s \in Seq(S), Len(s) = 2
    PROVE  Len(Tail(s)) = 1 /\ Tail(s)[1] = s[2]
PROOF
<1>1. s # <<>> /\ 1 \in 1 .. Len(s) - 1 /\ 1 + 1 = 2 OBVIOUS
<1>2. Len(Tail(s)) = Len(s) - 1 /\ Tail(s)[1] = s[1 + 1] BY <1>1, Popped
<1>3. QED BY <1>1, <1>2

(* A statement changes a table as its name says, and no other one.         *)
LEMMA ExecutedEffect ==
    ASSUME NEW t \in Table, NEW op \in Statement, NEW row,
           DbiTypeOK, db' = Executed(op, t, row)
    PROVE  /\ \A u \in Table \ {t} :
                /\ db'.data[u] = db.data[u] /\ db'.back[u] = db.back[u]
                /\ db'.merge[u] = db.merge[u]
           /\ db'.data[t] =
                CASE op \in {"move", "drop_data"} -> None
                  [] op = "restore" -> db.back[t]
                  [] op \in {"create", "empty"} -> {}
                  [] op = "copy" -> db.data[t] \cup db.merge[t]
                  [] op = "write" -> {row}
                  [] OTHER -> db.data[t]
           /\ db'.back[t] =
                CASE op = "move" -> db.data[t]
                  [] op \in {"restore", "drop_back"} -> None
                  [] OTHER -> db.back[t]
           /\ db'.merge[t] =
                CASE op = "merge" -> db.data[t] \cup db.back[t]
                  [] op = "drop_merge" -> None
                  [] OTHER -> db.merge[t]
PROOF
<1> db \in Image BY DEF DbiTypeOK
<1> USE DEF Executed, With, Both, Image
<1>1. CASE op = "move" BY <1>1
<1>2. CASE op = "restore" BY <1>2
<1>3. CASE op = "create" BY <1>3
<1>4. CASE op = "merge" BY <1>4
<1>5. CASE op = "empty" BY <1>5
<1>6. CASE op = "copy" BY <1>6
<1>7. CASE op = "write" BY <1>7
<1>8. CASE op = "drop_data" BY <1>8
<1>9. CASE op = "drop_back" BY <1>9
<1>10. CASE op = "drop_merge" BY <1>10
<1>11. QED
  BY <1>1, <1>2, <1>3, <1>4, <1>5, <1>6, <1>7, <1>8, <1>9, <1>10 DEF Statement

LEMMA ExecutedType ==
    ASSUME NEW t \in Table, NEW op \in Statement, NEW row \in Version,
           DbiTypeOK, CanExecute(op, t)
    PROVE  Executed(op, t, row) \in Image
PROOF
<1> db \in Image BY DEF DbiTypeOK
<1> USE DEF Executed, With, Both, Image, Rows, CanExecute, Exists
<1>1. CASE op = "move" BY <1>1
<1>2. CASE op = "restore" BY <1>2
<1>3. CASE op = "create" BY <1>3
<1>4. CASE op = "merge" BY <1>4
<1>5. CASE op = "empty" BY <1>5
<1>6. CASE op = "copy" BY <1>6
<1>7. CASE op = "write" BY <1>7
<1>8. CASE op = "drop_data" BY <1>8
<1>9. CASE op = "drop_back" BY <1>9
<1>10. CASE op = "drop_merge" BY <1>10
<1>11. QED
  BY <1>1, <1>2, <1>3, <1>4, <1>5, <1>6, <1>7, <1>8, <1>9, <1>10 DEF Statement

LEMMA ScriptType ==
    /\ Nothing \in Pending /\ BackupScript \in Pending /\ DropBackupScript \in Pending
    /\ RollbackScript \in Pending /\ RecoverScript \in Pending
    /\ CreateScript \in Pending /\ WriteScript \in Pending
PROOF
<1>1. /\ <<>> \in Seq(Statement) /\ <<"move">> \in Seq(Statement)
      /\ <<"drop_back">> \in Seq(Statement) /\ <<"restore">> \in Seq(Statement)
      /\ <<"create">> \in Seq(Statement) /\ <<"write">> \in Seq(Statement)
      /\ <<"drop_data", "restore">> \in Seq(Statement)
      /\ <<"merge", "empty", "copy", "drop_merge", "drop_back">> \in Seq(Statement)
  BY DEF Statement
<1> HIDE DEF Statement
<1>2. ASSUME NEW f \in [Table -> Seq(Statement)]
      PROVE  [begun |-> {}, of |-> f] \in Pending
  BY DEF Pending
<1>3. QED
  BY <1>1, <1>2 DEF Script, Nothing, BackupScript, DropBackupScript, RollbackScript,
                    RecoverScript, CreateScript, WriteScript

(* The turn passes: what is left for the table is shorter, for others as   *)
(* it was.                                                                 *)
LEMMA GoesOnEffect ==
    ASSUME NEW p \in Process, NEW t \in Table, DbiTypeOK, Turn(p, t), GoesOn(p, t)
    PROVE  /\ todo' \in [Process -> Pending]
           /\ todo'[p].of[t] = Tail(todo[p].of[t])
           /\ \A u \in Table \ {t} : todo'[p].of[u] = todo[p].of[u]
           /\ Current(p, t) \in Statement
PROOF
<1>1. todo \in [Process -> Pending] /\ todo[p].of[t] \in Seq(Statement)
  BY DEF DbiTypeOK, Pending
<1>2. Tail(todo[p].of[t]) \in Seq(Statement) /\ Current(p, t) \in Statement
  BY <1>1, Popped DEF Turn, Current
<1>3. QED BY <1>1, <1>2 DEF GoesOn, Pending

(* A largest element of a set of numbers with a bound.                     *)
LEMMA MaxOfBounded ==
    ASSUME NEW N \in Nat, NEW S \in SUBSET (0 .. N), S # {}
    PROVE  Max(S) \in S /\ \A x \in S : Max(S) >= x
PROOF
<1> DEFINE T == {n \in Nat : N - n \in S}
<1>1. PICK n \in T : \A m \in T : ~ (m < n)
  <2>1. PICK x \in S : TRUE OBVIOUS
  <2>2. N - x \in T BY <2>1
  <2>3. T \subseteq Nat /\ T # {} BY <2>2
  <2> HIDE DEF T
  <2>4. PICK n \in T : \A m \in T : ~ (<<m, n>> \in OpToRel(<, Nat))
    BY <2>3, WFMin, NatLessThanWellFounded, Zenon
  <2>5. \A m \in T : ~ (m < n) BY <2>3, <2>4 DEF OpToRel
  <2>6. QED BY <2>5
<1>2. ASSUME NEW x \in S PROVE N - n >= x
  <2>1. N - x \in T BY <1>2
  <2>2. QED BY <1>1, <2>1
<1>3. N - n \in S BY <1>1
<1>4. QED BY <1>2, <1>3 DEF Max

-----------------------------------------------------------------------------
(***************************************************************************)
(* Transactions is kept by every step.                                     *)
(***************************************************************************)
LEMMA TransactionsInit == DbiStoreAssumption /\ DbiInit => Transactions
PROOF
<1> SUFFICES ASSUME DbiStoreAssumption, DbiInit PROVE Transactions OBVIOUS
<1>1. db \in Image BY DEF DbiInit, DbiStoreAssumption, Image, Rows, Version
<1>2. DbiTypeOK
  BY <1>1, ScriptType DEF DbiInit, DbiTypeOK, DbiStoreAssumption, Label, Version
<1>3. QED BY <1>2 DEF DbiInit, Transactions, BookAt, Depth, DbiStoreAssumption

(* A step of a session: it leaves transactions alone, or it is its own     *)
(* transaction that it begins, ends or goes on with.                       *)
LEMMA TransactionsStep ==
    ASSUME DbiStoreAssumption, Transactions, harm' \subseteq Harm,
           NEW p \in Process, NEW x \in Label,
           NEW b \in Version \cup {0}, NEW d \in Nat,
           kind' = kind, db' \in Image, undo' \in Seq(Image),
           locks' \subseteq Process \cup {None},
           pc' = [pc EXCEPT ![p] = x],
           mode' \in [Process -> Mode \cup {"none"}],
           seen' \in [Process -> SUBSET (Process \cup {None})],
           todo' \in [Process -> Pending],
           depth' = [depth EXCEPT ![p] = d],
           err' \in [Process -> BOOLEAN],
           book' = [book EXCEPT ![p] = b],
           stored' \in Version, faults' \in 0 .. MaxFaults,
           \/ d = depth[p] /\ UNCHANGED <<txn, undo>>
           \/ /\ txn \in {None, p} /\ d = Len(undo')
              /\ txn' = IF undo' = <<>> THEN None ELSE p,
           BookAt(p)', Depth(p)'
    PROVE  Transactions'
PROOF
<1>1. DbiTypeOK /\ kind \in Kinds BY DEF Transactions, DbiTypeOK
<1>2. txn' \in Process \cup {None} /\ (txn' = None <=> undo' = <<>>)
  BY <1>1 DEF DbiTypeOK, DbiStoreAssumption
<1>3. pc' \in [Process -> Label] /\ depth' \in [Process -> Nat]
        /\ book' \in [Process -> Version \cup {0}]
  BY <1>1 DEF DbiTypeOK
<1>4. DbiTypeOK' BY <1>1, <1>2, <1>3 DEF DbiTypeOK
<1>5. ASSUME NEW q \in Process
      PROVE  depth'[q] = IF txn' = q THEN Len(undo') ELSE 0
  <2>1. undo \in Seq(Image) /\ depth \in [Process -> Nat] BY <1>1 DEF DbiTypeOK
  <2>2. depth[q] = IF txn = q THEN Len(undo) ELSE 0 BY DEF Transactions
  <2>3. CASE q = p BY <2>1, <2>2, <2>3, <1>2 DEF DbiStoreAssumption
  <2>4. CASE q # p
    <3>1. depth'[q] = depth[q] BY <2>1, <2>4
    <3>2. CASE UNCHANGED <<txn, undo>> BY <3>1, <3>2, <2>2
    <3>3. CASE txn \in {None, p} /\ txn' = IF undo' = <<>> THEN None ELSE p
      BY <3>1, <3>3, <2>2, <2>4 DEF DbiStoreAssumption
    <3>4. QED BY <3>2, <3>3
  <2>5. QED BY <2>3, <2>4
<1>6. ASSUME NEW q \in Process PROVE BookAt(q)' /\ Depth(q)'
  <2>1. CASE q = p BY <2>1
  <2>2. CASE q # p
    <3>1. pc'[q] = pc[q] /\ depth'[q] = depth[q] /\ book'[q] = book[q]
      BY <1>1, <2>2 DEF DbiTypeOK
    <3>2. BookAt(q) /\ Depth(q) BY DEF Transactions
    <3>3. QED BY <3>1, <3>2 DEF BookAt, Depth, Transactional
  <2>3. QED BY <2>1, <2>2
<1>7. QED BY <1>4, <1>5, <1>6 DEF Transactions
(* A step of a session that leaves transactions and its book alone.        *)
LEMMA TransactionsQuiet ==
    ASSUME DbiStoreAssumption, Transactions, harm' \subseteq Harm,
           NEW p \in Process, NEW x \in Label,
           UNCHANGED <<kind, undo, txn, depth, book>>, db' \in Image,
           locks' \subseteq Process \cup {None},
           pc' = [pc EXCEPT ![p] = x],
           mode' \in [Process -> Mode \cup {"none"}],
           seen' \in [Process -> SUBSET (Process \cup {None})],
           todo' \in [Process -> Pending],
           err' \in [Process -> BOOLEAN],
           stored' \in Version, faults' \in 0 .. MaxFaults,
           BookAt(p)', Depth(p)'
    PROVE  Transactions'
PROOF
<1>1. /\ undo \in Seq(Image) /\ depth[p] \in Nat /\ book[p] \in Version \cup {0}
      /\ depth \in [Process -> Nat] /\ book \in [Process -> Version \cup {0}]
  BY DEF Transactions, DbiTypeOK
<1>2. depth' = [depth EXCEPT ![p] = depth[p]] /\ book' = [book EXCEPT ![p] = book[p]]
  BY <1>1
<1>3. QED BY <1>1, <1>2, TransactionsStep

LEMMA FaultType ==
    ASSUME DbiStoreAssumption, DbiTypeOK, Fault \/ NoFault
    PROVE  faults' \in 0 .. MaxFaults
BY DEF DbiStoreAssumption, DbiTypeOK, Fault, NoFault

(* A statement that is executed, with the type of what it leaves.          *)
LEMMA SucceedsType ==
    ASSUME DbiStoreAssumption, DbiTypeOK, NEW p \in Process, NEW t \in Table,
           Turn(p, t), Succeeds(p, t), BookAt(p),
           pc[p] \in {"recover", "backup", "create", "write", "drop_backup",
                      "rollback", "edit"}
    PROVE  db' \in Image /\ faults' \in 0 .. MaxFaults
PROOF
<1>1. book[p] \in Version \cup {0} BY DEF DbiTypeOK
<1>2. Row(p) \in Version
  BY <1>1 DEF BookAt, Row, Version, Format, DbiStoreAssumption
<1>3. Current(p, t) \in Statement
  BY Popped DEF DbiTypeOK, Pending, Turn, Current
<1>4. QED BY <1>2, <1>3, ExecutedType, FaultType DEF Succeeds

LEMMA TransactionsBegins ==
    ASSUME DbiStoreAssumption, Transactions, harm' \subseteq Harm,
           NEW p \in Process,
           \/ \E m \in Mode : Begin(p, m)
           \/ LookAtLock(p) \/ InsertLock(p) \/ Detect(p) \/ Unlock(p) \/ List(p)
    PROVE  Transactions'
PROOF
<1> DbiTypeOK /\ BookAt(p) /\ Depth(p) BY DEF Transactions
<1> USE DEF At, Does, Goes, Reports, DbiTypeOK
<1>1. ASSUME NEW m \in Mode, Begin(p, m) PROVE Transactions'
  <2>1. BookAt(p)' /\ Depth(p)' BY <1>1 DEF Begin, BookAt, Depth, Transactional
  <2>2. mode' \in [Process -> Mode \cup {"none"}] /\ err' \in [Process -> BOOLEAN]
          /\ todo' \in [Process -> Pending]
    BY <1>1, ScriptType DEF Begin
  <2>3. PICK x \in Label : pc' = [pc EXCEPT ![p] = x] BY <1>1 DEF Begin, Label
  <2> HIDE DEF DbiTypeOK
  <2>4. QED BY <1>1, <2>1, <2>2, <2>3, TransactionsQuiet DEF Begin, DbiTypeOK
<1>2. CASE LookAtLock(p)
  <2>1. PICK x \in {"idle", "insert"} : pc' = [pc EXCEPT ![p] = x]
    BY <1>2 DEF LookAtLock
  <2>2. BookAt(p)' /\ Depth(p)'
    <3>1. pc[p] = "lock" /\ UNCHANGED <<kind, depth, book>> BY <1>2 DEF LookAtLock
    <3>2. book[p] = 0 /\ depth[p] = 0 /\ pc'[p] \in {"idle", "insert"}
      BY <2>1, <3>1 DEF BookAt, Depth
    <3>3. QED BY <3>1, <3>2 DEF BookAt, Depth, Transactional
  <2>3. /\ seen' \in [Process -> SUBSET (Process \cup {None})]
        /\ err' \in [Process -> BOOLEAN]
    <3>1. \/ UNCHANGED seen /\ err' = [err EXCEPT ![p] = TRUE]
          \/ UNCHANGED err /\ seen' = [seen EXCEPT ![p] = locks]
      BY <1>2 DEF LookAtLock
    <3>2. QED BY <3>1
  <2>4. QED BY <1>2, <2>1, <2>2, <2>3, TransactionsQuiet DEF LookAtLock, Label
<1>3. CASE InsertLock(p)
  <2>1. PICK x \in {"idle", "detect"} : pc' = [pc EXCEPT ![p] = x]
    BY <1>3 DEF InsertLock
  <2>2. BookAt(p)' /\ Depth(p)'
    BY <1>3, <2>1 DEF InsertLock, BookAt, Depth, Transactional
  <2>3. locks' \subseteq Process \cup {None} /\ err' \in [Process -> BOOLEAN]
    BY <1>3 DEF InsertLock
  <2>4. faults' \in 0 .. MaxFaults BY <1>3, FaultType DEF InsertLock
  <2>5. QED BY <1>3, <2>1, <2>2, <2>3, <2>4, TransactionsQuiet DEF InsertLock, Label
<1>4. CASE Detect(p)
  <2>1. PICK x \in {"load", "unlock", "recover"} : pc' = [pc EXCEPT ![p] = x]
    BY <1>4 DEF Detect
  <2>2. BookAt(p)' /\ Depth(p)'
    BY <1>4, <2>1 DEF Detect, BookAt, Depth, Transactional
  <2>3. todo' \in [Process -> Pending]
    <3>1. PICK script \in Pending : todo' = [todo EXCEPT ![p] = script]
      BY <1>4, ScriptType DEF Detect
    <3>2. QED BY <3>1
  <2>4. QED BY <1>4, <2>1, <2>2, <2>3, TransactionsQuiet DEF Detect, Label
<1>5. CASE Unlock(p)
  <2>1. BookAt(p)' /\ Depth(p)' BY <1>5 DEF Unlock, BookAt, Depth, Transactional
  <2>2. locks' \subseteq Process \cup {None} BY <1>5 DEF Unlock
  <2>3. QED BY <1>5, <2>1, <2>2, TransactionsQuiet DEF Unlock, Label
<1>6. CASE List(p)
  <2>1. BookAt(p)' /\ Depth(p)' BY <1>6 DEF List, BookAt, Depth, Transactional
  <2>2. todo' \in [Process -> Pending] BY <1>6, ScriptType DEF List
  <2>3. QED BY <1>6, <2>1, <2>2, TransactionsQuiet DEF List, Label
<1>7. QED BY <1>1, <1>2, <1>3, <1>4, <1>5, <1>6

(* The steps that execute a statement for each table and leave the         *)
(* transactions alone.                                                     *)
LEMMA TransactionsStatements ==
    ASSUME DbiStoreAssumption, Transactions, harm' \subseteq Harm,
           NEW p \in Process,
           Recover(p) \/ Finish(p)
    PROVE  Transactions'
PROOF
<1> DbiTypeOK /\ BookAt(p) /\ Depth(p) BY DEF Transactions
<1>t. /\ pc \in [Process -> Label] /\ err \in [Process -> BOOLEAN]
      /\ todo \in [Process -> Pending] /\ db \in Image
      /\ locks \subseteq Process \cup {None} /\ stored \in Version
      /\ mode \in [Process -> Mode \cup {"none"}]
      /\ seen \in [Process -> SUBSET (Process \cup {None})]
      /\ book \in [Process -> Version \cup {0}] /\ depth \in [Process -> Nat]
  BY DEF DbiTypeOK
<1>1. CASE Recover(p)
  <2> DEFINE fine == /\ db' \in Image /\ faults' \in 0 .. MaxFaults
                     /\ todo' \in [Process -> Pending] /\ err' \in [Process -> BOOLEAN]
                     /\ \E x \in {"recover", "load", "unlock"} :
                            pc' = [pc EXCEPT ![p] = x]
  <2>0. pc[p] = "recover" BY <1>1 DEF Recover, At
  <2>1. ASSUME Does(p, "load", Nothing), NoFault, UNCHANGED <<db, err>> PROVE fine
    BY <1>t, <2>1, ScriptType, FaultType DEF Does, Goes
  <2>2. ASSUME NEW t \in Table, Turn(p, t), Succeeds(p, t), GoesOn(p, t),
               UNCHANGED <<pc, err>>
        PROVE  fine
    BY <1>t, <2>0, <2>2, SucceedsType, GoesOnEffect
  <2>3. ASSUME NEW t \in Table, Failing(p, t), Does(p, "unlock", Nothing), Reports(p)
        PROVE  fine
    BY <1>t, <2>3, ScriptType, FaultType DEF Does, Goes, Reports, Failing, FailsAt
  <2>4. fine BY <1>1, <2>1, <2>2, <2>3 DEF Recover
  <2>5. UNCHANGED <<kind, undo, txn, locks, mode, seen, depth, book, stored>>
    BY <1>1 DEF Recover
  <2>6. BookAt(p)' /\ Depth(p)'
    BY <1>t, <2>0, <2>4, <2>5 DEF BookAt, Depth, Transactional
  <2>7. QED BY <1>t, <2>4, <2>5, <2>6, TransactionsQuiet DEF Label
<1>2. CASE Finish(p)
  <2> DEFINE fine == /\ db' \in Image /\ faults' \in 0 .. MaxFaults
                     /\ todo' \in [Process -> Pending] /\ err' \in [Process -> BOOLEAN]
  <2>0. pc[p] \in {"drop_backup", "rollback"} BY <1>2 DEF Finish
  <2>1. ASSUME NEW t \in Table, Turn(p, t), Succeeds(p, t), GoesOn(p, t), UNCHANGED err
        PROVE  fine
    BY <1>t, <2>0, <2>1, SucceedsType, GoesOnEffect
  <2>2. ASSUME NEW t \in Table, Turn(p, t), Failing(p, t), Reports(p), GoesOn(p, t)
        PROVE  fine
    BY <1>t, <2>2, GoesOnEffect, FaultType DEF Reports, Failing, FailsAt
  <2>3. ASSUME UNCHANGED <<db, err, todo, faults>> PROVE fine
    BY <1>t, <2>3, FaultType DEF NoFault
  <2>4. fine BY <1>2, <2>1, <2>2, <2>3 DEF Finish
  <2>5. UNCHANGED <<kind, undo, txn, locks, mode, seen, depth, stored>>
    BY <1>2 DEF Finish
  <2>6. PICK x \in {"drop_backup", "rollback", "close", "open"}, b \in Version \cup {0} :
             /\ pc' = [pc EXCEPT ![p] = x] /\ book' = [book EXCEPT ![p] = b]
             /\ x \in {"drop_backup", "rollback"} => pc[p] = x /\ b = book[p]
    <3>1. CASE UNCHANGED <<pc, book>>
      <4>1. pc' = [pc EXCEPT ![p] = pc[p]] /\ book' = [book EXCEPT ![p] = book[p]]
              /\ book[p] \in Version \cup {0}
        BY <1>t, <3>1
      <4>2. QED BY <2>0, <4>1
    <3>2. CASE Goes(p, "close") /\ UNCHANGED book
      <4>1. book' = [book EXCEPT ![p] = book[p]] /\ book[p] \in Version \cup {0}
        BY <1>t, <3>2
      <4>2. QED BY <3>2, <4>1 DEF Goes
    <3>3. CASE Goes(p, "open") /\ book' = [book EXCEPT ![p] = Format]
      <4>1. Format \in Version BY DEF Format, Version, DbiStoreAssumption
      <4>2. QED BY <3>3, <4>1 DEF Goes
    <3>4. QED BY <1>2, <3>1, <3>2, <3>3 DEF Finish
  <2>7. BookAt(p)' /\ Depth(p)'
    BY <1>t, <2>0, <2>5, <2>6 DEF BookAt, Depth, Transactional
  <2>8. depth' = [depth EXCEPT ![p] = depth[p]] /\ depth[p] \in Nat BY <1>t, <2>5
  <2>9. undo' \in Seq(Image) BY <2>5 DEF DbiTypeOK
  <2>10. QED
    BY <1>t, <2>4, <2>5, <2>6, <2>7, <2>8, <2>9, TransactionsStep DEF Label
<1>3. QED BY <1>1, <1>2
LEMMA TransactionsLoads ==
    ASSUME DbiStoreAssumption, Transactions, harm' \subseteq Harm,
           NEW p \in Process,
           Load(p) \/ SafeSync(p) \/ Edit(p)
    PROVE  Transactions'
PROOF
<1> DbiTypeOK /\ BookAt(p) /\ Depth(p) BY DEF Transactions
<1>t. /\ pc \in [Process -> Label] /\ err \in [Process -> BOOLEAN]
      /\ todo \in [Process -> Pending] /\ db \in Image /\ undo \in Seq(Image)
      /\ locks \subseteq Process \cup {None} /\ stored \in Version
      /\ mode \in [Process -> Mode \cup {"none"}]
      /\ seen \in [Process -> SUBSET (Process \cup {None})]
      /\ book \in [Process -> Version \cup {0}] /\ depth \in [Process -> Nat]
      /\ faults \in 0 .. MaxFaults /\ (txn = None <=> undo = <<>>)
      /\ depth[p] = IF txn = p THEN Len(undo) ELSE 0
      /\ depth[p] \in Nat /\ book[p] \in Version \cup {0} /\ p # None
  BY DEF DbiTypeOK, Transactions, DbiStoreAssumption
<1>1. CASE Load(p)
  <2> DEFINE S == UNION {Durable.data[t] : t \in {u \in Table : Durable.data[u] # None}}
             b == Max(S \cup {0})
  <2>1. Durable \in Image BY <1>t, Popped DEF Durable
  <2>2. S \cup {0} \in SUBSET (0 .. MaxVersion)
    <3>1. ASSUME NEW t \in Table, Durable.data[t] # None
          PROVE  Durable.data[t] \subseteq Version
      BY <2>1, <3>1 DEF Image, Rows
    <3>2. QED BY <3>1 DEF Version
  <2>3. b \in Version \cup {0}
    <3> HIDE DEF S
    <3>1. b \in S \cup {0} BY <2>2, MaxOfBounded DEF DbiStoreAssumption
    <3>2. QED BY <2>2, <3>1 DEF Version
  <2>4. book' = [book EXCEPT ![p] = b] BY <1>1 DEF Load
  <2> HIDE DEF b
  <2>5. PICK x \in {"safe_sync", "open", "read"} :
             /\ pc' = [pc EXCEPT ![p] = x]
             /\ x = "safe_sync" => b < Format
    BY <1>t, <1>1, <2>3, <2>4 DEF Load, Goes
  <2>6. pc[p] = "load" /\ depth' = [depth EXCEPT ![p] = depth[p]]
          /\ UNCHANGED <<kind, db, undo, txn, locks, mode, seen, todo, err, stored, faults>>
    BY <1>t, <1>1 DEF Load, At
  <2>7. BookAt(p)' /\ Depth(p)'
    BY <1>t, <2>3, <2>4, <2>5, <2>6 DEF BookAt, Depth, Transactional
  <2>8. QED BY <1>t, <2>3, <2>4, <2>5, <2>6, <2>7, TransactionsStep DEF Label
<1>2. CASE SafeSync(p)
  <2>1. /\ pc[p] = "safe_sync" /\ pc' = [pc EXCEPT ![p] = "backup"]
        /\ todo' \in [Process -> Pending]
        /\ UNCHANGED <<kind, db, locks, mode, seen, err, book, stored, faults>>
        /\ book' = [book EXCEPT ![p] = book[p]]
    BY <1>t, <1>2, ScriptType DEF SafeSync, At, Does, Goes
  <2>2. CASE Transactional
    <3>1. /\ txn \in {None, p} /\ txn' = p /\ undo' = <<db>> \o undo
          /\ depth' = [depth EXCEPT ![p] = depth[p] + 1]
      BY <1>2, <2>2 DEF SafeSync, Begun
    <3>2. undo' \in Seq(Image) /\ Len(undo') = Len(undo) + 1 /\ undo' # <<>>
      BY <1>t, <3>1, Pushed
    <3>3. /\ depth[p] + 1 = Len(undo') /\ depth[p] + 1 \in Nat
          /\ txn' = IF undo' = <<>> THEN None ELSE p
      BY <1>t, <3>1, <3>2
    <3>4. BookAt(p)' /\ Depth(p)'
      BY <1>t, <2>1, <3>1, <3>2, <3>3 DEF BookAt, Depth, Transactional
    <3>5. QED BY <1>t, <2>1, <3>1, <3>2, <3>3, <3>4, TransactionsStep DEF Label
  <2>3. CASE ~ Transactional
    <3>1. UNCHANGED <<txn, undo, depth>> BY <1>2, <2>3 DEF SafeSync
    <3>2. BookAt(p)' /\ Depth(p)'
      BY <1>t, <2>1, <2>3, <3>1 DEF BookAt, Depth, Transactional
    <3>3. QED BY <1>t, <2>1, <3>1, <3>2, TransactionsQuiet DEF Label
  <2>4. QED BY <2>2, <2>3
<1>3. CASE Edit(p)
  <2>1. /\ pc[p] = "open" /\ pc' = [pc EXCEPT ![p] = "edit"] /\ book[p] < MaxVersion
        /\ todo' \in [Process -> Pending] /\ err' \in [Process -> BOOLEAN]
        /\ UNCHANGED <<kind, db, locks, mode, seen, book, stored, faults>>
        /\ book' = [book EXCEPT ![p] = book[p]]
    BY <1>t, <1>3, ScriptType DEF Edit, At, Does, Goes
  <2>2. /\ txn \in {None, p} /\ txn' = p /\ undo' = <<db>> \o undo
        /\ depth' = [depth EXCEPT ![p] = depth[p] + 1]
    BY <1>3 DEF Edit, Begun
  <2>3. undo' \in Seq(Image) /\ Len(undo') = Len(undo) + 1 /\ undo' # <<>>
    BY <1>t, <2>2, Pushed
  <2>4. /\ depth[p] + 1 = Len(undo') /\ depth[p] + 1 \in Nat
        /\ txn' = IF undo' = <<>> THEN None ELSE p
    BY <1>t, <2>2, <2>3
  <2>5. BookAt(p)' /\ Depth(p)'
    BY <1>t, <2>1, <2>2, <2>3, <2>4 DEF BookAt, Depth, Transactional
  <2>6. QED BY <1>t, <2>1, <2>2, <2>3, <2>4, <2>5, TransactionsStep DEF Label
<1>4. QED BY <1>1, <1>2, <1>3

(* A session that gives up a save leaves no transaction behind.            *)
LEMMA TransactionsGiveUp ==
    ASSUME DbiStoreAssumption, Transactions, harm' \subseteq Harm,
           NEW p \in Process, GivesUp(p),
           pc[p] \in {"backup", "synced"}, faults' \in 0 .. MaxFaults,
           UNCHANGED <<kind, locks, mode, seen, book>>, stored' \in Version
    PROVE  Transactions'
PROOF
<1> DbiTypeOK /\ BookAt(p) /\ Depth(p) BY DEF Transactions
<1>t. /\ pc \in [Process -> Label] /\ err \in [Process -> BOOLEAN]
      /\ todo \in [Process -> Pending] /\ db \in Image /\ undo \in Seq(Image)
      /\ locks \subseteq Process \cup {None}
      /\ mode \in [Process -> Mode \cup {"none"}]
      /\ seen \in [Process -> SUBSET (Process \cup {None})]
      /\ book \in [Process -> Version \cup {0}] /\ depth \in [Process -> Nat]
      /\ (txn = None <=> undo = <<>>)
      /\ depth[p] = IF txn = p THEN Len(undo) ELSE 0
      /\ depth[p] \in Nat /\ book[p] \in Version \cup {0}
  BY DEF DbiTypeOK, Transactions
<1>1. book' = [book EXCEPT ![p] = book[p]] /\ err' \in [Process -> BOOLEAN]
        /\ todo' \in [Process -> Pending]
  <2>1. todo' \in [Process -> Pending]
    <3>1. \E script \in {Nothing, RollbackScript} :
               todo' = [todo EXCEPT ![p] = script]
      BY DEF GivesUp, Does
    <3>2. QED BY <1>t, <3>1, ScriptType
  <2>2. book' = [book EXCEPT ![p] = book[p]] BY <1>t
  <2>3. QED BY <1>t, <2>1, <2>2 DEF GivesUp, Reports
<1>2. CASE Transactional
  <2>1. depth[p] >= 1 BY <1>2 DEF Depth
  <2>2. txn = p /\ undo # <<>> BY <1>t, <2>1
  <2>3. /\ db' = Last(undo) /\ undo' = <<>> /\ txn' = None
        /\ depth' = [depth EXCEPT ![p] = 0] /\ pc' = [pc EXCEPT ![p] = "close"]
    BY <1>2 DEF GivesUp, Does, Goes
  <2>4. db' \in Image /\ undo' \in Seq(Image) /\ Len(undo') = 0
    BY <1>t, <2>2, <2>3, Popped
  <2>5. BookAt(p)' /\ Depth(p)' BY <1>t, <2>3 DEF BookAt, Depth, Transactional
  <2>6. QED BY <1>t, <1>1, <2>2, <2>3, <2>4, <2>5, TransactionsStep DEF Label
<1>3. CASE ~ Transactional
  <2>1. UNCHANGED <<db, undo, txn, depth>> /\ pc' = [pc EXCEPT ![p] = "rollback"]
    BY <1>3 DEF GivesUp, Does, Goes
  <2>2. BookAt(p)' /\ Depth(p)'
    BY <1>t, <1>3, <2>1 DEF BookAt, Depth, Transactional
  <2>3. QED BY <1>t, <1>1, <2>1, <2>2, TransactionsQuiet DEF Label
<1>4. QED BY <1>2, <1>3
(* The innermost transaction or savepoint of a session is left.            *)
LEMMA Leaves ==
    ASSUME DbiStoreAssumption, Transactions, NEW p \in Process, depth[p] >= 1,
           undo' = Tail(undo), txn' = IF Len(undo) = 1 THEN None ELSE txn
    PROVE  /\ txn = p /\ Len(undo) = depth[p] /\ undo # <<>> /\ depth[p] - 1 \in Nat
           /\ undo' \in Seq(Image) /\ Len(undo') = depth[p] - 1
           /\ txn' = IF undo' = <<>> THEN None ELSE p
           /\ Head(undo) \in Image /\ Last(undo) \in Image
PROOF
<1>1. depth[p] = (IF txn = p THEN Len(undo) ELSE 0) /\ undo \in Seq(Image)
        /\ (txn = None <=> undo = <<>>)
  BY DEF Transactions, DbiTypeOK
<1>2. txn = p /\ undo # <<>> BY <1>1 DEF DbiStoreAssumption
<1>3. QED BY <1>1, <1>2, Popped

LEMMA TransactionsSaves ==
    ASSUME DbiStoreAssumption, Transactions, harm' \subseteq Harm,
           NEW p \in Process,
           Backup(p) \/ Create(p)
    PROVE  Transactions'
PROOF
<1> DbiTypeOK /\ BookAt(p) /\ Depth(p) BY DEF Transactions
<1>t. /\ pc \in [Process -> Label] /\ err \in [Process -> BOOLEAN]
      /\ todo \in [Process -> Pending] /\ db \in Image /\ undo \in Seq(Image)
      /\ locks \subseteq Process \cup {None} /\ stored \in Version
      /\ mode \in [Process -> Mode \cup {"none"}]
      /\ seen \in [Process -> SUBSET (Process \cup {None})]
      /\ book \in [Process -> Version \cup {0}] /\ depth \in [Process -> Nat]
      /\ faults \in 0 .. MaxFaults /\ (txn = None <=> undo = <<>>)
      /\ depth[p] = IF txn = p THEN Len(undo) ELSE 0
      /\ depth[p] \in Nat /\ book[p] \in Version \cup {0} /\ p # None
  BY DEF DbiTypeOK, Transactions, DbiStoreAssumption
<1>1. CASE Backup(p)
  <2>0. pc[p] = "backup" /\ UNCHANGED <<kind, locks, mode, seen, book, stored>>
    BY <1>1 DEF Backup, At
  <2>1. ASSUME NEW t \in Table, Turn(p, t), Succeeds(p, t), GoesOn(p, t),
               UNCHANGED <<undo, txn, pc, depth, err>>
        PROVE  Transactions'
    <3>1. db' \in Image /\ faults' \in 0 .. MaxFaults /\ todo' \in [Process -> Pending]
      BY <2>0, <2>1, SucceedsType, GoesOnEffect
    <3>2. pc' = [pc EXCEPT ![p] = "backup"] BY <1>t, <2>0, <2>1
    <3>3. BookAt(p)' /\ Depth(p)'
      BY <1>t, <2>0, <2>1, <3>2 DEF BookAt, Depth, Transactional
    <3>4. QED BY <1>t, <2>0, <2>1, <3>1, <3>2, <3>3, TransactionsQuiet DEF Label
  <2>2. ASSUME Fault \/ NoFault, GivesUp(p) PROVE Transactions'
    BY <1>t, <2>0, <2>2, FaultType, TransactionsGiveUp
  <2>3. ASSUME Does(p, "create", CreateScript),
               UNCHANGED <<db, undo, txn, depth, err, faults>>
        PROVE  Transactions'
    <3>1. todo' \in [Process -> Pending] /\ pc' = [pc EXCEPT ![p] = "create"]
      BY <1>t, <2>3, ScriptType DEF Does, Goes
    <3>2. BookAt(p)' /\ Depth(p)'
      BY <1>t, <2>0, <2>3, <3>1 DEF BookAt, Depth, Transactional
    <3>3. QED BY <1>t, <2>0, <2>3, <3>1, <3>2, TransactionsQuiet DEF Label
  <2>4. QED BY <1>1, <2>1, <2>2, <2>3 DEF Backup, FailsAt
<1>2. CASE Create(p)
  <2>0. pc[p] = "create" /\ UNCHANGED <<kind, locks, mode, seen, book, stored>>
    BY <1>2 DEF Create, At
  <2>1. ASSUME NEW t \in Table, Turn(p, t), GoesOn(p, t),
               \/ Succeeds(p, t) /\ UNCHANGED err
               \/ Failing(p, t) /\ Reports(p),
               UNCHANGED <<undo, txn, pc, depth>>
        PROVE  Transactions'
    <3>1. db' \in Image /\ faults' \in 0 .. MaxFaults
      <4>1. CASE Succeeds(p, t) BY <2>0, <2>1, <4>1, SucceedsType
      <4>2. CASE Failing(p, t) BY <1>t, <4>2, FaultType DEF Failing, FailsAt
      <4>3. QED BY <2>1, <4>1, <4>2
    <3>2. todo' \in [Process -> Pending] /\ err' \in [Process -> BOOLEAN]
      BY <1>t, <2>1, GoesOnEffect DEF Reports
    <3>3. pc' = [pc EXCEPT ![p] = "create"] BY <1>t, <2>0, <2>1
    <3>4. BookAt(p)' /\ Depth(p)'
      BY <1>t, <2>0, <2>1, <3>3 DEF BookAt, Depth, Transactional
    <3>5. QED
      BY <1>t, <2>0, <2>1, <3>1, <3>2, <3>3, <3>4, TransactionsQuiet DEF Label
  <2>2. ASSUME Begun(p), Does(p, "write", WriteScript), UNCHANGED <<db, err, faults>>
        PROVE  Transactions'
    <3>1. /\ todo' \in [Process -> Pending] /\ pc' = [pc EXCEPT ![p] = "write"]
          /\ book' = [book EXCEPT ![p] = book[p]]
      BY <1>t, <2>0, <2>2, ScriptType DEF Does, Goes
    <3>2. /\ txn \in {None, p} /\ txn' = p /\ undo' = <<db>> \o undo
          /\ depth' = [depth EXCEPT ![p] = depth[p] + 1]
      BY <2>2 DEF Begun
    <3>3. undo' \in Seq(Image) /\ Len(undo') = Len(undo) + 1 /\ undo' # <<>>
      BY <1>t, <3>2, Pushed
    <3>4. /\ depth[p] + 1 = Len(undo') /\ depth[p] + 1 \in Nat
          /\ txn' = IF undo' = <<>> THEN None ELSE p
      BY <1>t, <3>2, <3>3
    <3>5. BookAt(p)' /\ Depth(p)'
      BY <1>t, <2>0, <3>1, <3>2, <3>3, <3>4 DEF BookAt, Depth, Transactional
    <3>6. QED
      BY <1>t, <2>0, <2>2, <3>1, <3>2, <3>3, <3>4, <3>5, TransactionsStep DEF Label
  <2>3. QED BY <1>2, <2>1, <2>2 DEF Create
<1>3. QED BY <1>1, <1>2

LEMMA TransactionsWrites ==
    ASSUME DbiStoreAssumption, Transactions, harm' \subseteq Harm,
           NEW p \in Process,
           Write(p) \/ WriteDone(p) \/ EditWrite(p)
    PROVE  Transactions'
PROOF
<1> DbiTypeOK /\ BookAt(p) /\ Depth(p) BY DEF Transactions
<1>t. /\ pc \in [Process -> Label] /\ err \in [Process -> BOOLEAN]
      /\ todo \in [Process -> Pending] /\ db \in Image /\ undo \in Seq(Image)
      /\ locks \subseteq Process \cup {None} /\ stored \in Version
      /\ mode \in [Process -> Mode \cup {"none"}]
      /\ seen \in [Process -> SUBSET (Process \cup {None})]
      /\ book \in [Process -> Version \cup {0}] /\ depth \in [Process -> Nat]
      /\ faults \in 0 .. MaxFaults
      /\ depth[p] \in Nat /\ book[p] \in Version \cup {0}
  BY DEF DbiTypeOK
<1>0. /\ pc[p] \in {"write", "edit"} /\ depth[p] >= 1
      /\ UNCHANGED <<kind, locks, mode, seen, book>>
      /\ book' = [book EXCEPT ![p] = book[p]]
  BY <1>t DEF Write, WriteDone, EditWrite, At, Depth
(* A statement is executed. *)
<1>1. ASSUME NEW t \in Table, Turn(p, t), Succeeds(p, t), GoesOn(p, t),
             UNCHANGED <<undo, txn, pc, depth, err, stored>>
      PROVE  Transactions'
  <2>1. db' \in Image /\ faults' \in 0 .. MaxFaults /\ todo' \in [Process -> Pending]
    BY <1>0, <1>1, SucceedsType, GoesOnEffect
  <2>2. pc' = [pc EXCEPT ![p] = pc[p]] /\ pc[p] \in Label BY <1>t, <1>0, <1>1
  <2>3. BookAt(p)' /\ Depth(p)'
    BY <1>t, <1>0, <1>1 DEF BookAt, Depth, Transactional
  <2>4. QED BY <1>t, <1>0, <1>1, <2>1, <2>2, <2>3, TransactionsQuiet
(* The transaction is left. *)
<1>2. ASSUME undo' = Tail(undo), txn' = (IF Len(undo) = 1 THEN None ELSE txn),
             depth' = [depth EXCEPT ![p] = @ - 1], db' \in {db, Head(undo)},
             NEW x \in {"synced", "open"}, pc' = [pc EXCEPT ![p] = x],
             pc[p] = IF x = "synced" THEN "write" ELSE "edit",
             todo' \in [Process -> Pending], err' \in [Process -> BOOLEAN],
             faults' \in 0 .. MaxFaults, stored' \in Version
      PROVE  Transactions'
  <2>1. /\ txn = p /\ depth[p] - 1 \in Nat /\ undo' \in Seq(Image)
        /\ Len(undo') = depth[p] - 1 /\ txn' = (IF undo' = <<>> THEN None ELSE p)
        /\ Head(undo) \in Image
    BY <1>0, <1>2, Leaves
  <2>2. depth' = [depth EXCEPT ![p] = depth[p] - 1] /\ db' \in Image BY <1>t, <1>2, <2>1
  <2>3. BookAt(p)' /\ Depth(p)'
    BY <1>t, <1>0, <1>2, <2>1, <2>2 DEF BookAt, Depth, Transactional
  <2>4. x \in Label /\ txn \in {None, p} /\ depth[p] - 1 = Len(undo')
    BY <2>1 DEF Label
  <2>5. QED BY <1>t, <1>0, <1>2, <2>1, <2>2, <2>3, <2>4, TransactionsStep
<1>3. ASSUME NEW t \in Table, FailsAt(p, t), RolledBackTo(p, Head(undo)),
             NEW x \in {"synced", "open"}, Does(p, x, Nothing), Reports(p),
             pc[p] = IF x = "synced" THEN "write" ELSE "edit", UNCHANGED stored
      PROVE  Transactions'
  <2>1. /\ pc' = [pc EXCEPT ![p] = x] /\ todo' \in [Process -> Pending]
        /\ err' \in [Process -> BOOLEAN] /\ faults' \in 0 .. MaxFaults
    BY <1>t, <1>3, ScriptType, FaultType DEF Does, Goes, Reports, FailsAt
  <2>2. QED BY <1>t, <1>2, <1>3, <2>1 DEF RolledBackTo
(* It fails, and sync goes on. *)
<1>g. ASSUME NEW t \in Table, Turn(p, t), Failing(p, t), GoesOn(p, t), Reports(p),
             UNCHANGED <<undo, txn, pc, depth, stored>>
      PROVE  Transactions'
  <2>1. /\ db' \in Image /\ faults' \in 0 .. MaxFaults /\ todo' \in [Process -> Pending]
        /\ err' \in [Process -> BOOLEAN]
    BY <1>t, <1>g, GoesOnEffect, FaultType DEF Failing, FailsAt, Reports
  <2>2. pc' = [pc EXCEPT ![p] = pc[p]] /\ pc[p] \in Label BY <1>t, <1>0, <1>g
  <2>3. BookAt(p)' /\ Depth(p)'
    BY <1>t, <1>0, <1>g DEF BookAt, Depth, Transactional
  <2>4. QED BY <1>t, <1>0, <1>g, <2>1, <2>2, <2>3, TransactionsQuiet
<1>4. CASE Write(p)
  BY <1>1, <1>3, <1>g, <1>4 DEF Write, At
<1>5. CASE EditWrite(p)
  BY <1>1, <1>3, <1>5 DEF EditWrite, At
<1>6. CASE WriteDone(p)
  <2>1. /\ pc[p] = "write" /\ pc' = [pc EXCEPT ![p] = "synced"]
        /\ todo' \in [Process -> Pending]
    BY <1>t, <1>6 DEF WriteDone, At, Goes
  <2>2. Format \in Version BY DEF Format, Version, DbiStoreAssumption
  <2>3. CASE /\ Committed(p) /\ UNCHANGED err
             /\ stored' = IF Transactional \/ err[p] THEN stored ELSE Format
    <3>1. stored' \in Version BY <1>t, <2>2, <2>3
    <3>2. QED BY <1>t, <1>2, <2>1, <2>3, <3>1 DEF Committed
  <2>4. CASE /\ Fault /\ RolledBackTo(p, Head(undo)) /\ Reports(p) /\ UNCHANGED stored
    BY <1>t, <1>2, <2>1, <2>4, FaultType DEF RolledBackTo, Reports
  <2>5. QED BY <1>6, <2>3, <2>4 DEF WriteDone
<1>7. QED BY <1>4, <1>5, <1>6
LEMMA TransactionsEnds ==
    ASSUME DbiStoreAssumption, Transactions, harm' \subseteq Harm,
           NEW p \in Process,
           Synced(p) \/ EditDone(p) \/ End(p) \/ Crash(p)
    PROVE  Transactions'
PROOF
<1> DbiTypeOK /\ BookAt(p) /\ Depth(p) BY DEF Transactions
<1>t. /\ pc \in [Process -> Label] /\ err \in [Process -> BOOLEAN]
      /\ todo \in [Process -> Pending] /\ db \in Image /\ undo \in Seq(Image)
      /\ locks \subseteq Process \cup {None} /\ stored \in Version
      /\ mode \in [Process -> Mode \cup {"none"}]
      /\ seen \in [Process -> SUBSET (Process \cup {None})]
      /\ book \in [Process -> Version \cup {0}] /\ depth \in [Process -> Nat]
      /\ faults \in 0 .. MaxFaults /\ (txn = None <=> undo = <<>>)
      /\ depth[p] = IF txn = p THEN Len(undo) ELSE 0
      /\ depth[p] \in Nat /\ book[p] \in Version \cup {0} /\ p # None
  BY DEF DbiTypeOK, Transactions, DbiStoreAssumption
<1>1. CASE Synced(p)
  <2>0. pc[p] = "synced" /\ UNCHANGED <<kind, locks, mode, seen, book>>
          /\ book' = [book EXCEPT ![p] = book[p]]
    BY <1>t, <1>1 DEF Synced, At
  <2>1. CASE GivesUp(p) /\ NoFault /\ UNCHANGED stored
    BY <1>t, <2>0, <2>1, FaultType, TransactionsGiveUp
  <2>2. CASE /\ Transactional /\ Committed(p) /\ stored' = Format
             /\ Does(p, "list", Nothing) /\ UNCHANGED err
    <3>1. depth[p] >= 1 BY <2>0, <2>2 DEF Depth
    <3>2. /\ undo' = Tail(undo) /\ txn' = (IF Len(undo) = 1 THEN None ELSE txn)
          /\ depth' = [depth EXCEPT ![p] = depth[p] - 1] /\ UNCHANGED <<db, faults>>
      BY <2>2 DEF Committed
    <3>3. /\ txn \in {None, p} /\ depth[p] - 1 \in Nat /\ undo' \in Seq(Image)
          /\ Len(undo') = depth[p] - 1 /\ txn' = (IF undo' = <<>> THEN None ELSE p)
      BY <3>1, <3>2, Leaves
    <3>4. /\ pc' = [pc EXCEPT ![p] = "list"] /\ todo' \in [Process -> Pending]
          /\ stored' \in Version /\ "list" \in Label
      BY <1>t, <2>2, ScriptType
      DEF Does, Goes, Format, Version, DbiStoreAssumption, Label
    <3>5. BookAt(p)' /\ Depth(p)'
      BY <1>t, <2>0, <3>2, <3>3, <3>4 DEF BookAt, Depth, Transactional
    <3>6. QED
      BY <1>t, <2>0, <2>2, <3>2, <3>3, <3>4, <3>5, TransactionsStep
  <2>3. CASE /\ Does(p, "list", Nothing) /\ UNCHANGED <<db, undo, txn, depth, stored>>
             /\ err' \in [Process -> BOOLEAN] /\ (Fault \/ NoFault)
    <3>1. /\ pc' = [pc EXCEPT ![p] = "list"] /\ todo' \in [Process -> Pending]
          /\ faults' \in 0 .. MaxFaults
      BY <1>t, <2>3, ScriptType, FaultType DEF Does, Goes
    <3>2. BookAt(p)' /\ Depth(p)'
      BY <1>t, <2>0, <2>3, <3>1 DEF BookAt, Depth, Transactional
    <3>3. QED BY <1>t, <2>0, <2>3, <3>1, <3>2, TransactionsQuiet DEF Label
  <2>4. CASE /\ CommitFails(p) /\ Does(p, "list", Nothing) /\ Reports(p)
             /\ UNCHANGED stored
    <3>1. err' \in [Process -> BOOLEAN] BY <1>t, <2>4 DEF Reports
    <3>2. QED BY <2>3, <2>4, <3>1 DEF CommitFails
  <2>5. CASE /\ NoFault /\ Does(p, "list", Nothing)
             /\ UNCHANGED <<db, undo, txn, depth, err, stored>>
    BY <1>t, <2>3, <2>5
  <2>6. QED BY <1>1, <2>1, <2>2, <2>4, <2>5 DEF Synced
<1>2. CASE EditDone(p)
  <2>0. /\ pc[p] = "edit" /\ UNCHANGED <<kind, locks, mode, seen, todo>>
        /\ pc' = [pc EXCEPT ![p] = "open"] /\ depth[p] >= 1 /\ book[p] < MaxVersion
        /\ "open" \in Label
    BY <1>t, <1>2 DEF EditDone, At, Goes, Depth, BookAt, Label
  <2>1. CASE /\ Committed(p) /\ book' = [book EXCEPT ![p] = @ + 1]
             /\ stored' = book[p] + 1 /\ UNCHANGED err
    <3>1. /\ undo' = Tail(undo) /\ txn' = (IF Len(undo) = 1 THEN None ELSE txn)
          /\ depth' = [depth EXCEPT ![p] = depth[p] - 1] /\ UNCHANGED <<db, faults>>
      BY <2>1 DEF Committed
    <3>2. /\ txn \in {None, p} /\ depth[p] - 1 \in Nat /\ undo' \in Seq(Image)
          /\ Len(undo') = depth[p] - 1 /\ txn' = (IF undo' = <<>> THEN None ELSE p)
      BY <2>0, <3>1, Leaves
    <3>3. book[p] + 1 \in Version /\ book' = [book EXCEPT ![p] = book[p] + 1]
      BY <1>t, <2>0, <2>1 DEF Version, DbiStoreAssumption
    <3>4. BookAt(p)' /\ Depth(p)'
      BY <1>t, <2>0, <3>1, <3>2, <3>3 DEF BookAt, Depth, Transactional
    <3>5. QED
      BY <1>t, <2>0, <2>1, <3>1, <3>2, <3>3, <3>4, TransactionsStep
  <2>2. CASE CommitFails(p) /\ Reports(p) /\ UNCHANGED <<book, stored>>
    <3>1. /\ UNCHANGED <<db, undo, txn, depth>> /\ faults' \in 0 .. MaxFaults
          /\ err' \in [Process -> BOOLEAN]
      BY <1>t, <2>2, FaultType DEF CommitFails, Reports
    <3>2. BookAt(p)' /\ Depth(p)'
      BY <1>t, <2>0, <2>2, <3>1 DEF BookAt, Depth, Transactional
    <3>3. QED BY <1>t, <2>0, <2>2, <3>1, <3>2, TransactionsQuiet
  <2>3. QED BY <1>2, <2>1, <2>2 DEF EditDone
<1>3. CASE End(p) \/ Crash(p)
  <2>1. /\ UNCHANGED <<kind, seen, err, stored>>
        /\ pc' = [pc EXCEPT ![p] = "idle"] /\ mode' = [mode EXCEPT ![p] = "none"]
        /\ depth' = [depth EXCEPT ![p] = 0] /\ book' = [book EXCEPT ![p] = 0]
        /\ "idle" \in Label
    BY <1>3 DEF End, Crash, Does, Goes, Label
  <2>2. /\ todo' \in [Process -> Pending] /\ faults' \in 0 .. MaxFaults
        /\ locks' \subseteq Process \cup {None}
        /\ mode' \in [Process -> Mode \cup {"none"}]
    <3>1. faults' \in 0 .. MaxFaults BY <1>t, <1>3, FaultType DEF End, Crash
    <3>2. todo' \in [Process -> Pending]
      BY <1>t, <1>3, ScriptType DEF End, Crash, Does
    <3>3. locks' \subseteq Process \cup {None} BY <1>t, <1>3 DEF End, Crash
    <3>4. QED BY <1>t, <2>1, <3>1, <3>2, <3>3
  <2>3. BookAt(p)' /\ Depth(p)'
    BY <1>t, <2>1 DEF BookAt, Depth, Transactional
  <2>4. CASE txn = p
    <3>1. db' = Last(undo) /\ undo' = <<>> /\ txn' = None
      BY <1>3, <2>4 DEF End, Crash, Disconnected
    <3>2. db' \in Image /\ undo' \in Seq(Image) /\ Len(undo') = 0
      BY <1>t, <2>4, <3>1, Popped
    <3>3. QED BY <1>t, <2>1, <2>2, <2>3, <2>4, <3>1, <3>2, TransactionsStep
  <2>5. CASE txn # p
    <3>1. UNCHANGED <<db, undo, txn>> /\ depth[p] = 0
      BY <1>t, <1>3, <2>5 DEF End, Crash, Disconnected
    <3>2. QED BY <1>t, <2>1, <2>2, <2>3, <3>1, TransactionsStep
  <2>6. QED BY <2>4, <2>5
<1>4. QED BY <1>1, <1>2, <1>3

LEMMA HarmType ==
    ASSUME DbiTypeOK, [DbiNext]_dbiVars PROVE harm' \subseteq Harm
PROOF
<1> harm \subseteq Harm BY DEF DbiTypeOK
<1>1. CASE UNCHANGED dbiVars BY <1>1 DEF dbiVars
<1>2. ASSUME NEW p \in Process, NEW m, Starts(p, m) PROVE harm' \subseteq Harm
  BY <1>2 DEF Starts, Harm
<1>3. ASSUME NEW p \in Process, NEW m \in Mode, Begin(p, m) PROVE harm' \subseteq Harm
  BY <1>2, <1>3 DEF Begin
<1>4. ASSUME NEW p \in Process, InsertLock(p) PROVE harm' \subseteq Harm
  BY <1>2, <1>4 DEF InsertLock
<1>5. ASSUME NEW p \in Process, EditDone(p) PROVE harm' \subseteq Harm
  BY <1>5 DEF EditDone, Harm
<1>6. ASSUME NEW p \in Process,
             \/ LookAtLock(p) \/ Detect(p) \/ Recover(p) \/ Unlock(p) \/ Load(p)
             \/ SafeSync(p) \/ Backup(p) \/ Create(p) \/ Write(p) \/ WriteDone(p)
             \/ Synced(p) \/ List(p) \/ Finish(p) \/ Edit(p) \/ EditWrite(p)
             \/ End(p) \/ Crash(p)
      PROVE  UNCHANGED harm
  BY <1>6 DEF LookAtLock, Detect, Recover, Unlock, Load, SafeSync, Backup, Create,
              Write, WriteDone, Synced, List, Finish, Edit, EditWrite, End, Crash
<1>7. QED BY <1>1, <1>3, <1>4, <1>5, <1>6 DEF DbiNext

LEMMA TransactionsInvariant ==
    ASSUME DbiStoreAssumption, Transactions, [DbiNext]_dbiVars PROVE Transactions'
PROOF
<1>1. CASE UNCHANGED dbiVars
  <2>1. Transactional' = Transactional BY <1>1 DEF Transactional, dbiVars
  <2>2. QED
    BY <1>1, <2>1 DEF dbiVars, sessionVars, Transactions, DbiTypeOK, BookAt, Depth
<1>2. CASE DbiNext
  <2>1. harm' \subseteq Harm BY HarmType DEF Transactions
  <2>2. QED BY <1>2, <2>1, TransactionsBegins, TransactionsStatements, TransactionsLoads,
     TransactionsSaves, TransactionsWrites, TransactionsEnds DEF DbiNext
<1>3. QED BY <1>1, <1>2

(* GncDbiBackend and GncDbiSqlConnection: whoever shares the database and   *)
(* whatever fails, a transaction that is open belongs to one process, what *)
(* is rolled back to is an image of the database, and no row, book or      *)
(* stored version is beyond those the program writes.                      *)
THEOREM DbiTypeCorrect == DbiSpec => []DbiTypeOK
PROOF
<1>1. DbiInit => Transactions BY TransactionsInit, DbiStoreAssumption
<1>2. Transactions /\ [DbiNext]_dbiVars => Transactions'
  BY TransactionsInvariant, DbiStoreAssumption
<1>3. Transactions => DbiTypeOK BY DEF Transactions
<1>4. QED BY <1>1, <1>2, <1>3, PTL DEF DbiSpec

\* The program's count of transactions and savepoints is the database's.
SavepointsAgree ==
    \A p \in Process : depth[p] = IF txn = p THEN Len(undo) ELSE 0

(* m_sql_savepoint in begin_transaction, commit_transaction and            *)
(* rollback_transaction: on every path of a failed or completed save or    *)
(* edit the connection counts the savepoints that the database has, so     *)
(* that none of them ends a transaction where it means a savepoint.        *)
THEOREM SavepointsCounted == DbiSpec => []SavepointsAgree
PROOF
<1>1. DbiInit => Transactions BY TransactionsInit, DbiStoreAssumption
<1>2. Transactions /\ [DbiNext]_dbiVars => Transactions'
  BY TransactionsInvariant, DbiStoreAssumption
<1>3. Transactions => SavepointsAgree BY DEF Transactions, SavepointsAgree
<1>4. QED BY <1>1, <1>2, <1>3, PTL DEF DbiSpec
-----------------------------------------------------------------------------
(***************************************************************************)
(* Data is kept by every step: the sessions that do not work on the        *)
(* database touch only what is their own.                                  *)
(***************************************************************************)
DataInv == Transactions /\ Data

LEMMA NoneIsNoSet ==
    ASSUME DbiStoreAssumption, NEW v \in Version
    PROVE  None # {v} /\ None # {} /\ 1 \in Version /\ 2 \in Version
             /\ None # {1} /\ None # {2} /\ None # {1, 2}
BY DEF DbiStoreAssumption, Version

LEMMA KeptAlways ==
    ASSUME NEW s, NEW d, NEW b, NEW m, NEW ops, NEW e
    PROVE  /\ Recovers(s, d, b, m, ops) => Kept(s, d, b, m)
           /\ BacksUp(d, b, m, ops) => Kept(1, d, b, m)
           /\ Creates(d, b, m, ops) => Kept(1, d, b, m)
           /\ Renamed(d, b, m, {None, {}}) => Kept(1, d, b, m)
           /\ Renamed(d, b, m, {None, {}, {2}}) => Kept(1, d, b, m)
           /\ Renamed(d, b, m, {{2}}) => Kept(2, d, b, m)
           /\ Writes(d, b, m, ops, e) => Kept(1, d, b, m)
           /\ DropsBackup(d, b, m, ops, e) => Kept(2, d, b, m)
           /\ RollsBack(d, b, m, ops) => Kept(1, d, b, m)
           /\ Settled(s, d, b, m) => Kept(s, d, b, m)
PROOF
<1> USE DEF Kept, Settled, Unsettled, Renamed
<1>1. Recovers(s, d, b, m, ops) => Kept(s, d, b, m) BY DEF Recovers
<1>2. BacksUp(d, b, m, ops) => Kept(1, d, b, m) BY DEF BacksUp
<1>3. Creates(d, b, m, ops) => Kept(1, d, b, m) BY DEF Creates
<1>4. DropsBackup(d, b, m, ops, e) => Kept(2, d, b, m) BY DEF DropsBackup
<1>5. /\ RollsBack(d, b, m, ops) => Kept(1, d, b, m)
      /\ Writes(d, b, m, ops, e) => Kept(1, d, b, m)
  BY DEF RollsBack, Writes
<1>6. /\ Renamed(d, b, m, {None, {}}) => Kept(1, d, b, m)
      /\ Renamed(d, b, m, {None, {}, {2}}) => Kept(1, d, b, m)
      /\ Renamed(d, b, m, {{2}}) => Kept(2, d, b, m)
      /\ Settled(s, d, b, m) => Kept(s, d, b, m)
  OBVIOUS
<1>7. QED BY <1>1, <1>2, <1>3, <1>4, <1>5, <1>6

\* No other session works on the database.
Alone(p) == \A q \in Process \ {p} : ~ Working(q)

(* What every step of a session that works on the database starts from.    *)
LEMMA AtWork ==
    ASSUME DataInv, NEW p \in Process, pc[p] \notin {"idle", "lock", "insert", "read"}
    PROVE  /\ Working(p) /\ Phase(p) /\ AllKept
           /\ pc[p] \notin {"detect", "load", "open", "edit"} => Alone(p)
           /\ pc[p] \in {"detect", "load"} => txn # p
           /\ Alone(p) \/ pc[p] \notin {"detect", "load"}
                => txn \in {None, p} /\ (undo # <<>> => txn = p)
           /\ (txn = None <=> undo = <<>>)
           /\ kind \in Kinds /\ undo \in Seq(Image) /\ db \in Image /\ DbiTypeOK
           /\ pc \in [Process -> Label] /\ err \in [Process -> BOOLEAN]
           /\ mode \in [Process -> Mode \cup {"none"}]
           /\ todo \in [Process -> Pending] /\ book \in [Process -> Version \cup {0}]
           /\ depth \in [Process -> Nat] /\ BookAt(p) /\ stored \in Version
           /\ depth[p] = IF txn = p THEN Len(undo) ELSE 0
PROOF
<1>1. Working(p) /\ Phase(p) /\ AllKept BY DEF Working, DataInv, Data
<1>2. DbiTypeOK /\ BookAt(p) /\ Depth(p)
        /\ \A q \in Process : depth[q] = (IF txn = q THEN Len(undo) ELSE 0) /\ Depth(q)
  BY DEF DataInv, Transactions
<1>3. (txn = None <=> undo = <<>>) /\ undo \in Seq(Image) /\ txn \in Process \cup {None}
  BY <1>2 DEF DbiTypeOK
<1>4. pc[p] \notin {"detect", "load", "open", "edit"} => Alone(p)
  BY <1>1 DEF DataInv, Data, Alone, Beside, Editing
<1>5. ASSUME NEW q \in Process, pc[q] \in {"detect", "load"} PROVE txn # q
  <2>1. depth[q] = 0 /\ depth[q] = IF txn = q THEN Len(undo) ELSE 0
    BY <1>2, <1>5 DEF Depth
  <2>2. undo # <<>> => Len(undo) # 0 BY <1>3
  <2>3. txn = q => txn # None
    <3>1. None \notin Process BY DbiStoreAssumption DEF DbiStoreAssumption
    <3>2. QED BY <3>1
  <2>4. QED BY <1>3, <2>1, <2>2, <2>3
<1>6. ASSUME Alone(p) \/ pc[p] \notin {"detect", "load"}, txn # None PROVE txn = p
  <2>1. txn \in Process /\ Working(txn) BY <1>3, <1>6 DEF DataInv, Data
  <2>2. pc[txn] \notin {"detect", "load"} BY <1>5, <2>1
  <2>3. txn # p => ~ Beside(txn, p) /\ ~ Beside(p, txn)
    BY <1>6, <2>1, <2>2 DEF Beside, Alone
  <2>4. QED BY <1>1, <2>1, <2>3 DEF DataInv, Data
<1>7. QED BY <1>1, <1>2, <1>3, <1>4, <1>5, <1>6 DEF DbiTypeOK

(* Where a session is stays true while nobody touches what it depends on.  *)
LEMMA PhaseStays ==
    ASSUME NEW q \in Process, Phase(q), UNCHANGED <<kind, db, undo, stored>>,
           pc'[q] = pc[q], err'[q] = err[q], book'[q] = book[q], todo'[q] = todo[q]
    PROVE  Phase(q)'
PROOF
<1>1. /\ Transactional' = Transactional
      /\ \A t \in Table : Ops(q, t)' = Ops(q, t)
  BY DEF Transactional, Ops
<1>2. \A n : InSave(n)' <=> InSave(n) BY <1>1 DEF InSave
<1>3. (Unsaved(q)' <=> Unsaved(q)) /\ Durable' = Durable BY DEF Unsaved, Durable
<1>4. QED BY <1>1, <1>2, <1>3 DEF Phase

(* A session that opens the database for reading depends only on what is   *)
(* durable.                                                                *)
LEMMA ReaderStays ==
    ASSUME NEW q \in Process, pc'[q] \in {"detect", "load"}, ~ err'[q],
           pc'[q] = "load" => Whole(Durable', stored')
    PROVE  Phase(q)'
BY DEF Phase

(* A step of a session that works on the database.                         *)
LEMMA WorkStep ==
    ASSUME DataInv, NEW p \in Process, Working(p), NEW x \in Label,
           pc' = [pc EXCEPT ![p] = x], x \notin {"lock", "insert"},
           \/ mode' = mode
           \/ x = "idle" /\ mode' = [mode EXCEPT ![p] = "none"],
           \A q \in Process \ {p} : err'[q] = err[q],
           AllKept', txn' \in {None, p, txn},
           x \in {"idle", "read"} => txn' # p,
           x \notin {"idle", "read"} => Phase(p)',
           \A q \in Process \ {p} : Working(q) =>
               /\ Phase(q)'
               /\ x \notin {"idle", "read"} => Beside(p, q)' \/ Beside(q, p)'
    PROVE  Data'
PROOF
<1>1. pc \in [Process -> Label] /\ mode \in [Process -> Mode \cup {"none"}]
  BY DEF DataInv, Transactions, DbiTypeOK
<1>2. ASSUME NEW q \in Process \ {p}
      PROVE  /\ pc'[q] = pc[q] /\ mode'[q] = mode[q]
             /\ Working(q)' <=> Working(q)
             /\ Asking(q)' <=> Asking(q)
  BY <1>1 DEF Working, Asking
<1>3. (Working(p)' <=> x \notin {"idle", "read"}) /\ ~ Asking(p)'
  BY <1>1 DEF Working, Asking
<1>4. txn' # None => Working(txn)'
  <2>1. CASE txn' = p BY <1>3, <2>1 DEF Working
  <2>2. CASE txn' = txn /\ txn # None /\ txn # p
    <3>1. txn \in Process \ {p} /\ Working(txn)
      BY <2>2 DEF DataInv, Data, Transactions, DbiTypeOK
    <3>2. pc'[txn] = pc[txn] BY <1>2, <3>1
    <3>3. QED BY <2>2, <3>1, <3>2 DEF Working
  <2>3. QED BY <2>1, <2>2
<1>5. ASSUME NEW q \in Process
      PROVE  (Asking(q)' => ~ err'[q]) /\ (Working(q)' => Phase(q)')
  BY <1>2, <1>3 DEF DataInv, Data
<1>6. ASSUME NEW q \in Process, NEW r \in Process, q # r, Working(q)', Working(r)'
      PROVE  Beside(q, r)' \/ Beside(r, q)'
  <2>1. CASE q = p BY <1>2, <1>3, <1>6, <2>1
  <2>2. CASE r = p BY <1>2, <1>3, <1>6, <2>2
  <2>3. CASE q # p /\ r # p
    <3>1. Working(q) /\ Working(r) BY <1>2, <1>6, <2>3
    <3>2. Beside(q, r) \/ Beside(r, q) BY <1>6, <3>1 DEF DataInv, Data
    <3>3. QED BY <1>2, <2>3, <3>2 DEF Beside
  <2>4. QED BY <2>1, <2>2, <2>3
<1>7. QED BY <1>4, <1>5, <1>6 DEF Data

(* One that works on it alone.                                             *)
LEMMA AloneStep ==
    ASSUME DataInv, NEW p \in Process, Working(p), Alone(p), NEW x \in Label,
           pc' = [pc EXCEPT ![p] = x],
           \/ mode' = mode
           \/ x = "idle" /\ mode' = [mode EXCEPT ![p] = "none"],
           \A q \in Process \ {p} : err'[q] = err[q],
           AllKept', txn' \in {None, p}, x \notin {"lock", "insert"},
           x \in {"idle", "read"} => txn' # p,
           x \notin {"idle", "read"} => Phase(p)'
    PROVE  Data'
PROOF
<1>1. \A q \in Process \ {p} : ~ Working(q) BY DEF Alone
<1>2. QED BY <1>1, WorkStep

(* One that edits it, beside others that open it for reading.              *)
LEMMA EditStep ==
    ASSUME DataInv, DbiTypeOK', NEW p \in Process, pc[p] \in Editing,
           NEW x \in Editing, pc' = [pc EXCEPT ![p] = x], UNCHANGED mode,
           \A q \in Process \ {p} : err'[q] = err[q],
           AllKept', txn' \in {None, p}, Phase(p)'
    PROVE  Data'
PROOF
<1>1. Working(p) /\ x \in Label /\ x \notin {"lock", "insert", "idle", "read"}
        /\ pc \in [Process -> Label]
  BY DEF Working, Editing, Label, DataInv, Transactions, DbiTypeOK
<1>2. pc'[p] = x BY <1>1
<1>3. Whole(Durable', stored')
  <2>1. CASE x = "open" BY <1>2, <2>1 DEF Phase, Durable, Whole
  <2>2. CASE x = "edit"
    <3>1. Len(undo') = 1 /\ Whole(undo'[1], stored') BY <1>2, <2>2 DEF Phase, Whole
    <3>2. undo' # <<>> /\ Last(undo') = undo'[1] BY <3>1 DEF Last
    <3>3. QED BY <3>1, <3>2 DEF Durable
  <2>3. QED BY <2>1, <2>2 DEF Editing
<1>4. ASSUME NEW q \in Process \ {p}, Working(q)
      PROVE  Phase(q)' /\ Beside(q, p)'
  <2>1. Beside(q, p) BY <1>1, <1>4 DEF DataInv, Data, Beside, Editing
  <2>2. pc'[q] = pc[q] /\ pc[q] \in {"detect", "load"} BY <1>1, <2>1 DEF Beside
  <2>3. ~ err[q] BY <1>4, <2>2 DEF DataInv, Data, Phase
  <2>4. Phase(q)' BY <1>3, <2>2, <2>3, ReaderStays
  <2>5. QED BY <1>2, <2>1, <2>2, <2>4 DEF Beside
<1>5. QED BY <1>1, <1>4, WorkStep

(* A step of another session, which leaves the database alone.             *)
LEMMA OtherStep ==
    ASSUME DataInv, NEW p \in Process, ~ Working(p), NEW x \in Label,
           pc' = [pc EXCEPT ![p] = x],
           mode' = mode \/ \E m : mode' = [mode EXCEPT ![p] = m],
           UNCHANGED <<kind, db, undo, txn, stored>>,
           \A q \in Process \ {p} :
               todo'[q] = todo[q] /\ err'[q] = err[q] /\ book'[q] = book[q],
           Asking(p)' => ~ err'[p],
           Working(p)' =>
               /\ Phase(p)'
               /\ \A q \in Process \ {p} : Working(q) => Beside(p, q)'
    PROVE  Data'
PROOF
<1>1. pc \in [Process -> Label] /\ mode \in [Process -> Mode \cup {"none"}]
  BY DEF DataInv, Transactions, DbiTypeOK
<1>2. ASSUME NEW q \in Process \ {p}
      PROVE  /\ pc'[q] = pc[q] /\ mode'[q] = mode[q]
             /\ Working(q)' <=> Working(q)
             /\ Asking(q)' <=> Asking(q)
  BY <1>1 DEF Working, Asking
<1>3. AllKept' BY DEF DataInv, Data, AllKept, Durable
<1>4. txn' # None => Working(txn)'
  <2>1. txn # None => txn \in Process /\ Working(txn)
    BY DEF DataInv, Data, Transactions, DbiTypeOK
  <2>2. txn # None => txn \in Process \ {p} BY <2>1
  <2>3. txn # None => pc'[txn] = pc[txn] BY <1>2, <2>2
  <2>4. QED BY <2>1, <2>3 DEF Working
<1>5. ASSUME NEW q \in Process, Working(q)' PROVE Phase(q)'
  <2>1. CASE q = p BY <1>5, <2>1
  <2>2. CASE q # p
    <3>1. pc'[q] = pc[q] /\ Working(q) BY <1>2, <1>5, <2>2
    <3>2. Phase(q) BY <3>1 DEF DataInv, Data
    <3>3. QED BY <2>2, <3>1, <3>2, PhaseStays
  <2>3. QED BY <2>1, <2>2
<1>6. ASSUME NEW q \in Process, Asking(q)' PROVE ~ err'[q]
  <2>1. CASE q = p BY <1>6, <2>1
  <2>2. CASE q # p BY <1>2, <1>6, <2>2 DEF DataInv, Data
  <2>3. QED BY <2>1, <2>2
<1>7. ASSUME NEW q \in Process, NEW r \in Process, q # r, Working(q)', Working(r)'
      PROVE  Beside(q, r)' \/ Beside(r, q)'
  <2>1. CASE q = p BY <1>2, <1>7, <2>1
  <2>2. CASE r = p BY <1>2, <1>7, <2>2
  <2>3. CASE q # p /\ r # p
    <3>1. Working(q) /\ Working(r) BY <1>2, <1>7, <2>3
    <3>2. Beside(q, r) \/ Beside(r, q) BY <1>7, <3>1 DEF DataInv, Data
    <3>3. QED BY <1>2, <2>3, <3>2 DEF Beside
  <2>4. QED BY <2>1, <2>2, <2>3
<1>8. QED BY <1>3, <1>4, <1>5, <1>6, <1>7 DEF Data

(* Who starts without overlapping finds only sessions that edit, and only  *)
(* if it is for reading.                                                   *)
LEMMA StartsBeside ==
    ASSUME DataInv, NEW p \in Process, NEW m, Starts(p, m), harm' = {},
           pc'[p] = "detect", mode'[p] = m,
           NEW q \in Process \ {p}, Working(q), pc'[q] = pc[q]
    PROVE  Beside(p, q)'
PROOF
<1>1. ~ Overlapping(p, m)
  <2>1. harm \cup {"overlap"} # {} OBVIOUS
  <2>2. QED BY <2>1 DEF Starts
<1>2. pc[q] \in Label BY DEF DataInv, Transactions, DbiTypeOK
<1>3. pc[q] \in Editing /\ m = "readonly"
  BY <1>1, <1>2 DEF Overlapping, Working, Opening, Editing, Label
<1>4. QED BY <1>3 DEF Beside

(* The sessions that ask for the lock, and that find it.                   *)
LEMMA DataBegins ==
    ASSUME DbiStoreAssumption, DataInv, harm' = {}, NEW p \in Process,
           (\E m \in Mode : Begin(p, m)) \/ LookAtLock(p) \/ InsertLock(p)
    PROVE  Data'
PROOF
<1>t. /\ pc \in [Process -> Label] /\ mode \in [Process -> Mode \cup {"none"}]
      /\ todo \in [Process -> Pending] /\ err \in [Process -> BOOLEAN]
  BY DEF DataInv, Transactions, DbiTypeOK
<1>1. ASSUME NEW m \in Mode, Begin(p, m) PROVE Data'
  <2>1. PICK x \in {"lock", "detect"} :
           /\ pc' = [pc EXCEPT ![p] = x]
           /\ x = "detect" => m = "readonly"
    BY <1>1 DEF Begin, Does, Goes
  <2>2. /\ pc[p] = "idle" /\ mode' = [mode EXCEPT ![p] = m]
        /\ UNCHANGED <<kind, db, undo, txn, stored, book>>
    BY <1>1 DEF Begin, At
  <2>3. \A q \in Process \ {p} : todo'[q] = todo[q] /\ err'[q] = err[q] /\ book'[q] = book[q]
    BY <1>1, <1>t, <2>2 DEF Begin, Does
  <2>4. ~ Working(p) BY <2>2 DEF Working
  <2>5. ~ err'[p] BY <1>1, <1>t DEF Begin
  <2>6. ASSUME Working(p)'
        PROVE  /\ Phase(p)'
               /\ \A q \in Process \ {p} : Working(q) => Beside(p, q)'
    <3>1. x = "detect" /\ m = "readonly" /\ pc'[p] = "detect" /\ mode'[p] = m
      BY <1>t, <2>1, <2>2, <2>6 DEF Working
    <3>2. Starts(p, m) BY <1>1, <3>1 DEF Begin
    <3>3. \A q \in Process \ {p} : pc'[q] = pc[q] BY <1>t, <2>1
    <3>4. Phase(p)' BY <2>5, <3>1, ReaderStays
    <3>5. QED BY <3>1, <3>2, <3>3, <3>4, StartsBeside
  <2>7. x \in Label BY DEF Label
  <2>8. QED BY <2>1, <2>2, <2>3, <2>4, <2>5, <2>6, <2>7, OtherStep
<1>2. CASE LookAtLock(p)
  <2>1. PICK x \in {"idle", "insert"} : pc' = [pc EXCEPT ![p] = x]
    BY <1>2 DEF LookAtLock, Goes
  <2>2. pc[p] = "lock" /\ UNCHANGED <<kind, db, undo, txn, stored, book, mode, todo>>
    BY <1>2 DEF LookAtLock, At
  <2>3. \A q \in Process \ {p} : err'[q] = err[q]
    BY <1>2, <1>t DEF LookAtLock, Reports
  <2>4. ~ Working(p) /\ ~ Working(p)' BY <1>t, <2>1, <2>2 DEF Working
  <2>5. Asking(p)' => ~ err'[p]
    <3>1. ~ err[p] BY <2>2 DEF DataInv, Data, Asking
    <3>2. x = "insert" => UNCHANGED err BY <1>2, <1>t, <2>1 DEF LookAtLock, Goes
    <3>3. QED BY <1>t, <2>1, <3>1, <3>2 DEF Asking
  <2>6. QED BY <2>1, <2>2, <2>3, <2>4, <2>5, OtherStep DEF Label
<1>3. CASE InsertLock(p)
  <2>1. PICK x \in {"idle", "detect"} : pc' = [pc EXCEPT ![p] = x]
    BY <1>3 DEF InsertLock, Goes
  <2>2. pc[p] = "insert" /\ UNCHANGED <<kind, db, undo, txn, stored, book, mode, todo>>
    BY <1>3 DEF InsertLock, At
  <2>3. /\ \A q \in Process \ {p} : err'[q] = err[q]
        /\ x = "detect" => UNCHANGED err /\ Starts(p, mode[p])
    BY <1>3, <1>t, <2>1 DEF InsertLock, Reports, Goes
  <2>4. ~ Working(p) BY <2>2 DEF Working
  <2>5. ASSUME Working(p)'
        PROVE  /\ Phase(p)'
               /\ \A q \in Process \ {p} : Working(q) => Beside(p, q)'
    <3>1. x = "detect" /\ pc'[p] = "detect" /\ mode'[p] = mode[p]
      BY <1>t, <2>1, <2>2, <2>5 DEF Working
    <3>2. ~ err'[p]
      <4>1. ~ err[p] BY <2>2 DEF DataInv, Data, Asking
      <4>2. QED BY <2>3, <3>1, <4>1
    <3>3. \A q \in Process \ {p} : pc'[q] = pc[q] BY <1>t, <2>1
    <3>4. Phase(p)' BY <3>1, <3>2, ReaderStays
    <3>5. QED BY <2>3, <3>1, <3>3, <3>4, StartsBeside
  <2>6. ~ Asking(p)' BY <1>t, <2>1 DEF Asking
  <2>7. QED BY <2>1, <2>2, <2>3, <2>4, <2>5, <2>6, OtherStep DEF Label
<1>4. QED BY <1>1, <1>2, <1>3

\* The tables as the database shows them while no transaction is open.
LEMMA DurableNow ==
    ASSUME undo = <<>>
    PROVE  Durable = db
BY DEF Durable

(* The statement of the table whose turn it is; the others stay.           *)
LEMMA TurnEffect ==
    ASSUME DbiTypeOK, NEW p \in Process, NEW t \in Table, Turn(p, t), GoesOn(p, t)
    PROVE  /\ Current(p, t) \in Statement /\ Current(p, t) = Head(Ops(p, t))
           /\ Ops(p, t) # <<>> /\ Ops(p, t)' = Tail(Ops(p, t))
           /\ \A u \in Table \ {t} : Ops(p, u)' = Ops(p, u)
           /\ Succeeds(p, t) =>
                /\ CanExecute(Current(p, t), t)
                /\ db' = Executed(Current(p, t), t, Row(p))
                /\ \A u \in Table \ {t} :
                     /\ db'.data[u] = db.data[u] /\ db'.back[u] = db.back[u]
                     /\ db'.merge[u] = db.merge[u]
PROOF
<1>1. Current(p, t) \in Statement BY GoesOnEffect
<1>2. /\ Current(p, t) = Head(Ops(p, t)) /\ Ops(p, t) # <<>>
      /\ Ops(p, t)' = Tail(Ops(p, t))
      /\ \A u \in Table \ {t} : Ops(p, u)' = Ops(p, u)
  BY GoesOnEffect DEF Ops, Turn, Current
<1>3. ASSUME Succeeds(p, t), NEW u \in Table \ {t}
      PROVE  /\ db'.data[u] = db.data[u] /\ db'.back[u] = db.back[u]
             /\ db'.merge[u] = db.merge[u]
  <2>1. db' = Executed(Current(p, t), t, Row(p)) BY <1>3 DEF Succeeds
  <2>2. QED BY <1>1, <2>1, ExecutedEffect
<1>4. QED BY <1>1, <1>2, <1>3 DEF Succeeds

LEMMA TwoVersions == Cardinality({1, 2}) = 2
PROOF
<1>1. Cardinality({1}) = 1 /\ IsFiniteSet({1}) BY FS_Singleton
<1>2. {1, 2} = {1} \cup {2} /\ 2 \notin {1} OBVIOUS
<1>3. Cardinality({1} \cup {2}) = Cardinality({1}) + 1 BY <1>1, <1>2, FS_AddElement
<1>4. QED BY <1>1, <1>2, <1>3

LEMMA DataDetects ==
    ASSUME DbiStoreAssumption, DataInv, NEW p \in Process, Detect(p)
    PROVE  Data'
PROOF
<1>1. pc[p] = "detect" /\ txn = None
        /\ UNCHANGED <<kind, db, undo, txn, locks, mode, seen, err, book, stored>>
  BY DEF Detect, At
<1>h. /\ Working(p) /\ Phase(p) /\ AllKept /\ undo = <<>> /\ ~ err[p]
      /\ pc \in [Process -> Label] /\ todo \in [Process -> Pending] /\ txn # p
  BY <1>1, AtWork DEF Phase
<1>2. AllKept' BY <1>1, <1>h DEF AllKept, Durable
<1>3. \A t \in Table : Kept(stored, db.data[t], db.back[t], db.merge[t])
  BY <1>h, DurableNow DEF AllKept
<1>b. ASSUME NEW q \in Process \ {p}, Working(q)
      PROVE  Beside(p, q) /\ pc[q] = "open" /\ Whole(db, stored)
  <2>1. Beside(p, q)
    BY <1>1, <1>h, <1>b DEF DataInv, Data, Beside, Editing
  <2>2. Phase(q) BY <1>b DEF DataInv, Data
  <2>3. pc[q] # "edit"
    <3>1. Len(<<>>) # 1 OBVIOUS
    <3>2. QED BY <1>h, <2>2, <3>1 DEF Phase
  <2>4. QED BY <2>1, <2>2, <2>3 DEF Beside, Editing, Phase
<1>a. BackupTables # {} => Alone(p)
  <2>1. ASSUME NEW q \in Process \ {p}, Working(q) PROVE BackupTables = {}
    <3>1. \A t \in Table : db.back[t] = None BY <1>b, <2>1 DEF Whole, Settled
    <3>2. QED BY <3>1 DEF BackupTables, Exists
  <2>2. QED BY <2>1 DEF Alone
<1>4. CASE BackupTables = {} /\ Does(p, "load", Nothing)
  <2>1. pc' = [pc EXCEPT ![p] = "load"] /\ todo' = [todo EXCEPT ![p] = Nothing]
    BY <1>4 DEF Does, Goes
  <2>2. \A t \in Table : db.back[t] = None BY <1>4 DEF BackupTables, Exists
  <2>3. Whole(db, stored)
    BY <1>3, <2>2, NoneIsNoSet DEF Whole, Kept, Unsettled, DbiStoreAssumption, Version
  <2>4. Phase(p)'
    <3>1. Whole(Durable', stored') BY <1>1, <1>h, <2>3 DEF Durable, Whole
    <3>2. pc'[p] = "load" BY <1>h, <2>1
    <3>3. QED BY <1>1, <1>h, <3>1, <3>2, ReaderStays
  <2>5. ASSUME NEW q \in Process \ {p}, Working(q)
        PROVE  Phase(q)' /\ Beside(p, q)'
    <3>1. Beside(p, q) /\ Phase(q) BY <1>b, <2>5 DEF DataInv, Data
    <3>2. pc'[q] = pc[q] /\ todo'[q] = todo[q] /\ pc'[p] = "load" BY <1>h, <2>1
    <3>3. Phase(q)' BY <1>1, <3>1, <3>2, PhaseStays
    <3>4. QED BY <1>1, <3>1, <3>2, <3>3 DEF Beside
  <2>6. "load" \in Label BY DEF Label
  <2>7. QED BY <1>1, <1>h, <1>2, <2>1, <2>4, <2>5, <2>6, WorkStep
<1>5. CASE BackupTables # {} /\ Does(p, "unlock", Nothing)
  <2>1. pc' = [pc EXCEPT ![p] = "unlock"] BY <1>5 DEF Does, Goes
  <2>2. Phase(p)' BY <1>1, <1>h, <2>1 DEF Phase
  <2>3. QED BY <1>1, <1>h, <1>a, <1>5, <1>2, <2>1, <2>2, AloneStep DEF Label
<1>6. CASE /\ BackupTables # {} /\ \A t \in Table : ~ Exists("merge", t)
           /\ Does(p, "recover", RecoverScript)
  <2>1. pc' = [pc EXCEPT ![p] = "recover"] BY <1>6 DEF Does, Goes
  <2>2. todo' = [todo EXCEPT ![p] = RecoverScript] BY <1>6 DEF Does
  <2>3. ASSUME NEW t \in Table
        PROVE  Recovers(stored, db.data[t], db.back[t], db.merge[t], Ops(p, t)')
    <3>1. Kept(stored, db.data[t], db.back[t], db.merge[t]) /\ db.merge[t] = None
      BY <1>3, <1>6 DEF Exists
    <3>2. Ops(p, t)' = IF db.back[t] # None
                       THEN IF db.data[t] # None
                            THEN <<"merge", "empty", "copy", "drop_merge", "drop_back">>
                            ELSE <<"restore">>
                       ELSE <<>>
      BY <1>h, <2>2 DEF Ops, RecoverScript, Script, BackupTables, Exists
    <3>3. None # {1} /\ None # {2} /\ None # {} /\ None # {1, 2} /\ None # {stored}
      BY <1>1, AtWork, NoneIsNoSet
    <3>4. QED
      BY <3>1, <3>2, <3>3 DEF Kept, Settled, Unsettled, Recovers
  <2>4. Phase(p)' BY <1>1, <1>h, <2>1, <2>3 DEF Phase
  <2>5. QED BY <1>1, <1>h, <1>a, <1>6, <1>2, <2>1, <2>4, AloneStep DEF Label
<1>7. QED BY <1>4, <1>5, <1>6 DEF Detect

(* One statement of a recovery leaves the table where the next one expects *)
(* it; a row of each version is a copy that the primary key refuses.       *)
LEMMA RecoversOn ==
    ASSUME DbiStoreAssumption, DbiTypeOK, NEW p \in Process, NEW t \in Table,
           Turn(p, t), Succeeds(p, t), GoesOn(p, t), stored' = stored,
           Recovers(stored, db.data[t], db.back[t], db.merge[t], Ops(p, t))
    PROVE  Recovers(stored, db'.data[t], db'.back[t], db'.merge[t], Ops(p, t)')
PROOF
<1> DEFINE op == Current(p, t)
<1>1. op \in Statement /\ db' = Executed(op, t, Row(p)) /\ CanExecute(op, t)
        /\ Ops(p, t)' = Tail(Ops(p, t)) /\ op = Head(Ops(p, t)) /\ Ops(p, t) # <<>>
  BY TurnEffect
<1>n. None # {1} /\ None # {2} /\ None # {} /\ None # {1, 2}
  BY NoneIsNoSet DEF DbiStoreAssumption, Version
<1> HIDE DEF op
<1>2. CASE Ops(p, t) = <<"merge", "empty", "copy", "drop_merge", "drop_back">>
  <2>1. op = "merge" /\ Ops(p, t)' = <<"empty", "copy", "drop_merge", "drop_back">>
    BY <1>1, <1>2
  <2>2. /\ db'.data[t] = db.data[t] /\ db'.back[t] = db.back[t]
        /\ db'.merge[t] = db.data[t] \cup db.back[t]
    BY <1>1, <2>1, ExecutedEffect
  <2>3. QED BY <1>2, <2>1, <2>2 DEF Recovers
<1>3. CASE Ops(p, t) = <<"empty", "copy", "drop_merge", "drop_back">>
  <2>1. op = "empty" /\ Ops(p, t)' = <<"copy", "drop_merge", "drop_back">>
    BY <1>1, <1>3
  <2>2. db'.data[t] = {} /\ db'.back[t] = db.back[t] /\ db'.merge[t] = db.merge[t]
    BY <1>1, <2>1, ExecutedEffect
  <2>3. QED BY <1>3, <2>1, <2>2 DEF Recovers
<1>4. CASE Ops(p, t) = <<"copy", "drop_merge", "drop_back">>
  <2>1. op = "copy" /\ Ops(p, t)' = <<"drop_merge", "drop_back">>
    BY <1>1, <1>4
  <2>2. /\ db'.data[t] = db.data[t] \cup db.merge[t] /\ db'.back[t] = db.back[t]
        /\ db'.merge[t] = db.merge[t]
    BY <1>1, <2>1, ExecutedEffect
  <2>3. Cardinality(db.data[t] \cup db.merge[t]) <= 1
    BY <1>1, <2>1 DEF CanExecute
  <2>4. db.data[t] = {} /\ db.back[t] = {1}
          /\ ((stored = 1 /\ db.merge[t] = {1}) \/ db.merge[t] = {1, 2})
    BY <1>4 DEF Recovers
  <2>5. db.merge[t] # {1, 2}
    <3>1. {} \cup {1, 2} = {1, 2} OBVIOUS
    <3>2. QED BY <2>3, <2>4, <3>1, TwoVersions
  <2>6. QED BY <2>1, <2>2, <2>4, <2>5 DEF Recovers
<1>5. CASE Ops(p, t) = <<"drop_merge", "drop_back">>
  <2>1. op = "drop_merge" /\ Ops(p, t)' = <<"drop_back">> BY <1>1, <1>5
  <2>2. db'.data[t] = db.data[t] /\ db'.back[t] = db.back[t] /\ db'.merge[t] = None
    BY <1>1, <2>1, ExecutedEffect
  <2>3. QED BY <1>5, <2>1, <2>2 DEF Recovers
<1>6. CASE Ops(p, t) = <<"drop_back">>
  <2>1. op = "drop_back" /\ Ops(p, t)' = <<>> BY <1>1, <1>6
  <2>2. db'.data[t] = db.data[t] /\ db'.back[t] = None /\ db'.merge[t] = db.merge[t]
    BY <1>1, <2>1, ExecutedEffect
  <2>3. QED BY <1>6, <2>1, <2>2 DEF Recovers, Settled
<1>7. CASE Ops(p, t) = <<"restore">>
  <2>1. op = "restore" /\ Ops(p, t)' = <<>> BY <1>1, <1>7
  <2>2. /\ db'.data[t] = db.back[t] /\ db'.back[t] = None
        /\ db'.merge[t] = db.merge[t]
    BY <1>1, <2>1, ExecutedEffect
  <2>3. QED BY <1>7, <2>1, <2>2 DEF Recovers, Settled
<1>8. QED BY <1>1, <1>2, <1>3, <1>4, <1>5, <1>6, <1>7 DEF Recovers

LEMMA DataRecovers ==
    ASSUME DbiStoreAssumption, DataInv, NEW p \in Process, Recover(p)
    PROVE  Data'
PROOF
<1>1. /\ pc[p] = "recover" /\ txn = None
      /\ UNCHANGED <<kind, undo, txn, locks, mode, seen, book, stored>>
  BY DEF Recover, At
<1>h. /\ Working(p) /\ Alone(p) /\ Phase(p) /\ AllKept /\ undo = <<>> /\ ~ err[p] /\ DbiTypeOK
      /\ pc \in [Process -> Label] /\ todo \in [Process -> Pending]
      /\ err \in [Process -> BOOLEAN]
  BY <1>1, AtWork DEF Phase
<1>2. \A t \in Table : Recovers(stored, db.data[t], db.back[t], db.merge[t], Ops(p, t))
  BY <1>1, <1>h DEF Phase
<1>3. CASE Finished(p) /\ Does(p, "load", Nothing) /\ NoFault /\ UNCHANGED <<db, err>>
  <2>1. pc' = [pc EXCEPT ![p] = "load"] BY <1>3 DEF Does, Goes
  <2>2. AllKept' BY <1>1, <1>h, <1>3 DEF AllKept, Durable
  <2>3. Whole(db, stored)
    <3>1. ASSUME NEW t \in Table
          PROVE  Settled(stored, db.data[t], db.back[t], db.merge[t])
      <4>1. Ops(p, t) = <<>> BY <1>3 DEF Finished, Ops
      <4>2. Recovers(stored, db.data[t], db.back[t], db.merge[t], <<>>) BY <1>2, <4>1
      <4>3. QED BY <4>2 DEF Recovers
    <3>2. QED BY <3>1 DEF Whole
  <2>4. Phase(p)'
    <3>1. Whole(Durable', stored') BY <1>1, <1>3, <1>h, <2>3 DEF Durable, Whole
    <3>2. pc'[p] = "load" /\ ~ err'[p] BY <1>3, <1>h, <2>1
    <3>3. QED BY <3>1, <3>2, ReaderStays
  <2>5. QED BY <1>1, <1>3, <1>h, <2>1, <2>2, <2>4, AloneStep DEF Label
<1>4. ASSUME NEW t \in Table, Turn(p, t), Succeeds(p, t), GoesOn(p, t),
             UNCHANGED <<pc, err>>
      PROVE  Data'
  <2>1. ASSUME NEW u \in Table
        PROVE  Recovers(stored, db'.data[u], db'.back[u], db'.merge[u], Ops(p, u)')
    <3>1. CASE u = t BY <1>1, <1>2, <1>4, <1>h, <3>1, RecoversOn
    <3>2. CASE u # t
      BY <1>2, <1>4, <1>h, <3>2, TurnEffect
    <3>3. QED BY <3>1, <3>2
  <2>2. pc' = [pc EXCEPT ![p] = "recover"] BY <1>1, <1>4, <1>h
  <2>3. AllKept'
    BY <1>1, <1>h, <2>1, KeptAlways DEF AllKept, Durable
  <2>4. Phase(p)' BY <1>1, <1>4, <1>h, <2>1, <2>2 DEF Phase
  <2>5. QED BY <1>1, <1>4, <1>h, <2>2, <2>3, <2>4, AloneStep DEF Label
<1>5. ASSUME NEW t \in Table, Failing(p, t), Does(p, "unlock", Nothing), Reports(p)
      PROVE  Data'
  <2>1. pc' = [pc EXCEPT ![p] = "unlock"] /\ UNCHANGED db
          /\ \A q \in Process \ {p} : err'[q] = err[q]
    BY <1>5, <1>h DEF Does, Goes, Failing, Reports
  <2>2. AllKept' BY <1>1, <1>h, <2>1 DEF AllKept, Durable
  <2>3. Phase(p)' BY <1>1, <1>h, <2>1 DEF Phase
  <2>4. QED BY <1>1, <1>h, <2>1, <2>2, <2>3, AloneStep DEF Label
<1>6. QED BY <1>3, <1>4, <1>5 DEF Recover

(* A session that ends loses what it has not committed, and only that.     *)
LEMMA DataEnds ==
    ASSUME DbiStoreAssumption, DataInv, NEW p \in Process, Unlock(p) \/ End(p) \/ Crash(p)
    PROVE  Data'
PROOF
<1>1. /\ pc[p] # "idle" /\ pc' = [pc EXCEPT ![p] = "idle"]
      /\ UNCHANGED <<kind, seen, err, stored>>
      /\ mode' = mode \/ mode' = [mode EXCEPT ![p] = "none"]
      /\ UNCHANGED <<db, undo, txn>> \/ Disconnected(p)
      /\ pc[p] = "unlock" \/ Disconnected(p)
  BY DEF Unlock, End, Crash, At, Does, Goes
<1>t. /\ pc \in [Process -> Label] /\ todo \in [Process -> Pending]
      /\ book \in [Process -> Version \cup {0}] /\ p # None
      /\ (txn = None <=> undo = <<>>)
  BY DEF DataInv, Transactions, DbiTypeOK, DbiStoreAssumption
<1>o. /\ \A q \in Process \ {p} :
            /\ pc'[q] = pc[q] /\ todo'[q] = todo[q] /\ err'[q] = err[q]
            /\ book'[q] = book[q]
      /\ "idle" \in Label
  BY <1>1, <1>t DEF Unlock, End, Crash, Does, Label
<1>2. CASE pc[p] \in {"lock", "insert", "read"}
  <2>1. ~ Working(p) /\ (End(p) \/ Crash(p)) BY <1>2 DEF Unlock, At, Working
  <2>2. txn # p BY <1>t, <2>1 DEF DataInv, Data
  <2>3. UNCHANGED <<db, undo, txn>> BY <1>1, <2>2 DEF Disconnected
  <2>4. ~ Working(p)' /\ ~ Asking(p)' BY <1>1, <1>t DEF Working, Asking
  <2>5. QED BY <1>1, <1>o, <2>1, <2>3, <2>4, OtherStep
<1>3. CASE pc[p] \notin {"lock", "insert", "read"}
  <2>h. /\ Working(p) /\ Phase(p) /\ AllKept
        /\ pc[p] \notin {"detect", "load", "open", "edit"} => Alone(p)
        /\ pc[p] \in {"detect", "load"} => txn # p
    BY <1>1, <1>3, AtWork
  <2>1. /\ txn' \in {None, txn} /\ txn' # p
        /\ Durable' = Durable
    <3>1. CASE txn = p
      <4>1. Disconnected(p)
        <5>1. pc[p] # "unlock" BY <1>t, <2>h, <3>1 DEF Phase
        <5>2. QED BY <1>1, <5>1
      <4>2. db' = Last(undo) /\ undo' = <<>> /\ txn' = None /\ undo # <<>>
        BY <1>t, <3>1, <4>1 DEF Disconnected
      <4>3. QED BY <1>t, <4>2 DEF Durable
    <3>2. CASE txn # p
      <4>1. UNCHANGED <<db, undo, txn>> BY <1>1, <3>2 DEF Disconnected
      <4>2. QED BY <3>2, <4>1 DEF Durable
    <3>3. QED BY <3>1, <3>2
  <2>2. AllKept' BY <1>1, <2>h, <2>1 DEF AllKept
  <2>3. ASSUME NEW q \in Process \ {p}, Working(q) PROVE Phase(q)'
    <3>0. Phase(q) BY <2>3 DEF DataInv, Data
    <3>1. CASE pc[p] \in {"detect", "load"}
      <4>1. UNCHANGED <<db, undo, txn>> BY <1>1, <2>h, <3>1 DEF Disconnected
      <4>2. QED BY <1>1, <1>o, <2>3, <3>0, <4>1, PhaseStays
    <3>2. CASE pc[p] \in {"open", "edit"}
      <4>1. Beside(q, p) BY <2>h, <2>3, <3>2 DEF DataInv, Data, Beside
      <4>2. ~ err'[q] /\ pc'[q] \in {"detect", "load"}
        BY <1>o, <2>3, <3>0, <4>1 DEF Beside, Phase
      <4>3. pc'[q] = "load" => Whole(Durable', stored')
        BY <1>1, <1>o, <2>1, <3>0 DEF Phase
      <4>4. QED BY <4>2, <4>3, ReaderStays
    <3>3. QED BY <2>h, <2>3, <3>1, <3>2 DEF Alone
  <2>4. QED BY <1>1, <1>o, <2>h, <2>1, <2>2, <2>3, WorkStep
<1>4. QED BY <1>2, <1>3
LEMMA DataLoads ==
    ASSUME DbiStoreAssumption, DataInv, NEW p \in Process, Load(p)
    PROVE  Data'
PROOF
<1>1. /\ pc[p] = "load"
      /\ UNCHANGED <<kind, db, undo, txn, locks, mode, seen, todo, err, stored>>
  BY DEF Load, At
<1>h. /\ Working(p) /\ Phase(p) /\ AllKept /\ ~ err[p] /\ txn # p
      /\ Whole(Durable, stored) /\ stored \in Version
      /\ pc \in [Process -> Label] /\ book \in [Process -> Version \cup {0}]
  BY <1>1, AtWork DEF Phase
<1>2. AllKept' BY <1>1, <1>h DEF AllKept, Durable
<1>3. \A t \in Table : Durable.data[t] = {stored} /\ Durable.data[t] # None
  BY <1>h, NoneIsNoSet DEF Whole, Settled
<1>4. UNION {Durable.data[t] : t \in {u \in Table : Durable.data[u] # None}} = {stored}
  BY <1>3 DEF DbiStoreAssumption
<1>5. Max({stored} \cup {0}) = stored
  <2>1. {stored} \cup {0} \in SUBSET (0 .. MaxVersion) /\ MaxVersion \in Nat
          /\ stored \in Nat
    BY <1>h DEF Version, DbiStoreAssumption
  <2>2. /\ Max({stored} \cup {0}) \in {stored} \cup {0}
        /\ \A x \in {stored} \cup {0} : Max({stored} \cup {0}) >= x
    BY <2>1, MaxOfBounded
  <2>3. QED BY <2>1, <2>2
<1>6. book'[p] = stored BY <1>4, <1>5, <1>h DEF Load
<1>o. \A q \in Process \ {p} : book'[q] = book[q] BY <1>h DEF Load
<1>7. PICK x \in {"safe_sync", "open", "read"} :
           /\ pc' = [pc EXCEPT ![p] = x]
           /\ x = "safe_sync" => stored = 1
           /\ x = "open" => stored >= 2
           /\ x # "read" => mode[p] # "readonly"
  <2>1. stored < Format => stored = 1 BY <1>h DEF Format, Version
  <2>2. QED BY <1>6, <2>1 DEF Load, Goes, Format
<1>8. CASE x = "read"
  <2>1. ASSUME NEW q \in Process \ {p}, Working(q) PROVE Phase(q)'
    BY <1>1, <1>h, <1>7, <1>o, <2>1, PhaseStays DEF DataInv, Data
  <2>2. "read" \in Label BY DEF Label
  <2>3. QED BY <1>1, <1>2, <1>7, <1>8, <1>h, <2>1, <2>2, WorkStep
<1>9. CASE x # "read"
  <2>1. Alone(p) BY <1>1, <1>7, <1>9, <1>h DEF DataInv, Data, Alone, Beside, Editing
  <2>2. txn = None /\ undo = <<>> BY <1>1, <1>h, <2>1, AtWork
  <2>3. Whole(db, stored) BY <1>h, <2>2, DurableNow
  <2>4. Phase(p)' BY <1>1, <1>h, <1>6, <1>7, <1>9, <2>2, <2>3 DEF Phase, Whole
  <2>5. QED BY <1>1, <1>2, <1>7, <1>9, <1>h, <2>1, <2>2, <2>4, AloneStep DEF Label
<1>10. QED BY <1>8, <1>9

(* safe_sync begins with every table as it is stored.                      *)
LEMMA DataSaves ==
    ASSUME DbiStoreAssumption, DataInv, NEW p \in Process, SafeSync(p)
    PROVE  Data'
PROOF
<1>1. /\ pc[p] = "safe_sync" /\ pc' = [pc EXCEPT ![p] = "backup"]
      /\ todo' = [todo EXCEPT ![p] = BackupScript]
      /\ UNCHANGED <<kind, db, locks, mode, seen, err, book, stored>>
  BY DEF SafeSync, At, Does, Goes
<1>h. /\ Working(p) /\ Alone(p) /\ Phase(p) /\ AllKept /\ undo = <<>> /\ ~ err[p]
      /\ txn \in {None, p} /\ Whole(db, 1) /\ stored = 1 /\ db \in Image
      /\ pc \in [Process -> Label] /\ todo \in [Process -> Pending]
      /\ undo \in Seq(Image)
  BY <1>1, AtWork DEF Phase
<1>2. /\ AllKept' /\ txn' \in {None, p}
      /\ IF Transactional THEN Len(undo') = 1 /\ undo'[1] = db ELSE Len(undo') = 0
  <2>1. CASE Transactional
    <3>1. undo' = <<db>> \o undo /\ txn' = p BY <2>1 DEF SafeSync, Begun
    <3>2. Len(undo') = 1 /\ undo'[1] = db /\ Last(undo') = db /\ undo' # <<>>
      <4>1. undo' = <<db>> BY <1>h, <3>1
      <4>2. QED BY <4>1 DEF Last
    <3>3. QED BY <1>1, <1>h, <2>1, <3>1, <3>2 DEF AllKept, Durable
  <2>2. CASE ~ Transactional
    <3>1. UNCHANGED <<undo, txn>> BY <2>2 DEF SafeSync
    <3>2. QED BY <1>1, <1>h, <2>2, <3>1 DEF AllKept, Durable
  <2>3. QED BY <2>1, <2>2
<1>3. ASSUME NEW t \in Table
      PROVE  BacksUp(db.data[t], db.back[t], db.merge[t], Ops(p, t)')
  <2>1. Settled(1, db.data[t], db.back[t], db.merge[t]) BY <1>h DEF Whole
  <2>2. db.data[t] # None
    BY <2>1, NoneIsNoSet DEF Settled, DbiStoreAssumption, Version
  <2>3. Ops(p, t)' = <<"move">>
    BY <1>1, <1>h, <2>2 DEF Ops, BackupScript, Script, Exists
  <2>4. QED BY <2>1, <2>3 DEF BacksUp
<1>4. InSave(0)' BY <1>1, <1>2, <1>h DEF InSave, Transactional, Whole
<1>5. Phase(p)' BY <1>1, <1>3, <1>4, <1>h DEF Phase
<1>6. QED BY <1>1, <1>2, <1>5, <1>h, AloneStep DEF Label

(* What is durable while safe_sync is under way.                           *)
LEMMA SaveKept ==
    ASSUME DbiStoreAssumption, DbiTypeOK', NEW n \in Nat, InSave(n)', stored' = 1,
           ~ Transactional' =>
              \A t \in Table :
                 LET image == IF n = 0 THEN db' ELSE Last(undo')
                 IN  Kept(1, image.data[t], image.back[t], image.merge[t])
    PROVE  AllKept'
PROOF
<1>1. undo' \in Seq(Image) BY DEF DbiTypeOK
<1>2. CASE Transactional'
  <2>1. Len(undo') = n + 1 /\ Whole(undo'[n + 1], 1) BY <1>2 DEF InSave, Whole
  <2>2. undo' # <<>> /\ Last(undo') = undo'[n + 1] BY <1>1, <2>1 DEF Last
  <2>3. QED BY <2>1, <2>2, KeptAlways DEF AllKept, Durable, Whole
<1>3. CASE ~ Transactional'
  <2>1. Len(undo') = n BY <1>3 DEF InSave
  <2>2. undo' = <<>> <=> n = 0 BY <1>1, <2>1
  <2>3. QED BY <1>3, <2>2 DEF AllKept, Durable
<1>4. QED BY <1>2, <1>3

(* A save that is given up: the transaction is rolled back, or the tables  *)
(* are with statements.                                                    *)
LEMMA DataGivesUp ==
    ASSUME DbiStoreAssumption, DataInv, DbiTypeOK', NEW p \in Process, GivesUp(p),
           pc[p] \in {"backup", "synced"}, stored = 1, InSave(0),
           UNCHANGED <<kind, locks, mode, seen, book, stored>>,
           \A t \in Table :
              \/ Settled(1, db.data[t], db.back[t], db.merge[t])
              \/ Renamed(db.data[t], db.back[t], db.merge[t], {None, {}, {2}})
    PROVE  Data'
PROOF
<1>h. /\ Working(p) /\ Alone(p) /\ Phase(p) /\ AllKept /\ txn \in {None, p}
      /\ (txn = None <=> undo = <<>>) /\ undo \in Seq(Image)
      /\ pc \in [Process -> Label] /\ todo \in [Process -> Pending]
      /\ err \in [Process -> BOOLEAN]
  BY AtWork
<1>1. /\ \A q \in Process \ {p} : err'[q] = err[q]
      /\ err'[p] /\ Transactional' = Transactional
  BY <1>h DEF GivesUp, Reports, Transactional
<1>2. CASE Transactional
  <2>1. /\ db' = Last(undo) /\ undo' = <<>> /\ txn' = None
        /\ pc' = [pc EXCEPT ![p] = "close"]
    BY <1>2 DEF GivesUp, Does, Goes
  <2>2. Len(undo) = 1 BY <1>2 DEF InSave
  <2>3. undo # <<>> BY <2>2
  <2>4. AllKept' BY <1>h, <2>1, <2>3 DEF AllKept, Durable
  <2>5. Phase(p)' BY <1>h, <2>1 DEF Phase
  <2>6. QED BY <1>1, <1>h, <2>1, <2>4, <2>5, AloneStep DEF Label
<1>3. CASE ~ Transactional
  <2>1. /\ UNCHANGED <<db, undo, txn>> /\ pc' = [pc EXCEPT ![p] = "rollback"]
        /\ todo' = [todo EXCEPT ![p] = RollbackScript]
    BY <1>3 DEF GivesUp, Does, Goes
  <2>2. undo = <<>> BY <1>3, <1>h DEF InSave
  <2>3. ASSUME NEW t \in Table
        PROVE  RollsBack(db.data[t], db.back[t], db.merge[t], Ops(p, t)')
    <3>1. None # {1} BY NoneIsNoSet DEF DbiStoreAssumption, Version
    <3>2. Ops(p, t)' = IF db.back[t] # None
                       THEN IF db.data[t] # None THEN <<"drop_data", "restore">>
                            ELSE <<"restore">>
                       ELSE <<>>
      BY <1>h, <2>1 DEF Ops, RollbackScript, Script, BackupTables, Exists
    <3>3. QED BY <3>1, <3>2 DEF RollsBack, Settled, Renamed
  <2>4. AllKept' BY <1>h, <2>1 DEF AllKept, Durable
  <2>5. Phase(p)' BY <1>1, <1>h, <2>1, <2>2, <2>3 DEF Phase
  <2>6. QED BY <1>1, <1>h, <2>1, <2>4, <2>5, AloneStep DEF Label
<1>4. QED BY <1>2, <1>3
LEMMA DataBacksUp ==
    ASSUME DbiStoreAssumption, DataInv, DbiTypeOK', NEW p \in Process, Backup(p)
    PROVE  Data'
PROOF
<1>1. pc[p] = "backup" /\ UNCHANGED <<kind, locks, mode, seen, book, stored>>
        /\ Transactional' = Transactional
  BY DEF Backup, At, Transactional
<1>h. /\ Working(p) /\ Alone(p) /\ Phase(p) /\ AllKept /\ txn \in {None, p} /\ ~ err[p] /\ stored = 1
      /\ InSave(0) /\ DbiTypeOK /\ undo \in Seq(Image)
      /\ pc \in [Process -> Label] /\ todo \in [Process -> Pending]
  BY <1>1, AtWork DEF Phase
<1>2. \A t \in Table : BacksUp(db.data[t], db.back[t], db.merge[t], Ops(p, t))
  BY <1>1, <1>h DEF Phase
<1>3. ASSUME NEW t \in Table, Turn(p, t), Succeeds(p, t), GoesOn(p, t),
             UNCHANGED <<undo, txn, pc, depth, err>>
      PROVE  Data'
  <2>1. ASSUME NEW u \in Table
        PROVE  BacksUp(db'.data[u], db'.back[u], db'.merge[u], Ops(p, u)')
    <3>1. CASE u = t
      <4>1. /\ Current(p, t) = Head(Ops(p, t)) /\ Ops(p, t) # <<>>
            /\ Ops(p, t)' = Tail(Ops(p, t)) /\ Current(p, t) \in Statement
            /\ db' = Executed(Current(p, t), t, Row(p))
        BY <1>3, <1>h, TurnEffect
      <4>2. Ops(p, t) = <<"move">> /\ Settled(1, db.data[t], db.back[t], db.merge[t])
        BY <1>2, <4>1 DEF BacksUp
      <4>3. Current(p, t) = "move" /\ Ops(p, t)' = <<>> BY <4>1, <4>2
      <4>4. /\ db'.data[t] = None /\ db'.back[t] = db.data[t]
            /\ db'.merge[t] = db.merge[t]
        <5>1. db' = Executed("move", t, Row(p)) BY <4>1, <4>3
        <5>2. QED BY <1>h, <5>1, ExecutedEffect DEF Statement
      <4>5. QED BY <3>1, <4>2, <4>3, <4>4 DEF BacksUp, Settled, Renamed
    <3>2. CASE u # t BY <1>2, <1>3, <1>h, <3>2, TurnEffect
    <3>3. QED BY <3>1, <3>2
  <2>2. InSave(0)' BY <1>1, <1>3, <1>h DEF InSave, Whole
  <2>3. AllKept' BY <1>1, <1>h, <2>1, <2>2, SaveKept, KeptAlways
  <2>4. Phase(p)' BY <1>1, <1>3, <1>h, <2>1, <2>2 DEF Phase
  <2>5. pc' = [pc EXCEPT ![p] = "backup"] BY <1>1, <1>3, <1>h
  <2>6. QED BY <1>1, <1>3, <1>h, <2>3, <2>4, <2>5, AloneStep DEF Label
<1>4. ASSUME GivesUp(p) PROVE Data'
  <2>1. ASSUME NEW t \in Table
        PROVE  \/ Settled(1, db.data[t], db.back[t], db.merge[t])
               \/ Renamed(db.data[t], db.back[t], db.merge[t], {None, {}, {2}})
    BY <1>2 DEF BacksUp, Renamed
  <2>2. QED BY <1>1, <1>4, <1>h, <2>1, DataGivesUp
<1>5. ASSUME Finished(p), Does(p, "create", CreateScript),
             UNCHANGED <<db, undo, txn, depth, err, faults>>
      PROVE  Data'
  <2>1. /\ pc' = [pc EXCEPT ![p] = "create"] /\ todo' = [todo EXCEPT ![p] = CreateScript]
    BY <1>5 DEF Does, Goes
  <2>2. ASSUME NEW t \in Table
        PROVE  Creates(db.data[t], db.back[t], db.merge[t], Ops(p, t)')
    <3>1. Ops(p, t) = <<>> BY <1>5 DEF Finished, Ops
    <3>2. Renamed(db.data[t], db.back[t], db.merge[t], {None})
      <4>1. BacksUp(db.data[t], db.back[t], db.merge[t], <<>>) BY <1>2, <3>1
      <4>2. QED BY <4>1 DEF BacksUp
    <3>3. Ops(p, t)' = <<"create">> BY <1>h, <2>1 DEF Ops, CreateScript, Script
    <3>4. QED BY <3>2, <3>3 DEF Creates
  <2>3. InSave(0)' BY <1>1, <1>5, <1>h DEF InSave, Whole
  <2>4. AllKept' BY <1>1, <1>5, <1>h DEF AllKept, Durable
  <2>5. Phase(p)' BY <1>1, <1>5, <1>h, <2>1, <2>2, <2>3 DEF Phase
  <2>6. QED BY <1>1, <1>5, <1>h, <2>1, <2>4, <2>5, AloneStep DEF Label
<1>6. QED BY <1>3, <1>4, <1>5 DEF Backup

LEMMA DataCreates ==
    ASSUME DbiStoreAssumption, DataInv, DbiTypeOK', NEW p \in Process, Create(p)
    PROVE  Data'
PROOF
<1>1. pc[p] = "create" /\ UNCHANGED <<kind, locks, mode, seen, book, stored>>
        /\ Transactional' = Transactional
  BY DEF Create, At, Transactional
<1>h. /\ Working(p) /\ Alone(p) /\ Phase(p) /\ AllKept /\ txn \in {None, p} /\ stored = 1
      /\ InSave(0) /\ DbiTypeOK /\ undo \in Seq(Image) /\ db \in Image
      /\ pc \in [Process -> Label] /\ todo \in [Process -> Pending]
      /\ err \in [Process -> BOOLEAN]
  BY <1>1, AtWork DEF Phase
<1>2. \A t \in Table : Creates(db.data[t], db.back[t], db.merge[t], Ops(p, t))
  BY <1>1, <1>h DEF Phase
<1>n. None # {} BY NoneIsNoSet DEF DbiStoreAssumption, Version
<1>3. ASSUME NEW t \in Table, Turn(p, t), GoesOn(p, t),
             \/ Succeeds(p, t) /\ UNCHANGED err
             \/ Failing(p, t) /\ Reports(p),
             UNCHANGED <<undo, txn, pc, depth>>
      PROVE  Data'
  <2>1. /\ Current(p, t) = Head(Ops(p, t)) /\ Ops(p, t) # <<>>
        /\ Ops(p, t)' = Tail(Ops(p, t)) /\ Current(p, t) \in Statement
        /\ \A u \in Table \ {t} : Ops(p, u)' = Ops(p, u)
    BY <1>3, <1>h, TurnEffect
  <2>2. Ops(p, t) = <<"create">> /\ Renamed(db.data[t], db.back[t], db.merge[t], {None})
    BY <1>2, <2>1 DEF Creates
  <2>3. Current(p, t) = "create" /\ Ops(p, t)' = <<>> BY <2>1, <2>2
  <2>4. \A u \in Table \ {t} : /\ db'.data[u] = db.data[u] /\ db'.back[u] = db.back[u]
                               /\ db'.merge[u] = db.merge[u]
    <3>1. CASE Succeeds(p, t) BY <1>3, <1>h, <3>1, TurnEffect
    <3>2. CASE Failing(p, t) BY <3>2 DEF Failing
    <3>3. QED BY <1>3, <3>1, <3>2
  <2>5. /\ db'.back[t] = db.back[t] /\ db'.merge[t] = db.merge[t]
        /\ \/ db'.data[t] = {} /\ UNCHANGED err
           \/ db'.data[t] = None /\ Reports(p)
    <3>1. CASE Succeeds(p, t) /\ UNCHANGED err
      <4>1. db' = Executed("create", t, Row(p)) BY <2>3, <3>1 DEF Succeeds
      <4>2. QED BY <1>h, <3>1, <4>1, ExecutedEffect DEF Statement
    <3>2. CASE Failing(p, t) /\ Reports(p) BY <2>2, <3>2 DEF Failing, Renamed
    <3>3. QED BY <1>3, <3>1, <3>2
  <2>6. ASSUME NEW u \in Table
        PROVE  Creates(db'.data[u], db'.back[u], db'.merge[u], Ops(p, u)')
    <3>1. CASE u = t BY <2>2, <2>3, <2>5, <3>1 DEF Creates, Renamed
    <3>2. CASE u # t BY <1>2, <2>1, <2>4, <3>2
    <3>3. QED BY <3>1, <3>2
  <2>8. InSave(0)' BY <1>1, <1>3, <1>h DEF InSave, Whole
  <2>9. AllKept' BY <1>1, <1>h, <2>6, <2>8, SaveKept, KeptAlways
  <2>10. Phase(p)' BY <1>1, <1>3, <1>h, <2>6, <2>8 DEF Phase
  <2>11. /\ pc' = [pc EXCEPT ![p] = "create"]
         /\ \A q \in Process \ {p} : err'[q] = err[q]
    BY <1>1, <1>3, <1>h DEF Reports
  <2>12. QED BY <1>1, <1>3, <1>h, <2>9, <2>10, <2>11, AloneStep DEF Label
<1>4. ASSUME Finished(p), Begun(p), Does(p, "write", WriteScript),
             UNCHANGED <<db, err, faults>>
      PROVE  Data'
  <2>1. /\ pc' = [pc EXCEPT ![p] = "write"] /\ todo' = [todo EXCEPT ![p] = WriteScript]
        /\ undo' = <<db>> \o undo /\ txn' = p
    BY <1>4 DEF Does, Goes, Begun
  <2>2. /\ Len(undo') = Len(undo) + 1 /\ Head(undo') = db /\ undo' # <<>>
        /\ \A i \in 1 .. Len(undo) : undo'[i + 1] = undo[i]
        /\ undo # <<>> => Last(undo') = Last(undo)
        /\ undo = <<>> => Last(undo') = db
    BY <1>h, <2>1, Pushed
  <2>3. InSave(1)'
    <3>1. CASE Transactional
      <4>1. Len(undo) = 1 /\ Whole(undo[1], 1) BY <1>h, <3>1 DEF InSave
      <4>2. Len(undo') = 2 /\ undo'[2] = undo[1] BY <2>2, <4>1
      <4>3. QED BY <1>1, <3>1, <4>1, <4>2 DEF InSave, Whole
    <3>2. CASE ~ Transactional BY <1>1, <1>h, <2>2, <3>2 DEF InSave
    <3>3. QED BY <3>1, <3>2
  <2>4. Durable' = Durable BY <1>4, <2>2 DEF Durable
  <2>5. AllKept' BY <1>1, <1>h, <2>4 DEF AllKept
  <2>6. ASSUME NEW t \in Table
        PROVE  /\ Renamed(db.data[t], db.back[t], db.merge[t], {None, {}})
               /\ Ops(p, t)' = <<"write">>
    <3>1. Ops(p, t) = <<>> BY <1>4 DEF Finished, Ops
    <3>2. Renamed(db.data[t], db.back[t], db.merge[t], {None, {}})
      <4>1. Creates(db.data[t], db.back[t], db.merge[t], <<>>) BY <1>2, <3>1
      <4>2. QED BY <4>1 DEF Creates
    <3>3. Ops(p, t)' = <<"write">> BY <1>h, <2>1 DEF Ops, WriteScript, Script
    <3>4. QED BY <3>2, <3>3
  <2>7. /\ AllRenamed(Head(undo'), {None, {}})
        /\ \A t \in Table :
               Writes(db.data[t], db.back[t], db.merge[t], Ops(p, t)', err[p])
    BY <1>h, <2>2, <2>6 DEF AllRenamed, Writes
  <2>8. Phase(p)' BY <1>1, <1>4, <1>h, <2>1, <2>3, <2>7 DEF Phase, AllRenamed
  <2>9. QED BY <1>1, <1>4, <1>h, <2>1, <2>5, <2>8, AloneStep DEF Label
<1>5. QED BY <1>3, <1>4 DEF Create
(* The statement "write", for a new book or an edited one.                 *)
LEMMA WriteEffect ==
    ASSUME DbiTypeOK, NEW p \in Process, NEW t \in Table,
           Turn(p, t), Succeeds(p, t), GoesOn(p, t), Ops(p, t) = <<"write">>
    PROVE  /\ Ops(p, t)' = <<>> /\ db.data[t] # None
           /\ db'.data[t] = {Row(p)} /\ db'.back[t] = db.back[t]
           /\ db'.merge[t] = db.merge[t]
PROOF
<1>1. Current(p, t) = "write" /\ Ops(p, t)' = <<>> BY TurnEffect
<1>2. db' = Executed("write", t, Row(p)) BY <1>1 DEF Succeeds
<1>3. db.data[t] # None BY <1>1 DEF Succeeds, CanExecute, Exists
<1>4. QED BY <1>1, <1>2, <1>3, ExecutedEffect DEF Statement

LEMMA DataWrites ==
    ASSUME DbiStoreAssumption, DataInv, DbiTypeOK', NEW p \in Process,
           Write(p) \/ WriteDone(p)
    PROVE  Data'
PROOF
<1>1. pc[p] = "write" /\ UNCHANGED <<kind, locks, mode, seen, book>>
        /\ Transactional' = Transactional
  BY DEF Write, WriteDone, At, Transactional
<1>h. /\ Working(p) /\ Alone(p) /\ Phase(p) /\ AllKept /\ txn \in {None, p} /\ stored = 1
      /\ InSave(1) /\ DbiTypeOK /\ undo \in Seq(Image) /\ db \in Image
      /\ pc \in [Process -> Label] /\ todo \in [Process -> Pending]
      /\ err \in [Process -> BOOLEAN] /\ BookAt(p)
      /\ AllRenamed(Head(undo), {None, {}})
  BY <1>1, AtWork DEF Phase
<1>2. \A t \in Table :
         Writes(db.data[t], db.back[t], db.merge[t], Ops(p, t), err[p])
  BY <1>1, <1>h DEF Phase
<1>3. /\ undo # <<>> /\ Head(undo) \in Image /\ txn = p
      /\ Transactional => Len(undo) = 2 /\ Whole(undo[2], 1)
      /\ ~ Transactional => Len(undo) = 1
  <2>1. undo # <<>> BY <1>h DEF InSave
  <2>2. txn = p BY <1>1, <2>1, AtWork
  <2>3. QED BY <1>h, <2>1, <2>2, Popped DEF InSave
<1>n. None # {2} /\ None # {} BY NoneIsNoSet DEF DbiStoreAssumption, Version
(* A row is written. *)
<1>4. ASSUME NEW t \in Table, Turn(p, t), Succeeds(p, t), GoesOn(p, t),
             UNCHANGED <<undo, txn, pc, depth, err, stored>>
      PROVE  Data'
  <2>1. Ops(p, t) = <<"write">> /\ Renamed(db.data[t], db.back[t], db.merge[t], {None, {}})
    <3>1. Ops(p, t) # <<>> BY <1>4, <1>h, TurnEffect
    <3>2. QED BY <1>2, <3>1 DEF Writes
  <2>2. Row(p) = 2 BY <1>1, <1>h DEF Row, BookAt, Format
  <2>3. /\ Ops(p, t)' = <<>> /\ db.data[t] # None /\ db'.data[t] = {2}
        /\ db'.back[t] = db.back[t] /\ db'.merge[t] = db.merge[t]
    BY <1>4, <1>h, <2>1, <2>2, WriteEffect
  <2>4. ASSUME NEW u \in Table
        PROVE  Writes(db'.data[u], db'.back[u], db'.merge[u], Ops(p, u)', err'[p])
    <3>1. CASE u = t BY <2>1, <2>3, <3>1 DEF Writes, Renamed
    <3>2. CASE u # t BY <1>2, <1>4, <1>h, <3>2, TurnEffect
    <3>3. QED BY <3>1, <3>2
  <2>6. InSave(1)' BY <1>1, <1>4, <1>h DEF InSave, Whole
  <2>7. AllKept' BY <1>4, <1>h, <1>3 DEF AllKept, Durable
  <2>8. Phase(p)'
    <3>1. AllRenamed(Head(undo'), {None, {}}) BY <1>4, <1>h DEF AllRenamed
    <3>2. QED BY <1>1, <1>4, <1>h, <2>4, <2>6, <3>1 DEF Phase, AllRenamed
  <2>9. pc' = [pc EXCEPT ![p] = "write"] BY <1>1, <1>4, <1>h
  <2>10. QED BY <1>1, <1>4, <1>h, <2>7, <2>8, <2>9, AloneStep DEF Label
(* It fails, and sync goes on. *)
<1>g. ASSUME NEW t \in Table, Turn(p, t), Failing(p, t), GoesOn(p, t), Reports(p),
             UNCHANGED <<undo, txn, pc, depth, stored>>
      PROVE  Data'
  <2>1. /\ UNCHANGED db /\ err'[p] /\ \A q \in Process \ {p} : err'[q] = err[q]
        /\ Ops(p, t) # <<>> /\ Ops(p, t)' = Tail(Ops(p, t))
        /\ \A u \in Table \ {t} : Ops(p, u)' = Ops(p, u)
    BY <1>g, <1>h, TurnEffect DEF Failing, Reports
  <2>2. Ops(p, t) = <<"write">> /\ Renamed(db.data[t], db.back[t], db.merge[t], {None, {}})
    BY <1>2, <2>1 DEF Writes
  <2>3. Ops(p, t)' = <<>> BY <2>1, <2>2
  <2>4. ASSUME NEW u \in Table
        PROVE  Writes(db'.data[u], db'.back[u], db'.merge[u], Ops(p, u)', err'[p])
    <3>1. CASE u = t BY <2>1, <2>2, <2>3, <3>1 DEF Writes
    <3>2. CASE u # t BY <1>2, <2>1, <3>2 DEF Writes
    <3>3. QED BY <3>1, <3>2
  <2>6. InSave(1)' BY <1>1, <1>g, <1>h DEF InSave, Whole
  <2>7. AllKept' BY <1>g, <1>h, <1>3, <2>1 DEF AllKept, Durable
  <2>8. Phase(p)'
    <3>1. AllRenamed(Head(undo'), {None, {}}) BY <1>g, <1>h DEF AllRenamed
    <3>2. QED BY <1>1, <1>g, <1>h, <2>4, <2>6, <3>1 DEF Phase, AllRenamed
  <2>9. pc' = [pc EXCEPT ![p] = "write"] BY <1>1, <1>g, <1>h
  <2>10. QED BY <1>1, <1>g, <1>h, <2>1, <2>7, <2>8, <2>9, AloneStep DEF Label
(* It fails: back to the savepoint. *)
<1>5. ASSUME RolledBackTo(p, Head(undo)), Goes(p, "synced"), Reports(p),
             UNCHANGED stored
      PROVE  Data'
  <2>1. /\ db' = Head(undo) /\ undo' = Tail(undo)
        /\ txn' = (IF Len(undo) = 1 THEN None ELSE txn)
        /\ pc' = [pc EXCEPT ![p] = "synced"] /\ err' = [err EXCEPT ![p] = TRUE]
    BY <1>5 DEF RolledBackTo, Goes, Reports
  <2>2. InSave(0)'
    <3>1. CASE Transactional
      <4>1. Len(undo') = 1 /\ undo'[1] = undo[2] BY <1>h, <1>3, <2>1, <3>1, PoppedOfTwo
      <4>2. QED BY <1>1, <1>3, <3>1, <4>1 DEF InSave, Whole
    <3>2. CASE ~ Transactional
      <4>1. Len(undo') = 0 BY <1>h, <1>3, <2>1, <3>2, Popped
      <4>2. QED BY <1>1, <3>2, <4>1 DEF InSave
    <3>3. QED BY <3>1, <3>2
  <2>3. AllKept' BY <1>5, <1>1, <1>h, <2>1, <2>2, SaveKept, KeptAlways DEF AllRenamed
  <2>4. Phase(p)' BY <1>1, <1>5, <1>h, <2>1, <2>2 DEF Phase, AllRenamed, Renamed
  <2>5. QED BY <1>1, <1>h, <1>3, <2>1, <2>3, <2>4, AloneStep DEF Label
<1>6. CASE Write(p) BY <1>4, <1>5, <1>g, <1>6 DEF Write, Does
(* All is written. *)
<1>7. ASSUME Finished(p), Committed(p), UNCHANGED err, Goes(p, "synced"),
             stored' = IF Transactional \/ err[p] THEN stored ELSE Format
      PROVE  Data'
  <2>1. pc' = [pc EXCEPT ![p] = "synced"] BY <1>7 DEF Goes
  <2>2. AllRenamed(db, IF err[p] THEN {None, {}, {2}} ELSE {{2}})
    <3>1. ASSUME NEW t \in Table
          PROVE  Renamed(db.data[t], db.back[t], db.merge[t],
                         IF err[p] THEN {None, {}, {2}} ELSE {{2}})
      <4>1. Ops(p, t) = <<>> BY <1>7 DEF Finished, Ops
      <4>2. Writes(db.data[t], db.back[t], db.merge[t], <<>>, err[p]) BY <1>2, <4>1
      <4>3. QED BY <4>2 DEF Writes, Renamed
    <3>2. QED BY <3>1 DEF AllRenamed
  <2>4. /\ undo' = Tail(undo) /\ txn' = (IF Len(undo) = 1 THEN None ELSE txn)
        /\ UNCHANGED db
    BY <1>7 DEF Committed
  <2>5. InSave(0)' /\ AllKept'
    <3>1. CASE Transactional
      <4>1. Len(undo') = 1 /\ undo'[1] = undo[2] BY <1>h, <1>3, <2>4, <3>1, PoppedOfTwo
      <4>2. InSave(0)' BY <1>1, <1>3, <3>1, <4>1 DEF InSave, Whole
      <4>3. stored' = 1 BY <1>h, <1>7, <3>1
      <4>4. QED BY <1>1, <3>1, <4>2, <4>3, SaveKept
    <3>2. CASE ~ Transactional
      <4>1. Len(undo') = 0 /\ undo' = <<>> BY <1>h, <1>3, <2>4, <3>2, Popped
      <4>2. stored' = IF err[p] THEN 1 ELSE 2 BY <1>h, <1>7, <3>2 DEF Format
      <4>3. \A t \in Table : Kept(stored', db.data[t], db.back[t], db.merge[t])
        BY <2>2, <4>2, KeptAlways DEF AllRenamed
      <4>4. QED BY <1>1, <2>4, <3>2, <4>1, <4>2, <4>3 DEF InSave, AllKept, Durable
    <3>3. QED BY <3>1, <3>2
  <2>6. Phase(p)'
    BY <1>1, <1>h, <1>7, <2>1, <2>2, <2>4, <2>5 DEF Phase, AllRenamed, Format
  <2>7. QED BY <1>1, <1>h, <1>3, <1>7, <2>1, <2>4, <2>5, <2>6, AloneStep DEF Label
<1>8. CASE WriteDone(p)
  <2>1. CASE Committed(p) /\ UNCHANGED err
             /\ stored' = (IF Transactional \/ err[p] THEN stored ELSE Format)
    BY <1>7, <1>8, <2>1 DEF WriteDone
  <2>2. CASE RolledBackTo(p, Head(undo)) /\ Reports(p) /\ UNCHANGED stored
    BY <1>5, <1>8, <2>2 DEF WriteDone
  <2>3. QED BY <1>8, <2>1, <2>2 DEF WriteDone
<1>9. QED BY <1>6, <1>8

(* After a COMMIT that failed the statements are for nothing.              *)
LEMMA DataUnsaved ==
    ASSUME DbiStoreAssumption, DataInv, NEW p \in Process, undo # <<>>,
           pc[p] \in {"list", "drop_backup"}, List(p) \/ Finish(p)
    PROVE  Data'
PROOF
<1>h. /\ Working(p) /\ Alone(p) /\ Unsaved(p) /\ AllKept /\ txn = p
      /\ pc \in [Process -> Label] /\ err \in [Process -> BOOLEAN]
  BY AtWork DEF Phase
<1>1. /\ UNCHANGED <<undo, txn, mode, stored>>
      /\ err' = err \/ err' = [err EXCEPT ![p] = TRUE]
  BY DEF List, Finish, Reports
<1>2. PICK x \in {"drop_backup", "close"} : pc' = [pc EXCEPT ![p] = x]
  <2>1. CASE List(p) BY <2>1 DEF List, Does, Goes
  <2>2. CASE Finish(p) /\ UNCHANGED pc
    <3>1. pc[p] = "drop_backup" BY <2>2 DEF Finish
    <3>2. pc' = [pc EXCEPT ![p] = "drop_backup"] BY <1>h, <2>2, <3>1
    <3>3. QED BY <3>2
  <2>3. CASE Finish(p) /\ pc' # pc BY <1>h, <2>3 DEF Finish, Goes, Unsaved
  <2>4. QED BY <2>1, <2>2, <2>3
<1>3. AllKept' BY <1>h, <1>1 DEF AllKept, Durable
<1>4. Unsaved(p)' /\ err'[p] /\ \A q \in Process \ {p} : err'[q] = err[q]
  BY <1>h, <1>1 DEF Unsaved, Whole
<1>5. pc'[p] = x BY <1>h, <1>2
<1>6. Phase(p)' BY <1>1, <1>4, <1>5 DEF Phase
<1>7. QED BY <1>h, <1>1, <1>2, <1>3, <1>4, <1>6, AloneStep DEF Label

LEMMA DataSynced ==
    ASSUME DbiStoreAssumption, DataInv, DbiTypeOK', NEW p \in Process,
           Synced(p) \/ List(p)
    PROVE  Data'
PROOF
<1>0. CASE undo # <<>> /\ List(p)
  BY <1>0, DataUnsaved DEF List, At
<1>1. pc[p] \in {"synced", "list"} /\ UNCHANGED <<kind, locks, mode, seen, book>>
        /\ Transactional' = Transactional
  BY DEF Synced, List, At, Transactional
<1>h. /\ Working(p) /\ Alone(p) /\ Phase(p) /\ AllKept /\ txn \in {None, p}
      /\ (txn = None <=> undo = <<>>)
      /\ DbiTypeOK /\ undo \in Seq(Image) /\ db \in Image
      /\ pc \in [Process -> Label] /\ todo \in [Process -> Pending]
      /\ err \in [Process -> BOOLEAN]
  BY <1>1, AtWork
<1>2. CASE Synced(p)
  <2>1. /\ pc[p] = "synced" /\ InSave(0)
        /\ stored = IF Transactional \/ err[p] THEN 1 ELSE 2
        /\ AllRenamed(db, IF err[p] THEN {None, {}, {2}} ELSE {{2}})
    BY <1>2, <1>h DEF Phase, Synced, At
  <2>2. CASE err[p] /\ GivesUp(p) /\ UNCHANGED stored
    BY <1>1, <1>h, <2>1, <2>2, DataGivesUp DEF AllRenamed
  <2>3. CASE /\ ~ err[p] /\ Transactional /\ Committed(p) /\ stored' = Format
             /\ Does(p, "list", Nothing) /\ UNCHANGED err
    <3>1. /\ undo' = Tail(undo) /\ txn' = (IF Len(undo) = 1 THEN None ELSE txn)
          /\ UNCHANGED db /\ pc' = [pc EXCEPT ![p] = "list"] /\ stored' = 2
      BY <2>3 DEF Committed, Does, Goes, Format
    <3>2. Len(undo) = 1 /\ undo # <<>> BY <2>1, <2>3 DEF InSave
    <3>3. undo' = <<>> /\ txn' = None BY <1>h, <3>1, <3>2, Popped
    <3>4. AllRenamed(db, {{2}}) BY <2>1, <2>3
    <3>5. AllKept'
      BY <3>1, <3>3, <3>4, KeptAlways DEF AllRenamed, AllKept, Durable
    <3>6. Phase(p)' BY <1>1, <1>h, <2>3, <3>1, <3>3, <3>4 DEF Phase, AllRenamed
    <3>7. QED BY <1>1, <1>h, <2>3, <3>1, <3>3, <3>5, <3>6, AloneStep DEF Label
  <2>4. CASE /\ ~ err[p] /\ ~ Transactional /\ Does(p, "list", Nothing)
             /\ UNCHANGED <<db, undo, txn, depth, err, stored>>
    <3>1. pc' = [pc EXCEPT ![p] = "list"] BY <2>4 DEF Does, Goes
    <3>2. undo = <<>> /\ stored = 2 /\ AllRenamed(db, {{2}})
      BY <1>h, <2>1, <2>4 DEF InSave
    <3>3. AllKept' BY <1>h, <2>4 DEF AllKept, Durable
    <3>4. Phase(p)' BY <1>1, <1>h, <2>4, <3>1, <3>2 DEF Phase, AllRenamed
    <3>5. QED BY <1>1, <1>h, <2>4, <3>1, <3>3, <3>4, AloneStep DEF Label
  <2>5. CASE /\ ~ err[p] /\ Transactional /\ CommitFails(p)
             /\ Does(p, "list", Nothing) /\ Reports(p) /\ UNCHANGED stored
    <3>1. /\ UNCHANGED <<db, undo, txn>> /\ pc' = [pc EXCEPT ![p] = "list"]
          /\ err' = [err EXCEPT ![p] = TRUE]
      BY <2>5 DEF CommitFails, Does, Goes, Reports
    <3>2. Len(undo) = 1 /\ Whole(undo[1], 1) /\ stored = 1 BY <2>1, <2>5 DEF InSave
    <3>3. AllKept' BY <1>h, <2>5, <3>1 DEF AllKept, Durable
    <3>4. Unsaved(p)' /\ undo' # <<>> BY <1>h, <2>5, <3>1, <3>2 DEF Unsaved, Whole
    <3>5. Phase(p)' BY <1>1, <1>h, <3>1, <3>4 DEF Phase
    <3>6. QED BY <1>1, <1>h, <3>1, <3>3, <3>5, AloneStep DEF Label
  <2>6. QED BY <1>2, <2>2, <2>3, <2>4, <2>5 DEF Synced
<1>3. CASE undo = <<>> /\ List(p)
  <2>1. /\ pc[p] = "list" /\ pc' = [pc EXCEPT ![p] = "drop_backup"]
        /\ todo' = [todo EXCEPT ![p] = DropBackupScript]
        /\ UNCHANGED <<db, undo, txn, err, stored>>
    BY <1>3 DEF List, At, Does, Goes
  <2>2. undo = <<>> /\ ~ err[p] /\ stored = 2 /\ AllRenamed(db, {{2}})
    BY <1>3, <1>h, <2>1 DEF Phase
  <2>3. ASSUME NEW t \in Table
        PROVE  DropsBackup(db.data[t], db.back[t], db.merge[t], Ops(p, t)', FALSE)
    <3>1. Renamed(db.data[t], db.back[t], db.merge[t], {{2}}) BY <2>2 DEF AllRenamed
    <3>2. None # {1} /\ None # {2} BY NoneIsNoSet DEF DbiStoreAssumption, Version
    <3>3. Ops(p, t)' = <<"drop_back">>
      BY <1>h, <2>1, <3>1, <3>2
      DEF Ops, DropBackupScript, Script, BackupTables, Exists, Renamed
    <3>4. QED BY <3>1, <3>3 DEF DropsBackup, Renamed
  <2>4. AllKept' BY <1>h, <2>1 DEF AllKept, Durable
  <2>5. err'[p] = FALSE BY <1>h, <2>1, <2>2
  <2>6. Phase(p)' BY <1>1, <1>h, <2>1, <2>2, <2>3, <2>5 DEF Phase
  <2>7. QED BY <1>1, <1>h, <2>1, <2>4, <2>6, AloneStep DEF Label
<1>4. QED BY <1>0, <1>2, <1>3
(* The renamed tables are dropped, or a failed save is undone with         *)
(* statements: whatever of it fails, each table keeps what is stored.      *)
LEMMA DataFinishes ==
    ASSUME DbiStoreAssumption, DataInv, DbiTypeOK', NEW p \in Process, Finish(p)
    PROVE  Data'
PROOF
<1>0. CASE undo # <<>> /\ pc[p] = "drop_backup" BY <1>0, DataUnsaved
<1>u. undo # <<>> => pc[p] = "drop_backup"
  BY AtWork DEF Finish, Phase
<1> SUFFICES ASSUME undo = <<>> PROVE Data' BY <1>0, <1>u
<1>1. pc[p] \in {"drop_backup", "rollback"} /\ Transactional' = Transactional
        /\ UNCHANGED <<kind, undo, txn, locks, mode, seen, depth, stored>>
  BY DEF Finish, Transactional
<1>h. /\ Working(p) /\ Alone(p) /\ Phase(p) /\ AllKept /\ txn \in {None, p} /\ undo = <<>>
      /\ DbiTypeOK /\ db \in Image
      /\ pc \in [Process -> Label] /\ todo \in [Process -> Pending]
      /\ err \in [Process -> BOOLEAN] /\ book \in [Process -> Version \cup {0}]
  BY <1>1, AtWork DEF Phase
<1>n. None # {1} /\ None # {2} /\ None # {}
  BY NoneIsNoSet DEF DbiStoreAssumption, Version
<1>d. pc[p] = "drop_backup" =>
        /\ stored = 2
        /\ \A t \in Table :
             DropsBackup(db.data[t], db.back[t], db.merge[t], Ops(p, t), err[p])
  BY <1>h DEF Phase
<1>r. pc[p] = "rollback" =>
        /\ stored = 1 /\ err[p]
        /\ \A t \in Table : RollsBack(db.data[t], db.back[t], db.merge[t], Ops(p, t))
  BY <1>h DEF Phase
<1>2. ASSUME NEW t \in Table, Turn(p, t), GoesOn(p, t), UNCHANGED <<pc, book>>,
             \/ Succeeds(p, t) /\ UNCHANGED err
             \/ Failing(p, t) /\ Reports(p)
      PROVE  Data'
  <2>1. /\ Current(p, t) = Head(Ops(p, t)) /\ Ops(p, t) # <<>>
        /\ Ops(p, t)' = Tail(Ops(p, t)) /\ Current(p, t) \in Statement
        /\ \A u \in Table \ {t} : Ops(p, u)' = Ops(p, u)
    BY <1>2, <1>h, TurnEffect
  <2>2. \A u \in Table \ {t} : /\ db'.data[u] = db.data[u] /\ db'.back[u] = db.back[u]
                               /\ db'.merge[u] = db.merge[u]
    <3>1. CASE Succeeds(p, t) BY <1>2, <1>h, <3>1, TurnEffect
    <3>2. CASE Failing(p, t) BY <3>2 DEF Failing
    <3>3. QED BY <1>2, <3>1, <3>2
  <2>3. (err[p] => err'[p]) /\ \A q \in Process \ {p} : err'[q] = err[q]
    BY <1>2, <1>h DEF Reports
  <2>4. ASSUME pc[p] = "drop_backup", NEW u \in Table
        PROVE  DropsBackup(db'.data[u], db'.back[u], db'.merge[u], Ops(p, u)', err'[p])
    <3>1. CASE u = t
      <4>1. /\ Ops(p, t) = <<"drop_back">> /\ db.data[t] = {2} /\ db.merge[t] = None
            /\ db.back[t] \in {{1}, None}
        BY <1>d, <2>1, <2>4 DEF DropsBackup
      <4>2. Current(p, t) = "drop_back" /\ Ops(p, t)' = <<>> BY <2>1, <4>1
      <4>3. CASE Succeeds(p, t)
        <5>1. db' = Executed("drop_back", t, Row(p)) BY <4>2, <4>3 DEF Succeeds
        <5>2. db'.data[t] = {2} /\ db'.back[t] = None /\ db'.merge[t] = None
          BY <1>h, <4>1, <5>1, ExecutedEffect DEF Statement
        <5>3. QED BY <3>1, <4>2, <5>2 DEF DropsBackup
      <4>4. CASE Failing(p, t) /\ Reports(p)
        <5>1. err'[p] /\ UNCHANGED db BY <1>h, <4>4 DEF Reports, Failing
        <5>2. QED BY <3>1, <4>1, <4>2, <5>1 DEF DropsBackup
      <4>5. QED BY <1>2, <4>3, <4>4
    <3>2. CASE u # t
      <4>1. DropsBackup(db'.data[u], db'.back[u], db'.merge[u], Ops(p, u)', err[p])
        BY <1>d, <2>1, <2>2, <2>4, <3>2
      <4>2. QED BY <2>3, <4>1 DEF DropsBackup
    <3>3. QED BY <3>1, <3>2
  <2>5. ASSUME pc[p] = "rollback", NEW u \in Table
        PROVE  RollsBack(db'.data[u], db'.back[u], db'.merge[u], Ops(p, u)')
    <3>1. CASE u = t
      <4>1. /\ Ops(p, t) \in {<<"drop_data", "restore">>, <<"restore">>}
            /\ Renamed(db.data[t], db.back[t], db.merge[t], {None, {}, {2}})
        BY <1>r, <2>1, <2>5 DEF RollsBack
      <4>2. CASE Failing(p, t)
        <5>1. UNCHANGED db /\ Ops(p, t)' \in {<<"restore">>, <<>>}
          <6>1. Tail(<<"restore">>) = <<>> /\ Tail(<<"drop_data", "restore">>) = <<"restore">>
            OBVIOUS
          <6>2. QED BY <2>1, <4>1, <4>2, <6>1 DEF Failing
        <5>2. QED BY <3>1, <4>1, <5>1 DEF RollsBack
      <4>3. CASE Succeeds(p, t) /\ Ops(p, t) = <<"drop_data", "restore">>
        <5>1. Current(p, t) = "drop_data" /\ Ops(p, t)' = <<"restore">>
          BY <2>1, <4>3
        <5>2. db' = Executed("drop_data", t, Row(p)) BY <4>3, <5>1 DEF Succeeds
        <5>3. /\ db'.data[t] = None /\ db'.back[t] = db.back[t]
              /\ db'.merge[t] = db.merge[t]
          BY <1>h, <5>2, ExecutedEffect DEF Statement
        <5>4. QED BY <3>1, <4>1, <5>1, <5>3 DEF RollsBack, Renamed
      <4>4. CASE Succeeds(p, t) /\ Ops(p, t) = <<"restore">>
        <5>1. Current(p, t) = "restore" /\ Ops(p, t)' = <<>>
          BY <2>1, <4>4
        <5>2. db' = Executed("restore", t, Row(p)) BY <4>4, <5>1 DEF Succeeds
        <5>3. /\ db'.data[t] = db.back[t] /\ db'.back[t] = None
              /\ db'.merge[t] = db.merge[t]
          BY <1>h, <5>2, ExecutedEffect DEF Statement
        <5>4. QED BY <3>1, <4>1, <5>1, <5>3 DEF RollsBack, Renamed, Settled
      <4>5. QED BY <1>2, <4>1, <4>2, <4>3, <4>4
    <3>2. CASE u # t BY <1>r, <2>1, <2>2, <2>5, <3>2
    <3>3. QED BY <3>1, <3>2
  <2>6. AllKept'
    <3>1. Durable' = db' BY <1>1, <1>h DEF Durable
    <3>2. CASE pc[p] = "drop_backup"
      BY <1>1, <1>d, <2>4, <3>1, <3>2, KeptAlways DEF AllKept
    <3>3. CASE pc[p] = "rollback"
      BY <1>1, <1>r, <2>5, <3>1, <3>3, KeptAlways DEF AllKept
    <3>4. QED BY <1>1, <3>2, <3>3
  <2>7. Phase(p)' BY <1>1, <1>2, <1>h, <1>d, <1>r, <2>3, <2>4, <2>5 DEF Phase
  <2>8. pc' = [pc EXCEPT ![p] = pc[p]] /\ pc[p] \in Label BY <1>2, <1>h
  <2>9. QED BY <1>1, <1>h, <2>3, <2>6, <2>7, <2>8, AloneStep
<1>3. ASSUME Finished(p), UNCHANGED <<db, err, todo, faults>>,
             IF err[p] THEN Goes(p, "close") /\ UNCHANGED book
             ELSE Goes(p, "open") /\ book' = [book EXCEPT ![p] = Format]
      PROVE  Data'
  <2>1. AllKept' BY <1>1, <1>3, <1>h DEF AllKept, Durable
  <2>2. CASE err[p]
    <3>1. pc' = [pc EXCEPT ![p] = "close"] BY <1>3, <2>2 DEF Goes
    <3>2. Phase(p)' BY <1>1, <1>h, <3>1 DEF Phase
    <3>3. QED BY <1>1, <1>3, <1>h, <2>1, <3>1, <3>2, AloneStep DEF Label
  <2>3. CASE ~ err[p]
    <3>1. pc' = [pc EXCEPT ![p] = "open"] /\ book'[p] = 2
      BY <1>3, <1>h, <2>3 DEF Goes, Format
    <3>2. pc[p] = "drop_backup" BY <1>1, <1>r, <2>3
    <3>3. ASSUME NEW t \in Table
          PROVE  Settled(2, db.data[t], db.back[t], db.merge[t])
      <4>1. Ops(p, t) = <<>> BY <1>3 DEF Finished, Ops
      <4>2. DropsBackup(db.data[t], db.back[t], db.merge[t], <<>>, err[p])
        BY <1>d, <3>2, <4>1
      <4>3. QED BY <2>3, <4>2 DEF DropsBackup, Settled
    <3>4. Phase(p)' BY <1>1, <1>3, <1>h, <1>d, <3>1, <3>2, <3>3 DEF Phase, Whole
    <3>5. QED BY <1>1, <1>3, <1>h, <2>1, <3>1, <3>4, AloneStep DEF Label
  <2>4. QED BY <2>2, <2>3
<1>4. QED BY <1>2, <1>3 DEF Finish
LEMMA DataEdits ==
    ASSUME DbiStoreAssumption, DataInv, DbiTypeOK', harm' = {}, NEW p \in Process,
           Edit(p) \/ EditWrite(p) \/ EditDone(p)
    PROVE  Data'
PROOF
<1>1. pc[p] \in {"open", "edit"} /\ UNCHANGED <<kind, locks, mode, seen>>
  BY DEF Edit, EditWrite, EditDone, At
<1>h. /\ Working(p) /\ Phase(p) /\ AllKept /\ txn \in {None, p}
      /\ DbiTypeOK /\ undo \in Seq(Image) /\ db \in Image
      /\ pc \in [Process -> Label] /\ todo \in [Process -> Pending]
      /\ err \in [Process -> BOOLEAN] /\ book \in [Process -> Version \cup {0}]
      /\ book[p] = stored /\ stored >= 2 /\ stored \in Version
  BY <1>1, AtWork DEF Phase
<1>2. CASE Edit(p)
  <2>1. /\ pc[p] = "open" /\ pc' = [pc EXCEPT ![p] = "edit"]
        /\ todo' = [todo EXCEPT ![p] = WriteScript]
        /\ err' = [err EXCEPT ![p] = FALSE]
        /\ undo' = <<db>> \o undo /\ txn' = p /\ UNCHANGED <<db, book, stored>>
    BY <1>2 DEF Edit, At, Does, Goes, Begun
  <2>2. undo = <<>> /\ Whole(db, stored) BY <1>h, <2>1 DEF Phase
  <2>3. Len(undo') = 1 /\ undo'[1] = db /\ Last(undo') = db /\ undo' # <<>>
    <3>1. undo' = <<db>> BY <1>h, <2>1, <2>2
    <3>2. QED BY <3>1 DEF Last
  <2>4. AllKept' BY <1>h, <2>1, <2>2, <2>3 DEF AllKept, Durable
  <2>5. ASSUME NEW t \in Table
        PROVE  Edits(stored, db.data[t], db.back[t], db.merge[t], Ops(p, t)')
    <3>1. Ops(p, t)' = <<"write">> BY <1>h, <2>1 DEF Ops, WriteScript, Script
    <3>2. QED BY <2>2, <3>1 DEF Edits, Whole
  <2>6. Phase(p)' BY <1>1, <1>h, <2>1, <2>2, <2>3, <2>5 DEF Phase, Whole
  <2>7. QED BY <1>1, <1>h, <2>1, <2>4, <2>6, EditStep DEF Editing
<1>3. CASE pc[p] = "edit"
  <2>h. /\ Len(undo) = 1 /\ Whole(undo[1], stored)
        /\ \A t \in Table :
               Edits(stored, db.data[t], db.back[t], db.merge[t], Ops(p, t))
    BY <1>3, <1>h DEF Phase
  <2>0. undo # <<>> /\ Head(undo) = undo[1] /\ Tail(undo) = <<>>
    <3>1. undo # <<>> BY <2>h
    <3>2. QED BY <1>h, <2>h, <3>1, Popped
  <2>1. ASSUME NEW t \in Table, Turn(p, t), Succeeds(p, t), GoesOn(p, t),
               UNCHANGED <<undo, txn, pc, depth, err, book, stored>>
        PROVE  Data'
    <3>1. /\ Ops(p, t) = <<"write">>
          /\ Settled(stored, db.data[t], db.back[t], db.merge[t])
      <4>1. Ops(p, t) # <<>> BY <1>h, <2>1, TurnEffect
      <4>2. QED BY <2>h, <4>1 DEF Edits
    <3>2. Row(p) = stored + 1 BY <1>h DEF Row, Format, Version
    <3>3. /\ Ops(p, t)' = <<>> /\ db'.data[t] = {stored + 1}
          /\ db'.back[t] = db.back[t] /\ db'.merge[t] = db.merge[t]
      BY <1>h, <2>1, <3>1, <3>2, WriteEffect
    <3>4. ASSUME NEW u \in Table
          PROVE  Edits(stored, db'.data[u], db'.back[u], db'.merge[u], Ops(p, u)')
      <4>1. CASE u = t BY <3>1, <3>3, <4>1 DEF Edits, Settled
      <4>2. CASE u # t BY <1>h, <2>h, <2>1, <4>2, TurnEffect
      <4>3. QED BY <4>1, <4>2
    <3>5. AllKept' BY <1>h, <2>0, <2>1 DEF AllKept, Durable
    <3>6. Phase(p)' BY <1>1, <1>3, <1>h, <2>h, <2>1, <3>4 DEF Phase, Whole
    <3>7. pc' = [pc EXCEPT ![p] = "edit"] BY <1>3, <1>h, <2>1
    <3>8. QED BY <1>1, <1>h, <2>1, <3>5, <3>6, <3>7, EditStep DEF Editing
  <2>2. ASSUME RolledBackTo(p, Head(undo)), Does(p, "open", Nothing), Reports(p),
               UNCHANGED <<book, stored>>
        PROVE  Data'
    <3>1. /\ db' = undo[1] /\ undo' = <<>> /\ txn' = None
          /\ pc' = [pc EXCEPT ![p] = "open"] /\ err' = [err EXCEPT ![p] = TRUE]
      BY <2>0, <2>h, <2>2 DEF RolledBackTo, Does, Goes, Reports
    <3>2. AllKept'
      BY <2>h, <2>2, <3>1, KeptAlways DEF AllKept, Durable, Whole
    <3>3. Phase(p)' BY <1>1, <1>h, <2>h, <2>2, <3>1 DEF Phase, Whole
    <3>4. QED BY <1>1, <1>h, <3>1, <3>2, <3>3, EditStep DEF Editing
  <2>3. ASSUME Finished(p), Committed(p), Goes(p, "open"), UNCHANGED err,
               book' = [book EXCEPT ![p] = @ + 1], stored' = book[p] + 1
        PROVE  Data'
    <3>1. /\ UNCHANGED db /\ undo' = <<>> /\ txn' = None
          /\ pc' = [pc EXCEPT ![p] = "open"]
          /\ book'[p] = stored + 1 /\ stored' = stored + 1
      BY <1>h, <2>0, <2>h, <2>3 DEF Committed, Goes
    <3>2. ASSUME NEW t \in Table
          PROVE  Settled(stored + 1, db.data[t], db.back[t], db.merge[t])
      <4>1. Ops(p, t) = <<>> BY <2>3 DEF Finished, Ops
      <4>2. Edits(stored, db.data[t], db.back[t], db.merge[t], <<>>) BY <2>h, <4>1
      <4>3. QED BY <4>2 DEF Edits
    <3>3. AllKept' BY <3>1, <3>2, KeptAlways DEF AllKept, Durable
    <3>4. stored' >= 2 BY <1>h, <3>1 DEF Version
    <3>5. Phase(p)' BY <1>1, <1>h, <2>3, <3>1, <3>2, <3>4 DEF Phase, Whole
    <3>6. QED BY <1>1, <1>h, <2>3, <3>1, <3>3, <3>5, EditStep DEF Editing
  <2>4. CASE EditWrite(p) BY <2>1, <2>2, <2>4 DEF EditWrite
  <2>5. CommitFails(p) /\ harm' = harm \cup {"commit"} => FALSE OBVIOUS
  <2>6. CASE EditDone(p) BY <2>3, <2>5, <2>6 DEF EditDone
  <2>7. ASSUME Edit(p) PROVE FALSE BY <1>3, <2>7 DEF Edit, At
  <2>8. QED BY <2>4, <2>6, <2>7
<1>4. CASE (EditWrite(p) \/ EditDone(p)) /\ pc[p] # "edit"
  BY <1>4 DEF EditWrite, EditDone, At
<1>5. QED BY <1>2, <1>3, <1>4

LEMMA DataInit == DbiStoreAssumption /\ DbiInit => DataInv
PROOF
<1> SUFFICES ASSUME DbiStoreAssumption, DbiInit PROVE DataInv OBVIOUS
<1>1. Transactions BY TransactionsInit
<1>2. /\ Durable = db /\ stored = 1 /\ txn = None
      /\ \A t \in Table : Settled(1, db.data[t], db.back[t], db.merge[t])
  BY DEF DbiInit, Durable, Settled
<1>3. \A p \in Process : ~ Working(p) /\ ~ Asking(p)
  BY DEF DbiInit, Working, Asking
<1>4. QED BY <1>1, <1>2, <1>3, KeptAlways DEF DataInv, Data, AllKept

(* Harm is not undone.                                                     *)
LEMMA HarmStays ==
    ASSUME [DbiNext]_dbiVars, harm' = {} PROVE harm = {}
PROOF
<1>1. CASE UNCHANGED dbiVars BY <1>1 DEF dbiVars
<1>2. ASSUME NEW p \in Process, NEW m, Starts(p, m) PROVE harm = {}
  BY <1>2 DEF Starts
<1>3. ASSUME NEW p \in Process, NEW m \in Mode, Begin(p, m) PROVE harm = {}
  BY <1>2, <1>3 DEF Begin
<1>4. ASSUME NEW p \in Process, InsertLock(p) PROVE harm = {}
  BY <1>2, <1>4 DEF InsertLock
<1>5. ASSUME NEW p \in Process, EditDone(p) PROVE harm = {}
  BY <1>5 DEF EditDone
<1>6. ASSUME NEW p \in Process,
             \/ LookAtLock(p) \/ Detect(p) \/ Recover(p) \/ Unlock(p) \/ Load(p)
             \/ SafeSync(p) \/ Backup(p) \/ Create(p) \/ Write(p) \/ WriteDone(p)
             \/ Synced(p) \/ List(p) \/ Finish(p) \/ Edit(p) \/ EditWrite(p)
             \/ End(p) \/ Crash(p)
      PROVE  UNCHANGED harm
  BY <1>6 DEF LookAtLock, Detect, Recover, Unlock, Load, SafeSync, Backup, Create,
              Write, WriteDone, Synced, List, Finish, Edit, EditWrite, End, Crash
<1>7. QED BY <1>1, <1>3, <1>4, <1>5, <1>6 DEF DbiNext

\* What holds of the data until there has been harm.
DataInvOrHarm == Transactions /\ (harm = {} => Data)

LEMMA DataInvariant ==
    ASSUME DbiStoreAssumption, DataInvOrHarm, [DbiNext]_dbiVars
    PROVE  DataInvOrHarm'
PROOF
<1>1. Transactions' BY TransactionsInvariant DEF DataInvOrHarm
<1>4. DbiTypeOK' BY <1>1 DEF Transactions
<1> SUFFICES ASSUME harm' = {} PROVE Data' BY <1>1 DEF DataInvOrHarm
<1>2. DataInv BY HarmStays DEF DataInvOrHarm, DataInv
<1>5. CASE UNCHANGED dbiVars
  <2>1. \A p \in Process : Phase(p) => Phase(p)'
    BY <1>5, PhaseStays DEF dbiVars, sessionVars
  <2>2. QED
    BY <1>2, <1>5, <2>1
    DEF dbiVars, sessionVars, DataInv, Data, AllKept, Working, Asking, Beside, Durable
<1>6. CASE DbiNext
  BY <1>2, <1>4, <1>6, DataBegins, DataDetects, DataRecovers, DataEnds, DataLoads,
     DataSaves, DataBacksUp, DataCreates, DataWrites, DataSynced, DataFinishes,
     DataEdits DEF DbiNext
<1>7. QED BY <1>5, <1>6

LEMMA DataInvKeepsData == ASSUME DbiStoreAssumption, DataInv PROVE DataKept
PROOF
<1> SUFFICES ASSUME NEW t \in Table
             PROVE  \E where \in {"data", "back", "merge"} :
                       /\ Durable[where][t] # None
                       /\ \E v \in Durable[where][t] : v >= stored
  BY DEF DataKept
<1>1. stored \in Version /\ None # {stored} /\ None # {1} /\ None # {2} /\ None # {1, 2}
  BY NoneIsNoSet DEF DataInv, Transactions, DbiTypeOK
<1>2. stored >= stored BY <1>1 DEF Version
<1>3. Kept(stored, Durable.data[t], Durable.back[t], Durable.merge[t])
  BY DEF DataInv, Data, AllKept
<1>4. CASE Durable.data[t] = {stored} BY <1>1, <1>2, <1>4
<1>5. CASE stored = 1 /\ Durable.back[t] = {1} BY <1>1, <1>5
<1>6. CASE stored = 2 /\ Durable.merge[t] = {1, 2} BY <1>1, <1>6
<1>7. QED BY <1>3, <1>4, <1>5, <1>6 DEF Kept, Settled, Unsettled

LEMMA DataInvOpensWhole == ASSUME DbiStoreAssumption, DataInv PROVE OpenIsWhole
PROOF
<1> SUFFICES ASSUME NEW p \in Process, At(p, "load")
             PROVE  \E v \in stored .. MaxVersion : \A t \in Table : Durable.data[t] = {v}
  BY DEF OpenIsWhole
<1>1. Whole(Durable, stored) /\ stored \in Version
  BY AtWork DEF At, Phase
<1>2. \A t \in Table : Durable.data[t] = {stored}
  BY <1>1 DEF Whole, Settled
<1>3. stored \in stored .. MaxVersion
  BY <1>1 DEF Version, DbiStoreAssumption
<1>4. QED BY <1>2, <1>3

(* GncDbiBackend::safe_sync, table_operation and the recovery of           *)
(* check_and_rollback_failed_save: on each kind of database, with any      *)
(* number of sessions and tables, whichever statement fails and at         *)
(* whichever the program ends, in the save, in the undoing of it or in the *)
(* recovery, and however often, each table still has what the program was  *)
(* told is stored, as long as sessions have not overlapped and the COMMIT  *)
(* of no edit has failed.  No lock is assumed, and sessions for reading,   *)
(* which recover tables too, may come while another edits.                 *)
THEOREM DataKeptHolds == DbiSpec => []DataKept
PROOF
<1>1. DbiInit => DataInvOrHarm
  BY DataInit, DbiStoreAssumption DEF DataInv, DataInvOrHarm
<1>2. DataInvOrHarm /\ [DbiNext]_dbiVars => DataInvOrHarm'
  BY DataInvariant, DbiStoreAssumption
<1>3. DataInvOrHarm => DataKept
  <2>1. DataInvOrHarm /\ harm = {} => DataInv BY DEF DataInvOrHarm, DataInv
  <2>2. harm # {} => DataKept BY DEF DataKept
  <2>3. QED BY <2>1, <2>2, DataInvKeepsData, DbiStoreAssumption
<1>4. QED BY <1>1, <1>2, <1>3, PTL DEF DbiSpec

(* check_and_rollback_failed_save: under the same conditions no session,   *)
(* and none for reading, loads a book from tables of different versions,   *)
(* or while one is under another name.                                     *)
THEOREM OpenIsWholeHolds == DbiSpec => []OpenIsWhole
PROOF
<1>1. DbiInit => DataInvOrHarm
  BY DataInit, DbiStoreAssumption DEF DataInv, DataInvOrHarm
<1>2. DataInvOrHarm /\ [DbiNext]_dbiVars => DataInvOrHarm'
  BY DataInvariant, DbiStoreAssumption
<1>3. DataInvOrHarm => OpenIsWhole
  <2>1. DataInvOrHarm /\ harm = {} => DataInv BY DEF DataInvOrHarm, DataInv
  <2>2. harm # {} => OpenIsWhole BY DEF OpenIsWhole
  <2>3. QED BY <2>1, <2>2, DataInvOpensWhole, DbiStoreAssumption
<1>4. QED BY <1>1, <1>2, <1>3, PTL DEF DbiSpec

=============================================================================
