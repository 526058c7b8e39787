----------------------------- MODULE XmlFileStore -----------------------------
(***************************************************************************)
(* The XML file backend (src/libgnucash/backend/xml/gnc-xml-backend.cpp)   *)
(* as the processes that share one data file use it: they open it under    *)
(* the lock file, load, save with a backup and a temporary file, remove    *)
(* old backups and close, and any of them may fail or crash between two    *)
(* system calls.  The callers are those of gnc-file.c, which ask the user  *)
(* what to do about a lock.                                                *)
(*                                                                         *)
(* Abstractions: the content of a file is the version of the book in it;   *)
(* of the temporary files past saves left, only complete ones count; a     *)
(* copy of a file and the removal of old files are single steps; seconds,  *)
(* which name the backups, and days, which age them, are one clock.        *)
(***************************************************************************)
EXTENDS Integers

CONSTANTS
    Process,     \* the processes that use the data file
    None,        \* no file
    Retention,   \* the retention policies users choose: "none", "days", "all"
    RetainDays,  \* the days of policy "days"
    Breaks,      \* whose lock users break: of a "dead" process, or of "any"
    MaxVersion,  \* bound: contents of the book
    MaxClock     \* bound: time

ASSUME XmlFileStoreAssumption ==
    /\ None \notin Process
    /\ None \notin [book : Nat, whole : BOOLEAN, mtime : Nat]
    /\ Retention \subseteq {"none", "days", "all"} /\ Retention # {}
    /\ RetainDays \in Nat \ {0}
    /\ Breaks \in {"dead", "any"}
    /\ MaxVersion \in Nat /\ MaxClock \in Nat

VARIABLES
    linkable,  \* whether the file system supports link()
    data,      \* the data file
    lock,      \* the lock file: the process that created it
    backup,    \* the backups, by the time stamp in their names
    leftover,  \* the complete temporary files that saves left behind
    session,   \* the session of each process
    version,   \* the last content given to a book
    clock,
    saved      \* the last content a user was told is saved

vars == <<linkable, data, lock, backup, leftover, session, version, clock, saved>>

File == [book : Nat, whole : BOOLEAN, mtime : Nat]

\* Where a session is: "checked" has passed check_path, "begun" has the lock,
\* "asked" was refused it; from "backup" to "sweep" it is inside sync.
At == {"none", "checked", "asked", "begun", "open", "backup", "write",
       "writing", "written", "unlinked", "linked", "sweep", "ending"}

Session ==
    [at : At, mode : {"normal", "read_only", "break", "new", "overwrite"},
     saveas : BOOLEAN,          \* begun by Save As, for a book of its own
     lockfile : BOOLEAN,        \* m_lockfile is set
     book : Nat, dirty : BOOLEAN, tmp : File \cup {None}]

NoSession == [at |-> "none", mode |-> "normal", saveas |-> FALSE, lockfile |-> FALSE,
              book |-> 0, dirty |-> FALSE, tmp |-> None]

-----------------------------------------------------------------------------

\* A session that may write the data file.
Writer(p) ==
    /\ session[p].at \notin {"none", "checked", "asked", "ending"}
    /\ session[p].mode # "read_only"

\* The lock file is of no session there is or is about to be: something the
\* user who is asked may know, and no session can.
Abandoned ==
    /\ lock # None
    /\ \A p \in Process :
         session[p].at \in {"none", "asked"} \/ session[p].mode = "read_only"

Becomes(p, r) == session' = [session EXCEPT ![p] = r]

Move(p, at) == Becomes(p, [session[p] EXCEPT !.at = at])

\* session_begin up to the lock.
CheckPath(p, mode) ==
    /\ session[p].at = "none"
    /\ mode = "new" => data = None
    /\ mode \in {"normal", "read_only"} => data # None
    /\ Becomes(p, [NoSession EXCEPT
         !.at = IF mode = "read_only" THEN "begun" ELSE "checked",
         !.mode = mode,
         !.saveas = mode \in {"new", "overwrite"}])
    /\ UNCHANGED <<linkable, data, lock, backup, leftover, version, clock, saved>>

\* Mutant of GetFileLock: the lock file is opened without O_EXCL.
LockShared(p) ==
    /\ session[p].at = "checked"
    /\ lock' = p
    /\ Becomes(p, [session[p] EXCEPT !.at = "begun", !.lockfile = TRUE])
    /\ UNCHANGED <<linkable, data, backup, leftover, version, clock, saved>>

\* Mutant of GetFileLock: m_lockfile stays set when the lock was not had.
LockRemembered(p) ==
    /\ session[p].at = "checked"
    /\ \/ /\ lock = None
          /\ lock' = p
          /\ Becomes(p, [session[p] EXCEPT !.at = "begun", !.lockfile = TRUE])
       \/ /\ lock # None /\ session[p].mode # "break"
          /\ Becomes(p, [session[p] EXCEPT !.at = "ending", !.lockfile = TRUE])
          /\ UNCHANGED lock
    /\ UNCHANGED <<linkable, data, backup, leftover, version, clock, saved>>

\* get_file_lock; a lock is broken by going on without creating one.  When the
\* file cannot be created, because it exists or for any other reason, the user
\* is asked what to do, or the session is destroyed if he was asked before.
GetFileLock(p) ==
    /\ session[p].at = "checked"
    /\ \/ /\ lock = None
          /\ lock' = p
          /\ Becomes(p, [session[p] EXCEPT !.at = "begun", !.lockfile = TRUE])
       \/ /\ lock # None /\ session[p].mode = "break"
          /\ Becomes(p, [session[p] EXCEPT !.at = "begun", !.lockfile = TRUE])
          /\ UNCHANGED lock
       \/ /\ Move(p, IF session[p].mode \in {"normal", "new"} THEN "asked" ELSE "ending")
          /\ UNCHANGED lock
    /\ UNCHANGED <<linkable, data, backup, leftover, version, clock, saved>>

\* The dialog of gnc_post_file_open, or of gnc_file_do_save_as.
Answer(p) ==
    /\ session[p].at = "asked"
    /\ \/ Move(p, "ending")
       \/ /\ ~session[p].saveas /\ data # None
          /\ Becomes(p, [session[p] EXCEPT !.at = "begun", !.mode = "read_only"])
       \/ /\ Breaks = "any" \/ Abandoned
          /\ data # None
          /\ Becomes(p, [session[p] EXCEPT !.at = "checked", !.mode = "break"])
    /\ UNCHANGED <<linkable, data, lock, backup, leftover, version, clock, saved>>

\* load; when the file is gone or broken the session is destroyed.
Load(p) ==
    /\ session[p].at = "begun" /\ ~session[p].saveas
    /\ IF data # None /\ data.whole
       THEN Becomes(p, [session[p] EXCEPT !.at = "open", !.book = data.book])
       ELSE Move(p, "ending")
    /\ UNCHANGED <<linkable, data, lock, backup, leftover, version, clock, saved>>

\* Save As: the session is given the book of another one and saves it at once.
SwapData(p) ==
    /\ session[p].at = "begun" /\ session[p].saveas
    /\ version < MaxVersion /\ version' = version + 1
    /\ Becomes(p, [session[p] EXCEPT !.at = "backup", !.book = version + 1,
                                     !.dirty = TRUE])
    /\ UNCHANGED <<linkable, data, lock, backup, leftover, clock, saved>>

\* The user changes the book.
Edit(p) ==
    /\ session[p].at = "open" /\ session[p].mode # "read_only"
    /\ version < MaxVersion /\ version' = version + 1
    /\ Becomes(p, [session[p] EXCEPT !.book = version + 1, !.dirty = TRUE])
    /\ UNCHANGED <<linkable, data, lock, backup, leftover, clock, saved>>

-----------------------------------------------------------------------------
(* sync: write_to_file, then remove_old_files whether it succeeded or not. *)

\* gnc_file_save, qof_session_save: a clean or read-only book is not saved.
Sync(p) ==
    /\ session[p].at = "open"
    /\ session[p].dirty /\ session[p].mode # "read_only"
    /\ Move(p, "backup")
    /\ UNCHANGED <<linkable, data, lock, backup, leftover, version, clock, saved>>

\* What link_or_make_backup makes of file f, and whether it reports success: a
\* link is the same file; copy_file makes a new one, which may stop short with
\* an error, and stops short without one when a read is interrupted.
LinkOrCopy(f) ==
    LET copy == [f EXCEPT !.mtime = clock]
        part == [copy EXCEPT !.whole = FALSE]
    IN  IF linkable THEN {[file |-> f, ok |-> TRUE]}
        ELSE {[file |-> copy, ok |-> TRUE], [file |-> part, ok |-> TRUE],
              [file |-> part, ok |-> FALSE]}

\* backup_file; it fails when there is a backup of the same second.
BackupFile(p) ==
    /\ session[p].at = "backup"
    /\ \/ /\ data = None
          /\ Move(p, "write")
          /\ UNCHANGED backup
       \/ /\ data # None
          /\ Move(p, "sweep")
          /\ UNCHANGED backup
       \/ /\ data # None /\ backup[clock] = None
          /\ \E r \in LinkOrCopy(data) :
               /\ backup' = [backup EXCEPT ![clock] = r.file]
               /\ Move(p, IF r.ok THEN "write" ELSE "sweep")
    /\ UNCHANGED <<linkable, data, lock, leftover, version, clock, saved>>

\* The temporary file, at this time.
Temp(p, whole) == [book |-> session[p].book, whole |-> whole, mtime |-> clock]

\* gnc_book_write_to_xml_file_v2 opens the temporary file, or fails.
OpenTemp(p) ==
    /\ session[p].at = "write"
    /\ \/ Move(p, "sweep")
       \/ Becomes(p, [session[p] EXCEPT !.at = "writing", !.tmp = Temp(p, FALSE)])
    /\ UNCHANGED <<linkable, data, lock, backup, leftover, version, clock, saved>>

\* Mutant of WriteTemp: the temporary file of a failed write stays.
WriteOrLeave(p) ==
    /\ session[p].at = "writing"
    /\ \/ Becomes(p, [session[p] EXCEPT !.at = "written", !.tmp = Temp(p, TRUE)])
       \/ Move(p, "sweep")
    /\ UNCHANGED <<linkable, data, lock, backup, leftover, version, clock, saved>>

\* ... and closes it complete, or fails, and the temporary file is removed.
WriteTemp(p) ==
    /\ session[p].at = "writing"
    /\ \/ Becomes(p, [session[p] EXCEPT !.at = "written", !.tmp = Temp(p, TRUE)])
       \/ Becomes(p, [session[p] EXCEPT !.at = "sweep", !.tmp = None])
    /\ UNCHANGED <<linkable, data, lock, backup, leftover, version, clock, saved>>

\* The save gives up and leaves its temporary file where it is.
GiveUp(p) ==
    /\ Becomes(p, [session[p] EXCEPT !.at = "sweep", !.tmp = None])
    /\ leftover' = leftover \cup {session[p].book}

\* Mutant of UnlinkData: qof_book_mark_session_saved comes too early.
UnlinkSaved(p) ==
    /\ session[p].at = "written"
    /\ Becomes(p, [session[p] EXCEPT !.at = "unlinked", !.dirty = FALSE])
    /\ saved' = session[p].book
    /\ data' = None
    /\ UNCHANGED <<linkable, lock, backup, leftover, version, clock>>

\* The data file is unlinked, if that is permitted.
UnlinkData(p) ==
    /\ session[p].at = "written"
    /\ \/ Move(p, "unlinked") /\ data' = None /\ UNCHANGED leftover
       \/ data # None /\ GiveUp(p) /\ UNCHANGED data
    /\ UNCHANGED <<linkable, lock, backup, version, clock, saved>>

\* Mutant of LinkTemp: the temporary file is removed when it cannot be linked.
LinkOrRemove(p) ==
    /\ session[p].at = "unlinked"
    /\ \/ /\ Becomes(p, [session[p] EXCEPT !.at = "sweep", !.tmp = None])
          /\ UNCHANGED data
       \/ data = None /\ data' = session[p].tmp /\ Move(p, "linked")
    /\ UNCHANGED <<linkable, lock, backup, leftover, version, clock, saved>>

\* link_or_make_backup(tmp, data); neither link nor copy replaces a file.
LinkTemp(p) ==
    /\ session[p].at = "unlinked"
    /\ \/ GiveUp(p) /\ UNCHANGED data
       \/ /\ data = None
          /\ \E r \in LinkOrCopy(session[p].tmp) :
               /\ data' = r.file
               /\ IF r.ok THEN Move(p, "linked") /\ UNCHANGED leftover ELSE GiveUp(p)
    /\ UNCHANGED <<linkable, lock, backup, version, clock, saved>>

\* The temporary file is unlinked, qof_book_mark_session_saved.
UnlinkTemp(p) ==
    /\ session[p].at = "linked"
    /\ \/ GiveUp(p) /\ UNCHANGED saved
       \/ /\ Becomes(p, [session[p] EXCEPT !.at = "sweep", !.tmp = None, !.dirty = FALSE])
          /\ saved' = session[p].book
          /\ UNCHANGED leftover
    /\ UNCHANGED <<linkable, data, lock, backup, version, clock>>

Old(policy) ==
    {s \in DOMAIN backup :
        /\ backup[s] # None
        /\ \/ policy = "none"
           \/ policy = "days" /\ clock - backup[s].mtime >= RetainDays}

\* remove_old_files, under the retention policy of the user; a Save As whose
\* save failed is abandoned.
RemoveOldFiles(p) ==
    /\ session[p].at = "sweep"
    /\ \E policy \in Retention :
         backup' = [s \in DOMAIN backup |->
                      IF lock # None /\ s \in Old(policy) THEN None ELSE backup[s]]
    /\ IF session[p].saveas /\ session[p].dirty
       THEN Move(p, "ending")
       ELSE Becomes(p, [session[p] EXCEPT !.at = "open", !.saveas = FALSE])
    /\ UNCHANGED <<linkable, data, lock, leftover, version, clock, saved>>

-----------------------------------------------------------------------------

\* The user closes the book, saved or not.
Quit(p) ==
    /\ session[p].at = "open"
    /\ Move(p, "ending")
    /\ UNCHANGED <<linkable, data, lock, backup, leftover, version, clock, saved>>

\* session_end: whatever lock file there is goes.
SessionEnd(p) ==
    /\ session[p].at = "ending"
    /\ Becomes(p, NoSession)
    /\ lock' = IF session[p].lockfile THEN None ELSE lock
    /\ UNCHANGED <<linkable, data, backup, leftover, version, clock, saved>>

\* The process dies; its files stay as they are.
Crash(p) ==
    /\ session[p].at # "none"
    /\ Becomes(p, NoSession)
    /\ leftover' = leftover \cup
         (IF session[p].tmp # None /\ session[p].tmp.whole THEN {session[p].tmp.book}
                                                           ELSE {})
    /\ UNCHANGED <<linkable, data, lock, backup, version, clock, saved>>

Tick ==
    /\ clock < MaxClock /\ clock' = clock + 1
    /\ UNCHANGED <<linkable, data, lock, backup, leftover, session, version, saved>>

Init ==
    /\ linkable \in BOOLEAN
    /\ \/ data = None /\ saved = 0
       \/ data = [book |-> 1, whole |-> TRUE, mtime |-> 0] /\ saved = 1
    /\ lock = None
    /\ backup = [s \in 0 .. MaxClock |-> None]
    /\ leftover = {}
    /\ session = [p \in Process |-> NoSession]
    /\ version = 1
    /\ clock = 0

Next ==
    \/ \E p \in Process :
         \/ \E mode \in {"normal", "read_only", "new", "overwrite"} : CheckPath(p, mode)
         \/ GetFileLock(p) \/ Answer(p) \/ Load(p) \/ SwapData(p)
         \/ Edit(p) \/ Sync(p)
         \/ BackupFile(p) \/ OpenTemp(p) \/ WriteTemp(p) \/ UnlinkData(p)
         \/ LinkTemp(p) \/ UnlinkTemp(p) \/ RemoveOldFiles(p)
         \/ Quit(p) \/ SessionEnd(p) \/ Crash(p)
    \/ Tick

Spec == Init /\ [][Next]_vars

-----------------------------------------------------------------------------
StoreTypes ==
    /\ linkable \in BOOLEAN
    /\ data \in File \cup {None}
    /\ lock \in Process \cup {None}
    /\ backup \in [0 .. MaxClock -> File \cup {None}]
    /\ leftover \subseteq Nat
    /\ session \in [Process -> Session]
    /\ version \in Nat /\ clock \in 0 .. MaxClock /\ saved \in Nat

\* The temporary file of session record r fits what its save is doing.
TempFits(r) ==
    IF r.at \in {"writing", "written", "unlinked", "linked"}
    THEN r.tmp \in File /\ (r.at # "writing" => r.tmp.whole)
    ELSE r.tmp = None

TempStates == \A p \in Process : TempFits(session[p])

\* write_to_file: every field has its type, and a session has a temporary file
\* just while its save writes it or puts it in place, complete once written,
\* whichever of the system calls of the save fails.
StoreTypeOK == StoreTypes /\ TempStates

\* get_file_lock, session_end: no two sessions may write the file, if users
\* break only locks of processes that died.
OneWriter ==
    Breaks = "dead" =>
        \A p, q \in Process : Writer(p) /\ Writer(q) => p = q

\* qofsession.h: the session that may write has a lock, its own or one it took.
LockHeld == \A p \in Process : Writer(p) => lock # None

\* write_to_file: what a session takes for saved is what the data file holds,
\* complete (a copy may be cut short), while it is the only writer.
CleanIsOnDisk ==
    \A p \in Process :
        Writer(p) /\ session[p].at = "open" /\ ~session[p].dirty =>
            /\ data # None /\ data.book = session[p].book
            /\ linkable => data.whole

\* The contents of the book some complete file has.
OnDisk ==
    {f.book : f \in {f \in {data} \cup {backup[s] : s \in DOMAIN backup}
                           \cup {session[p].tmp : p \in Process} :
                       f # None /\ f.whole}}
    \cup leftover \cup {0}

\* write_to_file, backup_file, remove_old_files: after any failures and crashes
\* some complete file has what was last saved, or what was being saved over it.
SavedIsKept == linkable => \E v \in OnDisk : saved <= v

=============================================================================
