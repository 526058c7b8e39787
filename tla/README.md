# A TLA+ development of GnuCash

Specifications of the parts of GnuCash whose correctness depends on protocols
and not on formulas: the edit cycle of the engine, the way several programs share
one file or one database, the delivery of events and the refreshing of windows,
and the objects with a life of their own: tax tables handed out as copies, lots
that balance documents against payments, scheduled transactions. TLC checks them
on small instances; TLAPS proves the invariants a reader is most likely to rely
on for every instance.

1. [The system](#1-the-system)
2. [Modules](#2-modules)
3. [The edit cycle](#3-the-edit-cycle-transedit-ledger)
4. [The file store](#4-the-file-store-xmlfilestore)
5. [The database store](#5-the-database-store-dbistore)
6. [Events and the component manager](#6-events-and-the-component-manager-qofevent-eventdelivery-componentmanager)
7. [Tax tables](#7-tax-tables-taxtables)
8. [Invoices and payments](#8-invoices-and-payments-invoicelots-receivable)
9. [Scheduled transactions](#9-scheduled-transactions-scheduledtransactions)
10. [What is proved](#10-what-is-proved)
11. [Where the code and its documentation part](#11-where-the-code-and-its-documentation-part)
12. [What is not modelled](#12-what-is-not-modelled), and [the plan](#13-plan)

## 1. The system

GnuCash is one single-threaded process per user. Its *engine*
(`src/libgnucash/engine`) keeps a *book* in memory: accounts, transactions,
splits, lots, prices, invoices. A *session* ties the book to a *backend*, which
is either an XML file written as a whole on every save
(`src/libgnucash/backend/xml`) or an SQL database in which every committed object
is stored at once (`src/libgnucash/backend/sql`, `.../dbi`). Windows, registers,
importers and reports sit on top; they learn of changes through *events* and
refresh through the *component manager*. Concurrency comes from three places
only: other processes that open the same data, callbacks that re-enter the
engine (events, backends, dialogs that run the main loop), and crashes.

| Component | State it keeps | Operations | Interacts through | Hard behaviour | What makes it correct |
|---|---|---|---|---|---|
| Transaction edit cycle: `Transaction.cpp`, `Split.cpp`, parts of `Account.cpp`, `Scrub.cpp`, `qofinstance.cpp` | edit level, copy for the rollback, list of splits; parent and account of a split and their values at the last commit; dirty, infant and destroying flags; cached balances | begin, commit, rollback, destroy, setters of splits, moving splits between transactions and accounts | commits of splits inside the commit of a transaction; the backend's `commit_edit`; balance recomputation; the scrub that adds a balancing split | a backend refusing one of several commits; rollbacks that commit other transactions; freeing what a loop still walks | an edit is seen as a whole or not at all; lists agree with back pointers; caches are right or marked; nothing freed is read; calls end |
| XML file backend: `gnc-xml-backend.cpp` | lock file, data file, backups, temporary file | session begin, load, sync, session end | the file system shared with other processes; dialogs of `gnc-file.c` | crash or failure between two system calls; races for the lock; breaking locks | one writer; clean means on disk; what was saved survives |
| QofSession: `qofsession.cpp` | book, backend, error | begin, load, save, swap, end | backend, file dialogs, autosave | errors half way; swapping books on Save As | a failed save leaves the old session usable |
| DBI backend: `gnc-backend-dbi.cpp`, `gnc-dbisqlconnection.cpp` | lock table, tables and their backups, connection | begin, safe_sync, recover, retry | a database server shared with other processes | crash among renames, implicit commits, lost connections, error callbacks | one lock holder; the old tables or the new ones, never a mixture |
| SQL backend: `gnc-transaction-sql.cpp` and others | rows, prepared inserts | commit of an object, load, sync | engine's commit | which of insert, update, delete is due | rows are what was committed |
| QofEvent: `qofevent.cpp` | handler list, run level, suspend count | register, unregister, generate, suspend, resume | every component | handlers that unregister others or generate events during dispatch | no dead handler is called; the list is cleaned up; no handler is skipped |
| Component manager: `gnc-component-manager.c` | watched entities, changes, got_events | register, refresh, suspend | events, windows | events raised by refreshing | no change is lost |
| Lots and gains: `gnc-lot.cpp`, `cap-gains.cpp`, `Scrub3.cpp` | splits of a lot, dirty bits of gains | add, remove, assign, compute gains | edit cycle | dirty bits on both sides of a relation | gains agree with splits; lots close when they sum to zero |
| Invoices and payments: `gncInvoice.c`, `gncOwner.c` | posted lot, transaction, account | post, unpost, pay, link | lots, edit cycle | unposting paid documents | what is owed equals documents less payments |
| Tax tables, billing terms | parent, child, reference counts | reference, return child | invoices | children outliving parents | a table in use does not change under its document |
| Price database | prices by commodity pair and time, reference counts | add, remove, look up | quotes, importers | replacing prices by source | one price per pair and day |
| Scheduled transactions | last run, instance counts, state | instances, create, postpone | recurrence, edit cycle | reminders and postponed instances | each date is created once |
| Recurrence, dates, numeric | none | pure functions | everywhere | month ends, overflow, rounding | agreement with a reference |

The other components (records of customers and vendors, budgets, queries, XML
formats, registers, importers, reports, bindings, vendored code) are listed in
`PROJECT.json` with the reason why they are left out.

The hazards of the code, each at its line, are in `PROJECT.json` with the
properties that would catch them.

## 2. Modules

| Module | What it is |
|---|---|
| `TransEdit` | the edit cycle over a backend that may refuse commits |
| `Ledger` | what the edit cycle promises: contents of transactions that change as a whole; `TransEdit` is shown, and proved, to implement it |
| `XmlFileStore` | processes that share one data file |
| `DbiStore` | processes that share one database: lock table, safe save, recovery |
| `QofEvent` | handlers that register, unregister and raise events while events are delivered |
| `EventDelivery` | what `QofEvent` promises to handlers; `QofEvent` and `ComponentManager` are shown to implement it |
| `ComponentManager` | windows that watch for changes, over `QofEvent`, whose actions it extends |
| `TaxTables` | tax tables, their children and counts, and the documents that refer to them |
| `InvoiceLots` | the lots in which documents and payments of an owner offset each other |
| `Receivable` | what is owed; `InvoiceLots` is shown, and proved, to implement it |
| `Sums` | sums of functions, for `TransEdit`, `Ledger`, `InvoiceLots` and `Receivable` |
| `ScheduledTransactions` | one scheduled transaction and the dialogs over it |
| `MCTransEdit`, `MCXmlFileStore`, `MCDbiStore`, `MCTaxTables`, `MCInvoiceLots`, `MCScheduledTransactions` | constants and symmetry sets for TLC |
| `TransEditProofs`, `XmlFileStoreProofs`, `DbiStoreProofs`, `ComponentManagerProofs`, `TaxTablesProofs`, `InvoiceLotsProofs`, `ScheduledTransactionsProofs` | the proofs about the module of that name; `ComponentManagerProofs` has those about `QofEvent` too |
| `SumsProofs` | what can be proved of sums: induction over finite sets, and the laws of sums that follow |

Definitions carry the names of the functions they model; `PROJECT.json`, "map",
gives the lines of each. Operators whose comment begins with "Mutant of" are
plausible mistakes in the definition that follows them; no specification uses
them. They are there to show that the properties can fail.

## 3. The edit cycle (TransEdit, Ledger)

**State.** `split`, `trans` and `account` are the objects; an object that is not
`live` is memory before `xaccMalloc...` or after `xaccFree...`. `trans[t].orig` is
the copy `dupe_trans` makes. `splitRow` and `transRow` are the tables of an SQL
backend as `gnc-transaction-sql.cpp` writes them. `fault` tells that the program
read a freed split or failed an assertion, after which nothing happens.

**Control.** The program has one thread, so a client call needs an empty call
stack. A call that loops, or that commits another transaction in the middle,
pushes *frames* on `stack`; while there are any, only steps of the innermost are
enabled. This keeps every state between two iterations of a loop, which is where
a backend may refuse and where one transaction's commit runs inside another's.

| Code | Actions |
|---|---|
| `xaccTransBeginEdit`, `dupe_trans` | `BeginEdit` |
| `xaccTransCommitEdit`, `trans_on_error`, `do_destroy` | `CommitEdit`, `ClearSplit`, `FreeTransaction` |
| `trans_cleanup_commit`, `xaccSplitCommitEdit` | `CleanupSplit`, `CleanupDone` |
| `xaccTransRollbackEdit` | `RollbackEdit`, `RollbackSplit`, `Restore`, `Discard`, `RollbackDone` |
| `xaccSplitSetParent` | `MoveSplit`, `Close`, `Adopt` |
| setters, `xaccMallocSplit`, `xaccSplitDestroy`, `xaccTransDestroy` | `SetBaseValue`, `SetReconcile`, `SetAccount`, `SetDescription`, `MallocSplit`, `MallocTrans`, `SplitDestroy`, `TransDestroy` |
| `xaccAccountCommitEdit` (recomputing balances) | `AccountCommitEdit` |
| a commit refused by the backend | the refusing disjuncts of `CommitEdit`, `CleanupSplit` and the others, under `CanFail` |

**Abstractions.** One currency, so a split's value equals its amount. The list of
splits is a set and its loops visit it in any order (the code's order depends on
`g_list_sort` and on insertion). A cached balance is represented by the summands
it was added from, so that a stale balance shows even if two errors cancel.
`MallocSplit` is the sequence every caller writes: malloc, set the parent, the
account and the value. A setter on a transaction nobody has open is the begin,
the setter and the commit the code makes of it. Left out: the orphan scrub, trading
accounts, gains and lots, read-only transactions, the shutdown of the book, sort
order, `xaccTransClearSplits` called by a client in the middle of an edit; the
`rollback` hook of backends, which is empty for SQL.
Freed objects may be allocated again. A loop that meets a freed split either
finds what `xaccFreeSplit` left in its memory or stops with a fault (`ReadFreed`).

**Bounds.** `MaxLevel` edits of one transaction nested by a client, `MaxCalls`
setter calls and refusals in a behaviour (begin, commit and rollback are not
counted, nor are steps of calls), `Amounts` from -6 to 6, wide enough that no sum
of entered amounts (2) leaves it. One split per transaction is kept back for the
balancing split a commit may add. Three or four setter calls suffice for an edit
that enters a split, changes it, moves it and destroys it, with commits and
rollbacks between, and for a second edit that meets what the first left behind. In
`edit_returns` a move and two refusals are such a chain: a rollback gives a split back to a
transaction, whose commit is refused and rolls back in turn.

**Fairness.** `FairSpec` assumes `WF_vars(CallStep)` only: once a client has made
a call the single thread goes on with it. Clients may stop at any time.

| Run | Instance | Properties | What it shows |
|---|---|---|---|
| `edit_cycle` | one loaded transaction, one new one, three spare splits, no refusals; 1.2 million states | `AccountLists`, `SplitListExact`, `CleanIsStored`, `Ledger` | the whole cycle with a backend that stores everything |
| `edit_refused` | one transaction, two values of its own fields, nested edits, any commit refused; 2.7 million states | `NoFault`, `StaleOnlyByRestore`, `MissingByRefusal`, `Ledger` | rollbacks from inside commits, also half way through the splits |
| `edit_moves` | two loaded transactions and moves; 850 thousand states | `TypeOK`, `ParentListsSplit` | moves never orphan a split, and no edit is closed more often than it was opened |
| `edit_returns` | two transactions, moves and refusals, fair; 800 thousand states | `CallsReturn` | chains of commits and rollbacks end |
| `rollback_assert` | see section 11 | | violation |

`TypeOK` also says that no edit level is below zero. A commit that would go there is
reset by `qof_commit_edit` with a warning ("unbalanced call"); that none does is about
commits, rollbacks and moves that open and close transactions which may be open already.

`AccountLists` says that an account lists the splits that were last committed to it. Where
commits are refused only one half is true: a deletion the backend refuses after the account
has let the split go leaves a split that no account lists. `MissingByRefusal`, an action
property, says that this is the only way for a split to go missing.

`CallsReturn` is what the calls owe each other: a rollback gives a split back to the
transaction it came from and commits that one, whose commit may be refused and roll back, and so
on through all that are involved.

`Ledger` is the strongest of these. Its only variable maps every transaction to
the splits posted under it with account, amount and flag. Its only step changes
one transaction from one content that sums to zero to another, and takes no split
that another transaction has. The mapping `CommittedContent` says when an edit
counts: until its row is accepted a transaction has the content of its rollback
copy; in the loop over the splits, and when closed, what it owns. That a refused
commit, an inner rollback or a chain of steps inside a call changes nothing is
what the refinement says. It is checked without moves between transactions. With
them it does not hold: a split moved from a transaction a client has open to a
closed one is committed there at once, while the edit it was taken from can still
be rolled back, so that for a time two contents have it.

`CHECK_DEADLOCK FALSE` stands in the runs with moves, because there a fault stops
the program. The other runs check deadlock.

## 4. The file store (XmlFileStore)

**State.** One data file, its lock file, its backups by the time in their names,
the complete temporary files that saves left, and for each process its session:
where it is in the protocol (`at`), the mode it was begun with, whether
`m_lockfile` is set, its book, whether the book is dirty, its temporary file.
`saved` is what a user was last told is saved.

| Code | Actions |
|---|---|
| `GncXmlBackend::session_begin`, `check_path` | `CheckPath` |
| `get_file_lock` | `GetFileLock` |
| dialogs of `gnc_post_file_open`, `gnc_file_do_save_as` | `Answer` |
| `load` | `Load` |
| Save As, `qof_session_swap_data` | `SwapData` |
| `sync`, `write_to_file`, step by step | `Sync`, `BackupFile`, `OpenTemp`, `WriteTemp`, `UnlinkData`, `LinkTemp`, `UnlinkTemp` |
| `remove_old_files` | `RemoveOldFiles` |
| `session_end` | `Quit`, `SessionEnd` |
| the process dies | `Crash` |

Each system call of a save is an action of its own and may fail; a process may
crash at any of them, and other processes run in between. File systems without
`link()` are modelled by `copy_file` as it is: it may report success of a copy cut
short when a read is interrupted.

**Abstractions.** The content of a file is the version of the book in it.
Incomplete temporary files left by crashes are not kept. A copy, and the walk over
old files, are one step. Seconds (names of backups) and days (their age) are one
clock. The policy is a preference and may be another one at each save. A Save As
whose save failed ends the session. Users break only locks of sessions that are
gone when `Breaks = "dead"`, which is what the dialog asks of them ("That database
may be in use by another user") and what no code can check.

**Bounds.** Two processes (the race for a lock and its successor need no third),
three versions of the book (the loaded one and two saves), two instants (a second
save in the same second, and a save after the retention time). The book and the
clock stop at their bounds, hence `CHECK_DEADLOCK FALSE`. Process names are
symmetric. 1.7 million states.

| Run | Properties | What it shows |
|---|---|---|
| `store_saves` | `StoreTypeOK`, `OneWriter`, `LockHeld`, `CleanIsOnDisk`, `SavedIsKept` | all policies, all failures, both kinds of file system |

`StoreTypeOK` has beside the types `TempStates`: a session has a temporary file just while
its save writes it or puts it in place, and it is complete once it was written, whichever
system call fails.

`SavedIsKept` says that after any failures and crashes some complete file (the
data file, a backup or a temporary file) holds what was last saved, or a later
version that was being saved over it. It, and the completeness part of
`CleanIsOnDisk`, are claimed where `link()` works; with `copy_file` they are false.

## 5. The database store (DbiStore)

**State.** A table of the book may exist under its own name, as `t_back` and as
`t_merge`; `db` is what the process in a transaction sees, `undo` what the tables
were when it began the transaction and at each savepoint, so that `Durable` is what
another process would find. `locks` are the rows of the lock table. Each process
has a place in its protocol, the statements it still has to execute (`todo`), the
depth of its savepoints, an error flag and a book.

| Code | Actions |
|---|---|
| `GncDbiBackend::session_begin` | `Begin` |
| `GncDbiSqlConnection::lock_database`, `unlock_database` | `LookAtLock`, `InsertLock`, `Unlock` |
| `check_and_rollback_failed_save`, `table_operation` with `recover` and `rollback` | `Detect`, `Recover` |
| `GncDbiBackend::load`, first half of `GncSqlBackend::load` | `Load` |
| `safe_sync`: back up the tables, create them, write, drop the copies; or put the copies back | `SafeSync`, `Backup`, `Create`, `Write`, `WriteDone`, `Synced`, `List`, `Finish` |
| `GncSqlBackend::commit` | `Edit`, `EditWrite`, `EditDone` |
| `session_end`, closing the connection | `End` |
| the process dies | `Crash` |

An operation on all tables executes a list of statements for each of them (`BackupScript`,
`RollbackScript`, `RecoverScript` and others); each statement is an action and may
fail, and a crash may come between any two. `todo` has the statements left for each
table, and the code finishes one table before it turns to the next: a table once begun
is the one that goes on (`Turn`). Which table comes next is left open, as it depends on
hash tables and on what the database lists first. MySQL commits implicitly at a statement
that defines a table, so there every rename is permanent at once.

**Abstractions.** A table has one row, known by its version; version 1 is in the old
format that makes opening save the whole book. A database executes a statement and
ends a transaction atomically.

**Assumptions.** `Serializable` are the kinds of database that refuse a transaction to write
after another has written since it read. The code asks for no isolation, so this is what
the databases do by default: sqlite does refuse, MySQL and PostgreSQL do not, and there
two sessions may both look at an empty lock table and both insert their row. `ReadOnly` are
the kinds that are opened for reading, all of them: such a session takes no lock but
recovers and converts like another. A user breaks only the lock of a session that is gone.

**History.** `harm` records two things after which nothing is claimed of the data:
sessions overlapped (one began to work on the database while another opened or saved it, or
while another edited it and the one is not for reading), or the `COMMIT` of an edit
failed. Both happen: the first on the servers by the race for the lock and everywhere by a
session for reading that comes in the middle of a save, the second is `sql_edits_lost`.

**Bounds.** Three processes: one that edits, one that reads beside it and one that comes
after a crash. Two tables (one may be done while the other is not), three versions (loaded,
converted, edited), three failures and crashes together: a save that fails, its rollback
that fails, a recovery that crashes. Behaviours are not followed past an overlap
(`BeforeOverlap`), after which the properties of the data say nothing. `OneWriter` would be seen to
fail on sqlite in the very state in which a second session takes the lock; what only a reader's
overlap cuts off is left to its theorem. Processes and tables are symmetric; 1.8 million states.

| Run | Properties | What it shows |
|---|---|---|
| `dbi_store` | `DbiTypeOK`, `DataKept`, `OpenIsWhole`, `OneWriter` | statements and commits fail, processes die: until one of the harms, what is stored is under one of the names of each table and a database is opened whole, also for reading; on sqlite one session has the lock |
| `sql_edits_lost` | `EndKeepsData` | violation, section 11 |

## 6. Events and the component manager (QofEvent, EventDelivery, ComponentManager)

**State.** The list of handlers is the set of its nodes, the newest first;
`unregister` during delivery leaves a node with a null function in it, to be removed
when the last delivery ends (`pending_deletes`). `walks` are the calls of
`qof_event_generate_internal` in progress, one inside the other, each with the node
it runs and the node it took to be the next. The component manager adds the
components with what they watch, the tables `changes` and `changes_backup`, and
`frames`, its loops over components. Event, refresh and close handlers
are code of the rest of the program: while one runs, anything the program may do may
happen, calls that lead to further handlers included.

| Code | Actions |
|---|---|
| `qof_event_register_handler`, `qof_event_unregister_handler`, suspend and resume | `RegisterHandler`, `UnregisterHandler`, `SuspendEvents`, `ResumeEvents` |
| `qof_event_gen`, `qof_event_force`, `qof_event_generate_internal` | `Generate`, `Visit`, `Return`, `WalkDone` |
| `gnc_cm_event_handler` | `CmEvent` |
| `gnc_register_gui_component`, `gnc_gui_component_watch_entity`(`_type`), `..._clear_watches`, `gnc_unregister_gui_component` | `RegisterComponent`, `Watch`, `ClearWatches`, `UnregisterComponent` |
| `gnc_suspend_gui_refresh`, `gnc_resume_gui_refresh`, `gnc_gui_refresh_all` | `SuspendGui`, `ResumeGui`, `RefreshAll` |
| `gnc_gui_refresh_internal` | `RefreshComponent`, `ComponentReturns`, `RefreshDone` |
| `gnc_close_gui_component_by_session` | `CloseBySession`, `CloseComponent`, `CloseDone` |
| the rest of the program | `RaiseEvent`, `ChangeHandlers`, `DeliverOn`, `HandlerReturns` |

**Assumptions on callers**, as all of them are written: who suspends refreshing also
resumes it; the component manager's own handler is the first to register and stays;
a close handler unregisters the component it closes, and components newer than it.

A watch of an entity or a type replaces the one the component had of it: `Watch` sets which
events of a subject (`Subject`, a set of keys) the component wants, and none of them removes
the watch.

**Bounds.** The handler `cm` and another one, registered up to three times; two
deliveries at a time (one in a handler of the other); two components, two sessions,
two events of different subjects, one of two keys; eight calls; 3.4 million states.

The run `gui_events` checks the composition: `WalksValid` (no delivery stands on a
freed node, or takes one for the next), `NothingLost`
and `ShownPromptly` (a change a component watches is in the tables until the
component was told of it, and when nothing runs only changes made during the last
refresh are outstanding), `CloseValid`, and `Delivered`, the refinement of
`EventDelivery`: every handler registered when an event is raised gets it once, newest
first, unless it is unregistered before. The refinement mapping drops dead nodes: what
a delivery still owes are the live nodes from its next one on.

## 7. Tax tables (TaxTables)

A table users see may be edited at any time, so a document is posted with an invisible
*child*, a copy made when it is first needed and handed out until the table is next
edited (`gncTaxTableReturnChild`).

| Code | Actions |
|---|---|
| the dialog: new, change, delete | `Create`, `Edit`, `Delete` |
| `gncEntrySetInvTaxTable` and the like, `gncEntryCopy`, `gncEntryFree` | `Choose`, `Copy`, `Remove` |
| `gncInvoicePostToAccount`, `gncInvoiceUnpost` | `Post`, `Unpost` |
| saving and loading, as XML or SQL | `Reload` |

**Abstractions.** The content of a table is the number of the edit that gave it.
Unposting may reset the tables of entries to their parents, as the dialog offers; if the
parent was deleted in between the entry is left without a table. `row` is the reference each
entry or customer has in its row of a database. The statement that updates a row leaves out
a column whose reference is none (`StoresUses`), so a reference that was taken away stays in
the row, and loading brings it back; the deletion of the table, or of the entry, ends that.

**Bounds.** Four tables (two visible ones with a child each, or one that has been copied
three times), two documents with two lines and one, three edits. The run has no customer: a
line of a document that is not posted does all that a customer does. The
count of a database, which grows at every load, stops at `MaxCount`. Tables are symmetric,
and the lines of a document; 420 thousand states.

The run `tax_tables` checks `NoDangling`, `RefcountExact`, `ChildIsCopy` and `PostedFixed`
for both backends. With SQL the first is as strong but the counts are only lower
bounds, because loading adds to the count in the row: an unused table may
become impossible to delete.
`ChildIsCopy` speaks of the content for XML only, and `PostedFixed` excepts, for SQL, a line
that has no table and whose row gives it one back, see section 11.

## 8. Invoices and payments (InvoiceLots, Receivable)

**State.** The splits in the account of one owner, each by its transaction, lot and
amount: splits that agree in all three are interchangeable, so they form a bag. A lot
may belong to a document; payments and link transactions have splits in lots. `pending` is
the copy of the links in the lot of a document which `gncInvoiceUnpost` walks while it
destroys them.

| Code | Actions |
|---|---|
| `gncInvoicePostToAccount`, `gncInvoiceUnpost` | `PostToAccount`, `Unpost`, `UnpostLink`, `UnpostDone` |
| `gncOwnerApplyPaymentSecs`, `gncOwnerCreatePaymentLotSecs` | `ApplyPayment` |
| `gncOwnerAutoApplyPaymentsWithLots`, its two loops | `ApplyLots`, `LeftLot`, `RightLot`, `Applied` |
| `gncOwnerOffsetLots`, `gncOwnerReduceSplitTo`, `gncOwnerCreateLotLink`, `scrub merge` | `OffsetLots`, `CreateLotLink`, `Merged` within `RightLot` |
| deleting a payment or a link in a register | `DeleteTxn` |

The order of the list of lots, which depends on dates and on how the lots were found,
is left open. The loops are steps of their own, but as the program has one thread and
nothing in them calls back into it, nobody else acts between.

**Assumptions** (`InvoiceLotsAssumption`). A document may be of any amount, zero and
negative ones included. A payment is not of zero: `gncOwnerApplyPaymentSecs` makes none
then. The documents are finitely many, and a transaction is of one kind.

**Bounds.** Invoices of 2 and 1, a credit note of 2, a payment of 1 or of 3 (too little
for one, and more than all), two links, four lots; 253 thousand states.

The run `invoice_lots` checks `PaymentWhole`, `LinkSound`, `Settled` and the refinement
`Owes`: the lots implement `Receivable`, whose state is which documents are posted, what
is owed on each and the credit of the owner. A step of applying moves what is owed
towards zero and neither makes nor loses money; unposting and deleting give back what
they offset. `Settled` says when the algorithm may stop with something left to balance:
only at a lot of the owner that held several splits, of which it moves one per pair, or
that was given a second one, which may be taken out again. To say so, the history variable `single`
keeps the lots that were always seen with one split or none.

The second case is needed with more than one payment, which the bounds of the run leave out: a
credit note of 5, a payment of 5 and a refund of 3 suffice for a lot that was closed to
be opened again (section 11).

## 9. Scheduled transactions (ScheduledTransactions)

**State.** The scheduled transaction (last date, number of the next occurrence, how many
remain, what is postponed, the options) and, for each open "Since Last Run" dialog,
which is not modal, its list of occurrences with the state the user gave each. `done`
is history: which days were ignored, postponed or lost, or involved in what may make the
counts wrong.

| Code | Actions |
|---|---|
| `gnc_sx_get_instances`, `gnc_sx_instance_model_summarize`, automatic creation, showing the dialog | `SinceLastRun` |
| `gnc_sx_instance_model_change_instance_state` | `ChangeState` |
| `gnc_sx_instance_model_effect_change` on OK | `Respond` |
| closing the dialog | `Cancel` |
| `gnc_sxed_save_sx` | `EditLimit`, `EditEnabled`, `EditCreation`, `EditLead` |
| `_gnc_sx_instance_event_handler`, `gnc_sx_instance_model_update_sx_instances`, in all of these | `Updated`, `Merged` |
| closing and loading the book; dying half way through | `Reload`, `Crash` |

**Abstractions.** The schedule is daily, so occurrences are days. Two transactions of a
day stand for more. The backend is a database: its behaviours include those of XML
(reloading with nothing lost is a stutter), except a crash that goes back to the last
save of a file.

**Bounds.** Two dialogs, two days, unlimited or two occurrences, a lead of one day to
create or to remind, three runs, edits and accidents together, two postponed at a
time; 540 thousand states. Two days are enough to have an occurrence before the one
that goes wrong, and with the lead three occur.

The run `sx_runs` checks `CreatedOnce`, `NoneSkipped` and `CountsExact`. Each names its
exceptions, which the code does have (section 11): outside of them no occurrence is
entered twice or passed over, even when two dialogs show it, and the numbers count what was
entered. `NoneSkipped` says of every day up to the last date that it was entered, ignored, is
postponed, or is among those lost, and of every other due day that the next list shows it. A
day is lost in one of three ways and from that step on: a run leaves it, as a reminder or with
an error, and moves the last date to it or past it (`Overtaken`), which is also what becomes of
a postponed one taken back; a run is cut off after that date was stored but what was
postponed, of which a database has no column, was not; or what is postponed is not there after
a load. A reminder that nothing later has passed is not lost, and must be shown again.
`NoneSkipped` is claimed as long as `LimitKept`, that is unless a limit was edited and
occurrences were postponed: without that it holds within the bounds of the run, but six
events and three postponed occurrences suffice against it (section 11), which showed when
its inductive invariant was sought.

In `gui_events`, `dbi_store`, `tax_tables` and `sx_runs` behaviours end at their bounds,
hence `CHECK_DEADLOCK FALSE`. `invoice_lots` checks deadlock.


## 10. What is proved

All theorems hold for every value of the constants that satisfies the `ASSUME` of
the module: any number of objects and processes, any bound.

`TransEditProofs`

* `TypeCorrect`: `Spec => []FieldTypes`, the types of `TypeOK`. That no edit level is below
  zero, its other half, is model-checked.
* `AccountListsHold`: `Spec => []AccountLists`. A split in the list of an account
  is a live split whose `orig_acc` is that account; when commits are not refused
  the converse holds too.
* `MissingByRefusalHolds`: `Spec => MissingByRefusal`. When commits are refused, the converse
  fails for a split only by a step that refuses to delete it.

`AccountLists` is not inductive by itself. A rollback pushes a frame to discard a
split the edit added, and a later step (`Discard`) frees the split and removes it
from the list of the account `acc` points to. That is sound only if the list it is
in, the one of `orig_acc`, is that one. The strengthening, `AccountInv`, therefore
adds that every frame on the call stack that is about to discard a split finds it
*settled* (`SettledFrame`): `acc` and `orig_acc` agree, or the split was never
committed to an account. It also adds that freed memory is blank (`GoneBlank`) and
the types. One lemma per kind of step (`ClientAccountInv`, `CallAccountInv`), with
a step per action, shows that `AccountInv` is kept; lemmas say what the shared
parts of the actions do to types (`CommitSplitType`, `BalancedType`, ...), to the links of
splits (`CommitSplitLinks`, `SetParentCallLinks`, ...) and to the lists
(`CommitSplitLists`).

* `StaleOnlyByRestoreHolds`: `Spec => StaleOnlyByRestore`, the action property, with all
  calls in play, moves included. It follows from `AccountInv`: a step that changes what an
  account's balance is the sum of marks it, or recomputes it, or is a `Restore`, or is
  about to take the split off the account.
* `NoFaultHolds`: `Spec => []NoFault`, `SplitListExactHolds`: `Spec => []SplitListExact`, and
  `CleanIsStoredHolds`: `Spec => []CleanIsStored`, for runs in which no split is moved
  between transactions (`"move" \notin Calls`); the first two for a backend that refuses
  any commit, the third, which is about rows, for one that refuses none.

With moves `NoFault` is false (section 11, `rollback_assert`), as are the other two: this is
the dividing line of the edit cycle, and the theorems show that nothing else crosses it.
The invariant of the three is `EditInv`:

* `CallsMade` lists the call stacks there are. Without moves they are a close, a loop over the
  splits, a rollback with the split it has in hand, and a commit inside which a rollback
  runs: nesting is of bounded depth whatever clients do.
* `Lists` says of each transaction what its list has. Only the one a loop works on may be in
  disorder (`Tidied`, `Cleared`: what the loop has visited is done, what it has not is as it
  was); every other is `InOrder`: all splits are live and name it as their parent, but for
  the one a rollback is about to discard.
* `CleanSplits` and `Levels` say that a clean split is as it was committed and a freed
  transaction blank.

`StoredInv` adds `Parents` (a split is in the list of its parent) and `Rows` (the row of a
clean split is what it is, and the rows a rollback would go back to are those of the copy).

* `LedgerHolds`: `Spec => Ledger`, the refinement, for runs in which no split is moved, and a
  backend that refuses any commit.

`PostInv` is what the refinement needs beside `EditInv`. What a closed transaction has is read
from its splits and what an open one has from its copy, so the two must agree where one takes
over from the other. `CopyTrue`: a split of the copy that an edit has not made dirty still is
what the copy says, so a rollback, which passes over clean splits, ends where the
edit began. `Stored` and `AtRest`: what the loop of a commit has been through, and
everything in a closed transaction, stays and is in the account it was committed to, so
that the next copy says the same. `Booking`: splits of transactions are in accounts. Each
action then is a `PostStep`: what is posted stays the same for every transaction
(`SameContent`), or one transaction gets a content that is `Fit` to be posted. The second happens
in one place, where the row of the transaction is accepted (`StoringPosts`), and once more
when its deletion is (`DestroyPosts`). That the content sums to zero is
`BalancedSum`: the balancing split takes what the others leave, and a sum without a split
is the sum less its amount (`SumsProofs`). Hence the assumption that `Split` is finite:
a sum over an infinite list has no value.

* `ParentListsSplitHolds`: if commits are not refused, `Spec => []ParentListsSplit`, with moves.

With refusals it is false, as a refused deletion leaves a split with a parent that has dropped
it. The invariant `MoveInv` does not list the stacks, as `CallsMade` does, but says what may
stand where in one (`CallersIn`): a commit and its loops are innermost, an adoption has called
at most the commit of another transaction, a rollback is outermost. A split its
parent does not list has an adoption by that parent pending in the stack (`Listed`,
`AdoptingIn`). That is kept because the two things that could lose it do not meet it: the
commit that runs meanwhile is of another transaction, and a transaction that is freed has just
had all its splits destroyed (`Doomed`), so that none names it afterwards (`Buried`).

`XmlFileStoreProofs`

* `StoreTypeCorrect`: `Spec => []StoreTypeOK`: the types, and that there is a temporary file,
  complete once written, just in the states of a save that have one.
* `OneWriterHolds`: `Spec => []OneWriter`.
* `LockHeldHolds`: if users break only abandoned locks, `Spec => []LockHeld`.

The invariant behind the last two, `LockInv`, is about *holders*: processes that
have `m_lockfile` set or were told to break the lock. There is at most one, and
while there is one the lock file exists. The answer to the dialog makes
a process a holder before it has the lock; that is sound because an abandoned lock
has no holder, and nobody becomes one while the lock file is there. Every
action either does not concern the lock, lets go of it, takes it, or is the answer.

* `CleanIsOnDiskHolds` and `SavedIsKeptHolds`: if users break only abandoned locks,
  `Spec => []CleanIsOnDisk` and `Spec => []SavedIsKept`, for any number of processes,
  failures and crashes.

`DataInv` is the strengthening. It follows the content of the book, not the lock, but needs
`LockInv`: what the one writer knows of the data file stays true because nobody else
writes. A save that has written its temporary file has the complete book in it; the data
file is whole where `link()` works and never older than what was reported saved; and
when there is no data file, a temporary file, or one a dead save left, has that. Backups
occur nowhere in it: they are not needed for `SavedIsKept`.

`DbiStoreProofs`

* `DbiTypeCorrect`: `DbiSpec => []DbiTypeOK`, and `SavepointsCounted`: the depth a process
  counts is the number of savepoints the database has.
* `OneWriterHolds`: `DbiSpec => []OneWriter`, which is about the databases in `Serializable`. The
  strengthening `LockTable` ties places in the protocol to rows: a process that has got
  past `InsertLock` has the only row, and one about to insert has seen no row, or the row
  of a process that is gone, in a transaction that the row of another would make fail.
  Sessions for reading are in none of its cases.
* `DataKeptHolds` and `OpenIsWholeHolds`: `DbiSpec => []DataKept` and `DbiSpec =>
  []OpenIsWhole`, for any number of tables, processes, failures and crashes, every kind of
  database, sessions for reading and commits that fail. No lock is assumed: what the
  properties except (`harm`) is an overlap, however it came about, and the failed `COMMIT` of
  an edit.

The invariant of the data is `DataInv`. It says of each table, separately, what its three
names hold (`Kept`): the table alone, or a copy of the old one with the new one in any state
of completion, or a recovery under way. For a process that executes a script, `Phase` says of
each table which of these goes with the statements still to execute on it (`BacksUp`,
`Recovers` and the like): the rest of a script is what says how far it is. That a script
may be cut off anywhere is then harmless, because what any rest of it leaves is a case of
`Kept`, from which the next session's recovery starts. That only one process is in such a
phase comes from there being no overlap yet: at most one session opens or saves the
database, or one edits it while another opens it for reading.

`ComponentManagerProofs`

* `EventSafety`: `EventSpec => [](EventTypeOK /\ WalksValid /\ ListIsClean)`. `EventInv`
  says that dead nodes exist only while there are walks, and are counted.
* `EventsDelivered`: `EventSpec => Delivered`, step by step: the refinement mapping is a
  set of nodes below a bound, and a visit of a dead node, or of a live one,
  takes the greatest one from it or none.
* `ComponentManagerSafety`, and from it `CmTypeCorrect` (`CmTypeOK`), `ChangesKept` (`NothingLost`), `ChangesShown`
  (`ShownPromptly`) and `ClosedOnesExist` (`CloseValid`): the invariant `CmInv` is the
  conjunction of that of the events, of the registry, of the stack of loops (at most one
  refresh; loops above one another; a component is closed by one loop) and of the changes.
  The hardest case is `RefreshDone`, which clears changes that handlers made while it ran;
  they are those `late` names.
* `CmEventsDelivered`: the composition implements `EventDelivery`, as its steps are
  steps of `QofEvent` or leave its variables alone.

`TaxTablesProofs`

* `TaxTablesSafety`, and from it `TaxTypeCorrect` (`TaxTypeOK`), `NothingDangles`, `ReferencesCounted`, `ChildrenAreCopies`:
  the four invariants together are inductive with `RowsAgree`, that a row refers to a table
  that exists and to the one its entry or customer has, if any. Customers are among the
  users here. The count of users is a cardinality, so that
  each action needs the lemma of how the set of users of a table changes.
* `PostedKeepTaxes`: the action property `PostedFixed`. For XML it follows from the invariant
  `PostedInvisible`: what the lines of a posted document refer to is invisible, hence not
  edited and, having a parent or being used, not deleted. For SQL a line may have a table
  that users see, which its row gave it back; every other is as for XML.

`SumsProofs`

Sums are folds, and what a fold computes needs induction over sets. The induction theorems
of the library take the property as a parameter, which the provers cannot instantiate; here
the property is a set instead: `SetInduction` says that a set of sets which has every finite
set whose smaller ones it has, has all of them, and follows from the least element of
a set of numbers. With it `SumOver` is a partial sum that may take its elements in any
order, and the laws follow that the other proofs need: sums of disjoint parts, of
nothing, of one, of equal values, of values by classes, signs of sums.

`InvoiceLotsProofs`

* `LotTypeCorrect`: `Spec => []LotTypeOK`.
* `PaymentWholeHolds`: `Spec => []PaymentWhole`.
* `LinkSoundHolds`: `Spec => []LinkSound`.
* `OwesHolds`: `Spec => Owes`, the refinement of `Receivable`, step by step.
* `SettledHolds`: `Spec => []Settled`.

For any documents, payments, links and amounts. Whatever an operation does is said once, of
the bag of splits: what a class of splits (those of a transaction, of a lot) is worth
afterwards. For `Merged`, which replaces the splits of a transaction in a lot by one with their sum, this is
`MergedWorth`: a class that has all splits of a transaction in a lot or none keeps its worth.
The invariant `LotInv` has these parts: a document has its one split, in the one lot
attached to it; payments sum to what was paid and links to nothing; a link has one split
in a lot, and that is a document's or the one being taken back; the links
`gncInvoiceUnpost` has yet to look at are exactly those that still are in the lot, which is why it
reads no freed split.

`OwedInv` adds what the refinement depends on: in the lot of a document everything else
has the opposite sign and does not exceed it (`Signs`), a payment that has splits was
entered (`PaidOnes`), and the balance of the left lot, which the loops do not read again, still
has the sign of the document (`LeftSigned`). That sign is all the second loop relies on, so a
balance that is out of date offsets too little but never too much. Each action is then a step of
`Receivable` (`PostStep`, `PayStep`, `DeleteStep`, ...); applying (`RightLot`) is `Settle`,
deleting a link `Release`, and the others are the steps of their name or none.

`MetInv` is about the two loops. Call a lot *sure* if it belongs to a document or always had one
split. Two sure lots that the loops have looked at do not clash (`Met`), and the
balance of a sure left lot is between zero and what was noted of it (`LeftMet`). It is kept
because no step makes the balance of a sure lot grow or change its sign (`NoneGrows`): what
did not clash cannot come to clash. A pair that is balanced ends with one of the two
at zero (`LinkMeets`, `OffsetMeets`) or has no split to move (`NothingMoves`), and what is passed over has
no balance or the sign of the left lot (`PassedOver`). For a lot of several
splits the first of these is false: an attempt to prove `Settled` with
an exception for lots that held several splits when the loops began failed here, and
TLC found the counterexample for two payments that section 11 describes.

`ScheduledTransactionsProofs`

* `SxTypeOKHolds`: `SxSpec => []SxTypeOK`.
* `CreatedOnceHolds`: `SxSpec => []CreatedOnce`.
* `NoneSkippedHolds`: `SxSpec => []NoneSkipped`.
* `CountsExactHolds`: `SxSpec => []CountsExact`.

For any number of dialogs, any limits, leads, accidents and length of the schedule, and both
backends. The invariant `SxInv` relates the schedule to what was entered and to the list of
every dialog:

* `Settled`: each day up to the last date was entered, ignored, is postponed or is among those
  lost (`Covered`); no later one was ignored or postponed, and outside of the exceptions no later
  one was entered and none twice.
* `ListOK`, of a list: an entry stands before its day whatever the schedule is now
  (`EntriesOK`); the days go on from the last date without a gap and each is there once but for
  postponed ones (`DatesOK`); what is not yet created is after the last date (`FreshOK`).
  This is the point of the merge: a list that was not merged would show what
  another dialog has entered.
* `NumInv` and `RemInv`: as long as nothing is postponed the number, and what remains, follow
  the last date, and every list is numbered by its days and ends before the limit.

`Settled` and `ListOK` hold only as long as `LimitKept`: the proof does not go through, and the
property is false, once a limit is set while something is postponed (section 11).

A run is a recursion over its list, so what it has done after `k` turns is itself an
invariant (`LastSoFar`, `MadeSoFar`, `PickedSoFar`, `CoveredSoFar`, `NumSoFar`, `RemSoFar`), shown
by induction over the turns (`UpTo`). Because the list has no gap, what the run passes is one
stretch of days that begins where the past ends: that is why nothing is skipped although
only the last date is kept, and why a run that a crash cuts off between its commits skips
nothing either. Then the run leaves a settled schedule (`RunSettles`)
and its own list in order (`RunEntries`, `RunFresh`); and the other dialogs, told of up to
three commits, merge with a list generated from the last of them (`NotifiedOK`, `UpdatedOK`).
A dialog that is not told, because nothing changed, keeps its list (`ListKept`).

The inductive invariants were checked by TLC before they were proved: `EditInv` on the
constants of `edit_cycle` and `edit_refused` (and on two transactions with refusals),
`StoredInv` on those of `edit_cycle`, `PostInv` on both, `MoveInv` on those of `edit_moves`, `DataInv` on those of `dbi_store`, `LotInv`, `OwedInv` and
`MetInv` on those of `invoice_lots`, and `SxInv` on those of `sx_runs`.

Only model-checked: `CallsReturn`, which is liveness under fairness, beyond the proof system;
and the half of `TypeOK` that is about edit levels, which would need an invariant that counts
the frames of the stack that will close each transaction.

## 11. Where the code and its documentation part

Two runs end in a counterexample to what the repository states. The lines are in
`PROJECT.json`, "findings".

* `rollback_assert`: a split is moved from one open transaction to another. The first is
  committed, which drops the split from its list, and opened again; the split is moved back and
  the first is rolled back. The copy has no such split, so it counts as added; but the second was
  never committed, the split's `orig_parent` is still the first, and the assertion in
  `xaccTransRollbackEdit` that it has gone elsewhere fails.
* `sql_edits_lost`: when a `COMMIT` fails, `commit_transaction` leaves the
  transaction open and its depth as it was. Later edits are stored
  in a savepoint of it, reported as stored, and rolled back by the end of the session.

The models show more of this kind, which the properties name as exceptions or which are
told here so that nobody relies on the opposite.

*Edit cycle.* `xaccTransRollbackEdit` restores fields of a split and marks no balance as
out of date: set a reconcile flag, roll back, and the account's reconciled balance still
counts the split. `StaleOnlyByRestore` shows that this, and a split about to leave the
account, are the only ways for a balance to go stale. `xaccSplitSetParent` commits the
transaction a split leaves before the split is dirty; if nobody had that transaction open
it goes on listing the split. Readers filter by parent, which is why `ParentListsSplit` is what
they can rely on.

*Files.* Breaking the lock of a live session leaves the lock file of that session in place;
when it ends, it removes the file under its successor. A backup is a hard link to the data
file and has its modification time; the age of backups is taken from it, so a save may
remove the backup it just made.

*Databases.* "Protect everything with a single transaction to prevent races"
(`gnc-dbisqlconnection.cpp:105`): a transaction at the isolation MySQL and PostgreSQL have by
default does not prevent that two sessions read an empty lock table and both insert a row. With
one of them in `Serializable` no state has two sessions with the lock, without it there are
such states. A session for reading takes no lock, and `check_and_rollback_failed_save` takes the backup
tables of a save in progress for those of one that failed. `lock_database` returns without ending its transaction when the lock table
cannot be created. `check_and_rollback_failed_save` fails without an error code when there are
merge tables. `safe_sync` ignores the result of its commit. The header says of `m_retry` that
it "Signals the calling function that it should retry" (`gnc-dbisqlconnection.hpp:106`), but
`retry_connection` clears it, with the error, when it has reconnected (586): the loop of
`execute_nonselect_statement` (288) is then left without a result and without an error, which counts as
success. So a statement lost with its connection is skipped, and what the server rolled
back before it is not noticed. This is read from the code; connections are not lost in the model.

*Windows.* Events raised while windows are refreshed are recorded, but shown only at the next
event: `gnc_cm_event_handler` sets `got_events` and `gnc_gui_refresh_internal` clears it
at its end.

*Tax tables.* "if non-null, we have not changed" is said of the child in `gncTaxTable.c:48`. With
SQL, loading makes any child of a table the one it hands out (`tt_set_parent`), also one made
before the last edit: the next document is posted with taxes the table no longer has. And
`gnc-sql-column-table-entry.cpp:100` and `357` leave a null reference out of what
`gnc-sql-backend.cpp:944` writes with an `UPDATE`: an entry whose table was taken away, by its user
or by unposting with a parent that is gone, has it back after the next load, also when its
document was posted in between. "if non-null, we are an immutable child" (`gncTaxTable.c`, of
`parent`) then does not hold of what a posted document refers to.

*Payments.* `FindOffsettingSplit` does not always find what its comment promises, and one split
of a payment lot is moved per pair of lots, so that applying once may leave what applying again
would balance. Two lots are to be balanced only if their signs differ, "Otherwise we would increase
the balance of the lot" (`gncOwner.c:1396`), but the balance of the left lot is read once and not
again after a pair. So a link with a zero amount can be made, and a lot that was closed
may be opened again: a payment of 5 closes the lot of a refund of 3, and a credit note of 5 met
after it takes the refund out, which leaves the lot a balance of 3 of the opposite sign.

*Scheduled transactions.* An occurrence whose formula cannot be computed is entered all the
same, reported as an error and left due, so that it is entered again, or passed over
if a later one succeeds. Occurrences after a postponed one are offered again, though they have been entered.
The number and the count of what remains are set anew when a postponed one is dealt
with, and the number may go back. A postponed one made a reminder is dropped, and is not offered again. SQL does
not store what is postponed; nothing marks the book dirty when it changes. Changing a state after automatic creation regenerates the list. Limiting
an unlimited schedule while an occurrence is postponed gives one without a date and starts
the schedule over. What is then postponed stands before an invalid date, which
`g_date_compare` finds equal to any: `gnc_sx_remove_defer_instance` takes off another
occurrence than the one meant, which is neither postponed nor entered from then on.
`gnc-sx-instance-model.h:125-149` says "a reminder can never be before any other (modeled)
instance type" and that the model enforces it "at every state change". It does so when the
user changes a state, not when the merge appends to a list: make the shown one a reminder, then let the
editor extend the lead, or the limit, while the dialog is open, and one to be created
follows it. Creating that moves the last date past the reminder, which is lost.

## 12. What is not modelled

`PROJECT.json`, "components", has a line for every part. In short: the user interface except
the file dialogs, the tax table dialog, the scheduled transaction editor and the "Since Last Run" dialog;
the content of files and rows; the records that have only setters (owners, jobs,
orders, employees, budgets); billing terms, whose code is that of tax tables with other names;
the tree of accounts and its destruction; orphan scrub, trading accounts and gains inside a
commit; assigning splits to lots by policy; the price database; queries; recurrence, dates and
numeric, which are pure; autosave; the retry of lost database connections; importers, reports,
quotes and bindings. Most of the source is of these kinds: windows, dialogs, importers
and tests, code with little state between calls, of which a model would repeat the text.

## 13. Plan

What would add most, in this order:

1. The lost connection in `DbiStore` (section 11), as a statement that is skipped together
   with the transaction before it; and an abstract `BookStore`, one writer and nothing saved lost,
   that `DbiStore` and `XmlFileStore` both implement.
2. The destruction of accounts over `TransEdit`, with splits whose transactions put others
   into the dying account; deletes of rows by the transaction's guid after refused moves.
3. `QofSession` with the autosave timer and its dialog over `BookStore`.
4. Gains: the dirty bits of splits and lots over `InvoiceLots`.
5. The price database; recurrence and numerics as operators against a reference
   definition.

Every property of a run but `CallsReturn` and the edit levels of `TypeOK` is proved. A theorem still worth having is
`CleanIsStored` for a backend that refuses commits, for which the property would have to say
what a refused deletion leaves; and the refinement of `BookStore` by the two stores.
