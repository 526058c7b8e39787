------------------------------ MODULE TaxTables ------------------------------
(***************************************************************************)
(* Tax tables (src/libgnucash/engine/gncTaxTable.c) and what refers to     *)
(* them: the entries of invoices and bills (gncEntry.c), customers         *)
(* (gncCustomer.c), the posting and unposting of a document (gncInvoice.c),*)
(* the dialog that edits them (gnome-utils/dialog-tax-table.c), and the    *)
(* saving and loading of a book as XML or in a database.                   *)
(*                                                                         *)
(* A table users see is counted by its references and may be edited.  A    *)
(* document is posted with an invisible child of it, a copy that stays as  *)
(* it is; the table keeps the child it may hand out again until it is      *)
(* edited.  The content of a table is the number of the edit that gave it. *)
(* Billing terms (gncBillTerm.c) have the same code.                       *)
(***************************************************************************)
EXTENDS Naturals, FiniteSets, FiniteSetsExt, Functions

CONSTANTS
    Table, None,
    Doc,        \* invoices and bills
    Line,       \* the references of entries: an entry on a bill and on an
                \* invoice makes two
    Customer,   \* customers and vendors
    DocOf,      \* [Line -> Doc]
    Backends,   \* of "xml", "sql", the backends to consider
    MaxEdits,   \* bound: edits of tables
    MaxCount    \* bound: a reference count when a database is loaded

Record == [content : 1 .. MaxEdits, parent : Table \cup {None},
           child : Table \cup {None}, invisible : BOOLEAN, refcount : Nat]

ASSUME TaxTablesAssumption ==
    /\ None \notin Table /\ None \notin Record /\ IsFiniteSet(Table)
    /\ IsFiniteSet(Line) /\ IsFiniteSet(Customer)
    /\ Line \cap Customer = {}
    /\ DocOf \in [Line -> Doc]
    /\ Backends \subseteq {"xml", "sql"}
    /\ MaxEdits \in Nat /\ MaxCount \in Nat

VARIABLES
    backend,  \* what the book is saved to
    table,    \* [content, parent, child, invisible, refcount], or None
    uses,     \* the table each line and customer refers to
    posted,   \* the documents that are posted
    stored,   \* the reference count in the row of each table in a database
    row,      \* the reference in the row of each line and customer in a database
    edits     \* edits so far

taxVars == <<backend, table, uses, posted, stored, row, edits>>

User == Line \cup Customer
Lines(d) == {l \in Line : DocOf[l] = d}

Exists(t) == t # None /\ table[t] # None
Free == {t \in Table : ~ Exists(t)}
Visible(t) == Exists(t) /\ ~ table[t].invisible
Users(t) == {u \in User : uses[u] = t}
Rows(t) == {u \in User : row[u] = t}
Children(t) == {c \in Table : Exists(c) /\ table[c].parent = t}

\* A table committed to the database has its row written.
Stores(changed) ==
    stored' = [t \in Table |->
        IF backend = "sql" /\ t \in changed /\ table'[t] # None
        THEN table'[t].refcount ELSE stored[t]]

\* So has a line or customer, but the statement that updates the row leaves out
\* a reference that is none.
StoresUses ==
    row' = [u \in User |->
        IF backend = "sql" /\ uses'[u] # None THEN uses'[u] ELSE row[u]]

\* gncTaxTableDecRef, m times: not below zero.
Less(n, m) == IF n > m THEN n - m ELSE 0

-----------------------------------------------------------------------------
NewTable(c) ==
    [content |-> c, parent |-> None, child |-> None, invisible |-> FALSE,
     refcount |-> 0]

\* The dialog creates a table with its first entry.
Create(t) ==
    /\ t \in Free
    /\ edits < MaxEdits
    /\ edits' = edits + 1
    /\ table' = [table EXCEPT ![t] = NewTable(edits')]
    /\ Stores({t})
    /\ UNCHANGED <<backend, uses, posted, row>>

\* Mutant of Edit: the child is kept.
EditKeepingChild(t) ==
    /\ Visible(t)
    /\ edits < MaxEdits
    /\ edits' = edits + 1
    /\ table' = [table EXCEPT ![t].content = edits']
    /\ Stores({t})
    /\ UNCHANGED <<backend, uses, posted, row>>

\* The dialog adds, changes or removes an entry, and calls gncTaxTableChanged.
Edit(t) ==
    /\ Visible(t)
    /\ edits < MaxEdits
    /\ edits' = edits + 1
    /\ table' = [table EXCEPT ![t].content = edits', ![t].child = None]
    /\ Stores({t})
    /\ UNCHANGED <<backend, uses, posted, row>>

\* Mutant of Delete: the children keep the deleted parent.
DeleteAlone(t) ==
    /\ Visible(t)
    /\ table[t].refcount = 0
    /\ table' = [table EXCEPT ![t] = None]
    /\ row' = [u \in User |-> IF row[u] = t THEN None ELSE row[u]]
    /\ UNCHANGED <<backend, uses, posted, stored, edits>>

\* The dialog deletes a table that is not in use; gncTaxTableFree disconnects
\* its children, which are committed with it.  A row that still refers to it
\* refers to nothing.
Delete(t) ==
    /\ Visible(t)
    /\ table[t].refcount = 0
    /\ table' = [u \in Table |->
          IF u = t THEN None
          ELSE IF Exists(u) /\ table[u].parent = t
               THEN [table[u] EXCEPT !.parent = None, !.refcount = 0, !.invisible = TRUE]
               ELSE table[u]]
    /\ Stores(Children(t))
    /\ row' = [u \in User |-> IF row[u] = t THEN None ELSE row[u]]
    /\ UNCHANGED <<backend, uses, posted, edits>>

-----------------------------------------------------------------------------
(***************************************************************************)
(* gncEntrySetInvTaxTable, gncEntrySetBillTaxTable, gncCustomerSetTaxTable *)
(* of several users at once, each given to[u]: only visible tables count.  *)
(***************************************************************************)
Left(t, to) == Cardinality({u \in DOMAIN to : uses[u] = t /\ to[u] # t})
Joined(t, to) == Cardinality({u \in DOMAIN to : uses[u] # t /\ to[u] = t})

\* Mutant of Counted: the table left behind is not taken down.
CountedOnce(t, to) ==
    IF table[t].invisible THEN 0 ELSE table[t].refcount + Joined(t, to)

Counted(t, to) ==
    IF table[t].invisible THEN table[t].refcount
    ELSE Less(table[t].refcount, Left(t, to)) + Joined(t, to)

Recounted(to) ==
    [t \in Table |-> IF Exists(t) THEN [table[t] EXCEPT !.refcount = Counted(t, to)]
                     ELSE None]

Given(to) == [u \in User |-> IF u \in DOMAIN to THEN to[u] ELSE uses[u]]

Only(u, t) == [v \in {u} |-> t]

Assign(to) ==
    /\ table' = Recounted(to)
    /\ uses' = Given(to)
    /\ Stores({t \in Table : Left(t, to) + Joined(t, to) > 0})
    /\ UNCHANGED <<backend, posted, edits>>

Editable(u) == u \in Line => DocOf[u] \notin posted

\* A user chooses a table, or none, for a customer or an entry of a document
\* that is not posted.
Choose(u, t) ==
    /\ Editable(u)
    /\ t = None \/ Visible(t)
    /\ uses[u] # t
    /\ Assign(Only(u, t))
    /\ StoresUses

\* gncEntryFree: an entry gives its table up, and its row goes with it.
Remove(l) ==
    /\ Editable(l)
    /\ uses[l] # None \/ row[l] # None
    /\ Assign(Only(l, None))
    /\ row' = [row EXCEPT ![l] = None]

\* gncEntryCopy to a new entry: an entry, or a document, is copied; a source
\* without a table does not touch that of the copy.
Copy(from, to) ==
    /\ Editable(to)
    /\ uses[to] = None /\ row[to] = None
    /\ uses[from] # None
    /\ Assign(Only(to, uses[from]))
    /\ StoresUses

-----------------------------------------------------------------------------
\* gncTaxTableReturnChild makes a child of these when a document is posted.
Childless(d) ==
    {t \in {uses[l] : l \in Lines(d)} :
        t # None /\ table[t].child = None /\ ~ table[t].invisible}

\* Mutant of ReturnChild: the table itself is returned when it has a child.
ReturnParent(t, fresh) ==
    IF t # None /\ t \in DOMAIN fresh THEN fresh[t] ELSE t

ReturnChild(t, fresh) ==
    IF t # None /\ t \in DOMAIN fresh THEN fresh[t]
    ELSE IF t # None /\ table[t].child # None THEN table[t].child
    ELSE t

\* Mutant of ChildOf: a child can be seen.
ChildVisible(t) == [NewTable(table[t].content) EXCEPT !.parent = t]

ChildOf(t) == [NewTable(table[t].content) EXCEPT !.parent = t, !.invisible = TRUE]

\* gncInvoicePostToAccount, as far as the tables of the entries go.
Post(d) ==
    /\ d \notin posted
    /\ \E fresh \in Injection(Childless(d), Free) :
         LET to == [l \in Lines(d) |-> ReturnChild(uses[l], fresh)]
             made == Range(fresh)
         IN
         /\ table' = [t \in Table |->
               IF t \in made THEN ChildOf(CHOOSE p \in DOMAIN fresh : fresh[p] = t)
               ELSE IF ~ Exists(t) THEN None
               ELSE [table[t] EXCEPT
                       !.child = IF t \in DOMAIN fresh THEN fresh[t] ELSE @,
                       !.refcount = Counted(t, to)]]
         /\ uses' = Given(to)
         /\ Stores(made \cup {t \in Table : Left(t, to) > 0})
         /\ StoresUses
    /\ posted' = posted \cup {d}
    /\ UNCHANGED <<backend, edits>>

\* gncInvoiceUnpost, which gives each entry the parent of its table if asked to:
\* none, when the parent was deleted.
Unpost(d) ==
    /\ d \in posted
    /\ \/ LET to == [l \in Lines(d) |->
                       IF uses[l] = None THEN None ELSE table[uses[l]].parent]
          IN
          /\ table' = Recounted(to)
          /\ uses' = Given(to)
          /\ Stores({t \in Table : Left(t, to) + Joined(t, to) > 0})
          /\ StoresUses
       \/ UNCHANGED <<table, uses, stored, row>>
    /\ posted' = posted \ {d}
    /\ UNCHANGED <<backend, edits>>

-----------------------------------------------------------------------------
\* The XML file keeps all of a table.  Every reference that is read takes the
\* count down before it adds to it, and taxtable_scrub corrects the count of a
\* table that is used.
XmlLoaded(t) ==
    [table[t] EXCEPT !.refcount =
        IF table[t].invisible \/ Users(t) = {} THEN @ ELSE Cardinality(Users(t))]

\* The database keeps no child.  tt_set_parent makes each table that has a
\* parent the child of its parent, so that the last one read stays it, and every
\* reference that is read adds to the count.
SqlLoaded(t, last) ==
    [table[t] EXCEPT
        !.child = IF t \in DOMAIN last THEN last[t] ELSE None,
        !.refcount = IF table[t].parent # None THEN 0
                     ELSE IF table[t].invisible THEN stored[t]
                     ELSE stored[t] + Cardinality(Rows(t))]

Parents == {t \in Table : Exists(t) /\ Children(t) # {}}

\* The book is saved and loaded again.
Reload ==
    /\ \/ /\ backend = "xml"
          /\ table' = [t \in Table |-> IF Exists(t) THEN XmlLoaded(t) ELSE None]
          /\ UNCHANGED uses
       \/ /\ backend = "sql"
          /\ \E last \in [Parents -> Table] :
               /\ \A t \in Parents : last[t] \in Children(t)
               /\ table' = [t \in Table |->
                              IF Exists(t) THEN SqlLoaded(t, last) ELSE None]
          /\ \A t \in Table : Exists(t) => table'[t].refcount <= MaxCount
          /\ uses' = row
    /\ UNCHANGED <<backend, posted, stored, row, edits>>

-----------------------------------------------------------------------------
TaxInit ==
    /\ backend \in Backends
    /\ table = [t \in Table |-> None]
    /\ uses = [u \in User |-> None]
    /\ posted = {}
    /\ stored = [t \in Table |-> 0]
    /\ row = [u \in User |-> None]
    /\ edits = 0

TaxNext ==
    \/ \E t \in Table : Create(t) \/ Edit(t) \/ Delete(t)
    \/ \E u \in User, t \in Table \cup {None} : Choose(u, t)
    \/ \E l \in Line : Remove(l)
    \/ \E from, to \in Line : Copy(from, to)
    \/ \E d \in Doc : Post(d) \/ Unpost(d)
    \/ Reload

TaxSpec == TaxInit /\ [][TaxNext]_taxVars

-----------------------------------------------------------------------------
TaxTypeOK ==
    /\ backend \in Backends
    /\ table \in [Table -> Record \cup {None}]
    /\ \A t \in Table : Exists(t) /\ table[t].parent # None =>
         table[t].invisible /\ table[t].refcount = 0 /\ table[t].child = None
    /\ uses \in [User -> Table \cup {None}]
    /\ posted \subseteq Doc
    /\ stored \in [Table -> Nat]
    /\ row \in [User -> Table \cup {None}]
    /\ edits \in 0 .. MaxEdits

\* gncTaxTable.c: nothing refers to a table that was freed, neither an entry or
\* a customer nor another table, although children are not counted and a table
\* whose count is zero may be deleted.
NoDangling ==
    /\ \A u \in User : uses[u] # None => Exists(uses[u])
    /\ \A t \in Table : Exists(t) =>
         /\ table[t].parent # None => Visible(table[t].parent)
         /\ table[t].child # None => Exists(table[t].child)

\* gncTaxTableIncRef, gncTaxTableDecRef: whatever was posted, unposted, copied
\* and loaded, a table that is seen counts those that refer to it; with a
\* database, which adds to the count at every loading, at least those.
RefcountExact ==
    \A t \in Table : Visible(t) =>
        IF backend = "xml" THEN table[t].refcount = Cardinality(Users(t))
        ELSE table[t].refcount >= Cardinality(Users(t))

\* gncTaxTable.c, of child: "if non-null, we have not changed".  The child a table
\* hands out to the next document is an invisible child of it and, unless the
\* book came from a database, a copy of what the table is now.
ChildIsCopy ==
    \A t \in Table : Exists(t) /\ table[t].child # None =>
        LET c == table[t].child IN
        /\ Exists(c) /\ table[c].invisible /\ table[c].parent = t
        /\ backend = "xml" => table[c].content = table[t].content

\* gncTaxTable.c, of parent: "if non-null, we are an immutable child".  The taxes
\* of a posted document stay what they were, however its tables are edited,
\* deleted and loaded, until it is unposted.  The exception is a line of a book in
\* a database that was posted without a table but once had one: when it is loaded
\* it has that table back, which its row still has, and if it is not a child but
\* a table that users see they may edit it.
PostedFixed ==
    [][\A l \in Line : DocOf[l] \in posted \cap posted' =>
          IF uses[l] = None
          THEN uses'[l] = None \/ (backend = "sql" /\ uses'[l] = row[l])
          ELSE /\ uses'[l] = uses[l] /\ table'[uses[l]] # None
               /\ \/ table'[uses[l]].content = table[uses[l]].content
                  \/ backend = "sql" /\ Visible(uses[l])]_taxVars

=============================================================================
