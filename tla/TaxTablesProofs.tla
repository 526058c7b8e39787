--------------------------- MODULE TaxTablesProofs ---------------------------
(***************************************************************************)
(* Theorems about TaxTables.  The argument: a table that can be seen       *)
(* counts at least its users, so that one that is deleted has none; a      *)
(* child is invisible, so it is neither edited nor deleted; and what is    *)
(* posted refers to invisible tables only, because posting replaces each   *)
(* table by a child and nothing else may be chosen until the document is   *)
(* unposted.  In a database a row holds the reference of its entry or      *)
(* customer, or an older one when that refers to nothing; the table an     *)
(* older one names was not deleted either, so it may be loaded.            *)
(***************************************************************************)
EXTENDS TaxTables, FiniteSetTheorems, TLAPS

\* Posted documents use tables that nobody can edit, unless a database gives
\* them back one they had.
PostedInvisible ==
    backend = "xml" =>
        \A l \in Line : DocOf[l] \in posted /\ uses[l] # None => table[uses[l]].invisible

\* A row refers to a table that exists, and to what its user refers to, if anything.
RowsAgree ==
    /\ \A u \in User : row[u] # None => Exists(row[u])
    /\ backend = "sql" => \A u \in User : uses[u] # None => row[u] = uses[u]

TaxInv == TaxTypeOK /\ NoDangling /\ RefcountExact /\ ChildIsCopy /\ PostedInvisible
          /\ RowsAgree

\* What PostedFixed says of a step.
KeepsPosted ==
    \A l \in Line :
        DocOf[l] \in posted \cap posted' =>
          IF uses[l] = None
          THEN uses'[l] = None \/ (backend = "sql" /\ uses'[l] = row[l])
          ELSE /\ uses'[l] = uses[l] /\ table'[uses[l]] # None
               /\ \/ table'[uses[l]].content = table[uses[l]].content
                  \/ backend = "sql" /\ Visible(uses[l])

-----------------------------------------------------------------------------
(* Rows and counts.                                                        *)

LEMMA RowIs ==
    ASSUME TaxTypeOK, NEW t \in Table, Exists(t)
    PROVE  table[t] \in Record
BY DEF TaxTypeOK, Exists

LEMMA RowRecounted ==
    ASSUME NEW r \in Record, NEW n \in Nat
    PROVE  LET q == [r EXCEPT !.refcount = n] IN
           /\ q \in Record /\ q.content = r.content /\ q.parent = r.parent
           /\ q.child = r.child /\ q.invisible = r.invisible /\ q.refcount = n
BY DEF Record

LEMMA UsersFinite ==
    ASSUME TaxTablesAssumption
    PROVE  /\ \A S \in SUBSET User : IsFiniteSet(S) /\ Cardinality(S) \in Nat
           /\ \A t : IsFiniteSet(Users(t)) /\ Cardinality(Users(t)) \in Nat
PROOF
<1>1. IsFiniteSet(User)
  BY FS_Union DEF TaxTablesAssumption, User
<1>2. \A S \in SUBSET User : IsFiniteSet(S) /\ Cardinality(S) \in Nat
  BY <1>1, FS_Subset, FS_CardinalityType
<1>3. \A t : Users(t) \in SUBSET User
  BY DEF Users
<1>4. QED BY <1>2, <1>3

LEMMA CountsAreNat ==
    ASSUME TaxTablesAssumption, NEW to, DOMAIN to \subseteq User, NEW t
    PROVE  Left(t, to) \in Nat /\ Joined(t, to) \in Nat
PROOF
<1>1. /\ {u \in DOMAIN to : uses[u] = t /\ to[u] # t} \in SUBSET User
      /\ {u \in DOMAIN to : uses[u] # t /\ to[u] = t} \in SUBSET User
  OBVIOUS
<1>2. QED BY <1>1, UsersFinite DEF Left, Joined

LEMMA CountedIsNat ==
    ASSUME TaxTablesAssumption, TaxTypeOK, NEW to, DOMAIN to \subseteq User,
           NEW t \in Table, Exists(t)
    PROVE  Counted(t, to) \in Nat
PROOF
<1>1. table[t].refcount \in Nat
  BY RowIs DEF Record
<1>2. QED BY <1>1, CountsAreNat DEF Counted, Less

\* The users of a table after some have been given others.
LEMMA UsersAfter ==
    ASSUME TaxTablesAssumption, TaxTypeOK, NEW to, DOMAIN to \subseteq User,
           uses' = Given(to), NEW t \in Table
    PROVE  /\ Cardinality(Users(t)') = Cardinality(Users(t)) - Left(t, to) + Joined(t, to)
           /\ Left(t, to) <= Cardinality(Users(t))
PROOF
<1> DEFINE L == {u \in DOMAIN to : uses[u] = t /\ to[u] # t}
           J == {u \in DOMAIN to : uses[u] # t /\ to[u] = t}
           U == Users(t)
<1>1. Users(t)' = (U \ L) \cup J
  BY DEF Users, Given, TaxTypeOK
<1>2. L \in SUBSET U /\ J \in SUBSET User /\ (U \ L) \cap J = {} /\ U \cap L = L
      /\ U \in SUBSET User
  BY DEF Users
<1>3. Left(t, to) = Cardinality(L) /\ Joined(t, to) = Cardinality(J)
  BY DEF Left, Joined
<1> HIDE DEF L, J, U
<1>4. /\ IsFiniteSet(U) /\ IsFiniteSet(J) /\ IsFiniteSet(U \ L) /\ IsFiniteSet(L)
      /\ Cardinality(U) \in Nat /\ Cardinality(J) \in Nat /\ Cardinality(L) \in Nat
  BY <1>2, UsersFinite
<1>5. Cardinality(U \ L) = Cardinality(U) - Cardinality(L)
  BY <1>2, <1>4, FS_Difference
<1>6. Cardinality((U \ L) \cup J) = Cardinality(U \ L) + Cardinality(J) - Cardinality({})
  BY <1>2, <1>4, FS_Union
<1>7. Cardinality(L) <= Cardinality(U)
  BY <1>2, <1>4, FS_Subset
<1>8. Cardinality({}) = 0
  BY FS_EmptySet
<1>9. Cardinality((U \ L) \cup J) = Cardinality(U) - Cardinality(L) + Cardinality(J)
  BY <1>4, <1>5, <1>6, <1>8
<1>10. QED BY <1>1, <1>3, <1>7, <1>9 DEF U

\* gncTaxTableIncRef and gncTaxTableDecRef keep the count of a table that is seen.
LEMMA CountKept ==
    ASSUME TaxTablesAssumption, TaxInv, NEW to, DOMAIN to \subseteq User,
           uses' = Given(to), NEW t \in Table, Visible(t)
    PROVE  IF backend = "xml" THEN Counted(t, to) = Cardinality(Users(t)')
           ELSE Counted(t, to) >= Cardinality(Users(t)')
PROOF
<1>1. /\ Cardinality(Users(t)') = Cardinality(Users(t)) - Left(t, to) + Joined(t, to)
      /\ Left(t, to) <= Cardinality(Users(t))
      /\ Left(t, to) \in Nat /\ Joined(t, to) \in Nat /\ Cardinality(Users(t)) \in Nat
  BY UsersAfter, CountsAreNat, UsersFinite DEF TaxInv
<1>2. table[t].refcount \in Nat /\ ~ table[t].invisible
  BY RowIs DEF Record, Visible, TaxInv
<1>3. Counted(t, to) = Less(table[t].refcount, Left(t, to)) + Joined(t, to)
  BY <1>2 DEF Counted
<1>4. IF backend = "xml" THEN table[t].refcount = Cardinality(Users(t))
      ELSE table[t].refcount >= Cardinality(Users(t))
  BY DEF TaxInv, RefcountExact
<1>5. QED BY <1>1, <1>2, <1>3, <1>4 DEF Less

\* A table that is not in use has no users.
LEMMA UnusedHasNoUsers ==
    ASSUME TaxTablesAssumption, TaxInv, NEW t \in Table, Visible(t), table[t].refcount = 0
    PROVE  Users(t) = {}
PROOF
<1>1. Cardinality(Users(t)) \in Nat /\ Cardinality(Users(t)) <= 0
  BY UsersFinite DEF TaxInv, RefcountExact
<1>2. QED BY <1>1, UsersFinite, FS_EmptySet

LEMMA StoresType ==
    ASSUME stored \in [Table -> Nat], NEW changed, Stores(changed),
           table' \in [Table -> Record \cup {None}]
    PROVE  stored' \in [Table -> Nat]
PROOF
<1>1. \A t \in Table : table'[t] # None => table'[t].refcount \in Nat
  BY DEF Record
<1>2. QED BY <1>1 DEF Stores

-----------------------------------------------------------------------------
(* The rows of entries and customers.                                      *)

\* No line or customer is stored, and no table a row refers to goes away.
LEMMA RowsUntouched ==
    ASSUME TaxTablesAssumption, TaxInv, UNCHANGED <<backend, uses, row>>,
           \A u \in User : row[u] # None => table'[row[u]] # None
    PROVE  row' \in [User -> Table \cup {None}] /\ RowsAgree'
BY DEF TaxInv, TaxTypeOK, RowsAgree, Exists

\* Lines and customers are stored, and no table goes away.
LEMMA RowsStored ==
    ASSUME TaxTablesAssumption, TaxInv, StoresUses, UNCHANGED backend,
           uses' \in [User -> Table \cup {None}],
           \A u \in User : uses'[u] # None => table'[uses'[u]] # None,
           \A t \in Table : Exists(t) => table'[t] # None
    PROVE  row' \in [User -> Table \cup {None}] /\ RowsAgree'
PROOF
<1>1. \A u \in User : row[u] \in Table \cup {None} /\ (row[u] # None => Exists(row[u]))
  BY DEF TaxInv, TaxTypeOK, RowsAgree
<1>2. \A u \in User :
         row'[u] = IF backend = "sql" /\ uses'[u] # None THEN uses'[u] ELSE row[u]
  BY DEF StoresUses
<1>3. row' \in [User -> Table \cup {None}]
  BY <1>1 DEF StoresUses
<1>4. \A u \in User : row'[u] # None => table'[row'[u]] # None
  BY <1>1, <1>2
<1>5. QED BY <1>2, <1>3, <1>4 DEF RowsAgree, Exists

-----------------------------------------------------------------------------
(* Steps that change the counts of the tables and nothing else of them.    *)

SameButCounts ==
    /\ table' \in [Table -> Record \cup {None}]
    /\ \A t \in Table :
         /\ Exists(t)' <=> Exists(t)
         /\ Exists(t) =>
              /\ table'[t].content = table[t].content /\ table'[t].parent = table[t].parent
              /\ table'[t].child = table[t].child
              /\ table'[t].invisible = table[t].invisible
              /\ table[t].invisible => table'[t].refcount = table[t].refcount

LEMMA SameButCountsKeeps ==
    ASSUME TaxTablesAssumption, TaxInv, SameButCounts,
           uses' \in [User -> Table \cup {None}],
           \A u \in User : uses'[u] # None => Exists(uses'[u]), \* as before the step
           posted' \subseteq Doc,
           backend = "xml" => \A l \in Line : DocOf[l] \in posted' /\ uses'[l] # None =>
                                 table[uses'[l]].invisible,
           \A l \in Line : DocOf[l] \in posted \cap posted' => uses'[l] = uses[l],
           stored' \in [Table -> Nat], UNCHANGED <<backend, edits>>,
           row' \in [User -> Table \cup {None}], RowsAgree',
           \A t \in Table : Visible(t) =>
              IF backend = "xml" THEN table'[t].refcount = Cardinality(Users(t)')
              ELSE table'[t].refcount >= Cardinality(Users(t)')
    PROVE  TaxInv' /\ KeepsPosted
PROOF
<1>1. \A t \in Table : (Visible(t)' <=> Visible(t)) /\ (Exists(t)' <=> Exists(t))
  BY DEF SameButCounts, Visible, Exists
<1>2. ASSUME NEW t \in Table, Exists(t)
      PROVE  /\ table'[t].content = table[t].content /\ table'[t].parent = table[t].parent
             /\ table'[t].child = table[t].child
             /\ table'[t].invisible = table[t].invisible
             /\ table[t].invisible => table'[t].refcount = table[t].refcount
             /\ table[t] \in Record
  BY <1>2, RowIs DEF SameButCounts, TaxInv
<1>3. TaxTypeOK'
  <2>1. \A t \in Table : Exists(t)' /\ table'[t].parent # None =>
          table'[t].invisible /\ table'[t].refcount = 0 /\ table'[t].child = None
    BY <1>1, <1>2 DEF TaxInv, TaxTypeOK
  <2>2. backend \in Backends /\ edits \in 0 .. MaxEdits
    BY DEF TaxInv, TaxTypeOK
  <2>3. QED BY <2>1, <2>2 DEF TaxTypeOK, SameButCounts
<1>4. NoDangling'
  <2>1. \A u \in User : uses'[u] # None => table'[uses'[u]] # None
    BY <1>1 DEF Exists
  <2>2. ASSUME NEW t \in Table, table'[t] # None
        PROVE  /\ table'[t].parent # None =>
                    table'[table'[t].parent] # None /\ ~ table'[table'[t].parent].invisible
               /\ table'[t].child # None => table'[table'[t].child] # None
    <3>1. Exists(t) BY <1>1, <2>2 DEF Exists, TaxTablesAssumption
    <3>2. table[t].parent \in Table \cup {None} /\ table[t].child \in Table \cup {None}
      BY <1>2, <3>1 DEF Record
    <3>3. /\ table[t].parent # None => Visible(table[t].parent)
          /\ table[t].child # None => Exists(table[t].child)
      BY <3>1 DEF TaxInv, NoDangling
    <3>4. table'[t].parent = table[t].parent /\ table'[t].child = table[t].child
      BY <1>2, <3>1
    <3>5. table[t].parent # None =>
            table'[table[t].parent] # None /\ ~ table'[table[t].parent].invisible
      BY <1>1, <3>2, <3>3 DEF Visible, Exists
    <3>6. table[t].child # None => table'[table[t].child] # None
      BY <1>1, <3>2, <3>3 DEF Exists
    <3>7. QED BY <3>4, <3>5, <3>6
  <2>3. QED BY <2>1, <2>2 DEF NoDangling, Exists, Visible
<1>5. RefcountExact'
  BY <1>1 DEF RefcountExact
<1>6. ChildIsCopy'
  <2>1. ASSUME NEW t \in Table, table'[t] # None, table'[t].child # None
        PROVE  /\ table'[table'[t].child] # None /\ table'[table'[t].child].invisible
               /\ table'[table'[t].child].parent = t
               /\ backend = "xml" => table'[table'[t].child].content = table'[t].content
    <3> DEFINE c == table[t].child
    <3>1. Exists(t) BY <1>1, <2>1 DEF Exists, TaxTablesAssumption
    <3>2. table'[t].child = c /\ c # None BY <1>2, <2>1, <3>1
    <3>3. c \in Table BY <1>2, <3>1, <3>2 DEF Record
    <3>4. Exists(c) /\ table[c].invisible /\ table[c].parent = t
          /\ (backend = "xml" => table[c].content = table[t].content)
      BY <3>1, <3>2 DEF TaxInv, ChildIsCopy
    <3> HIDE DEF c
    <3>5. table'[c] # None BY <1>1, <3>3, <3>4 DEF Exists
    <3>6. QED BY <1>2, <3>1, <3>2, <3>3, <3>4, <3>5
  <2>2. backend' = backend OBVIOUS
  <2>3. QED BY <2>1, <2>2 DEF ChildIsCopy, Exists
<1>7. PostedInvisible'
  BY <1>1, <1>2 DEF PostedInvisible, User
<1>8. KeepsPosted
  <2>1. ASSUME NEW l \in Line, DocOf[l] \in posted \cap posted', uses[l] # None
        PROVE  /\ uses'[l] = uses[l] /\ table'[uses[l]] # None
               /\ table'[uses[l]].content = table[uses[l]].content
    <3>1. uses[l] \in Table /\ Exists(uses[l])
      BY <2>1 DEF TaxInv, TaxTypeOK, NoDangling, User
    <3>2. QED BY <1>1, <1>2, <2>1, <3>1 DEF Exists
  <2>2. QED BY <2>1 DEF KeepsPosted
<1>9. QED BY <1>3, <1>4, <1>5, <1>6, <1>7, <1>8 DEF TaxInv

\* Users are given other tables, and the tables are recounted.
LEMMA RecountedKeeps ==
    ASSUME TaxTablesAssumption, TaxInv, NEW removed, NEW to, DOMAIN to \subseteq User,
           \A u \in DOMAIN to : to[u] \in Table \cup {None} /\ (to[u] # None => Exists(to[u])),
           \A l \in Line \cap DOMAIN to : DocOf[l] \notin posted',
           posted' \subseteq posted,
           table' = Recounted(to), uses' = Given(to), NEW changed, Stores(changed),
           \/ StoresUses
           \/ DOMAIN to = {removed} /\ to[removed] = None
              /\ row' = [row EXCEPT ![removed] = None],
           UNCHANGED <<backend, edits>>
    PROVE  TaxInv' /\ KeepsPosted
PROOF
<1>1. ASSUME NEW t \in Table
      PROVE  IF Exists(t) THEN /\ table'[t] = [table[t] EXCEPT !.refcount = Counted(t, to)]
                               /\ table[t] \in Record /\ Counted(t, to) \in Nat
             ELSE table'[t] = None
  BY RowIs, CountedIsNat DEF Recounted, TaxInv
<1>2. ASSUME NEW t \in Table, Exists(t)
      PROVE  /\ table'[t] \in Record
             /\ table'[t].content = table[t].content /\ table'[t].parent = table[t].parent
             /\ table'[t].child = table[t].child
             /\ table'[t].invisible = table[t].invisible
             /\ table'[t].refcount = Counted(t, to)
  <2> DEFINE n == Counted(t, to)
             r == table[t]
  <2>1. table'[t] = [r EXCEPT !.refcount = n] /\ r \in Record /\ n \in Nat
    BY <1>1, <1>2
  <2> HIDE DEF n, r
  <2>2. LET q == [r EXCEPT !.refcount = n] IN
        /\ q \in Record /\ q.content = r.content /\ q.parent = r.parent
        /\ q.child = r.child /\ q.invisible = r.invisible /\ q.refcount = n
    BY <2>1, RowRecounted
  <2>3. QED BY <2>1, <2>2 DEF n, r
<1>3. SameButCounts
  <2>1. table' \in [Table -> Record \cup {None}]
    <3>1. \A t \in Table : table'[t] \in Record \cup {None} BY <1>1, <1>2
    <3>2. table' = [t \in Table |-> table'[t]] BY DEF Recounted
    <3>3. QED BY <3>1, <3>2
  <2>2. \A t \in Table : Exists(t)' <=> Exists(t)
    BY <1>1, <1>2 DEF Exists, TaxTablesAssumption
  <2>3. \A t \in Table : Exists(t) /\ table[t].invisible => Counted(t, to) = table[t].refcount
    BY DEF Counted
  <2>4. QED BY <1>2, <2>1, <2>2, <2>3 DEF SameButCounts
<1>4. uses' \in [User -> Table \cup {None}]
      /\ \A u \in User : uses'[u] = IF u \in DOMAIN to THEN to[u] ELSE uses[u]
  BY DEF Given, TaxInv, TaxTypeOK
<1>5. \A u \in User : uses'[u] # None => Exists(uses'[u])
  BY <1>4 DEF TaxInv, NoDangling
<1>6. \A l \in Line : DocOf[l] \in posted' => l \notin DOMAIN to /\ uses'[l] = uses[l]
  BY <1>4 DEF User
<1>7. backend = "xml" =>
        \A l \in Line : DocOf[l] \in posted' /\ uses'[l] # None => table[uses'[l]].invisible
  BY <1>6 DEF TaxInv, PostedInvisible
<1>8. stored' \in [Table -> Nat]
  BY <1>3, StoresType DEF SameButCounts, TaxInv, TaxTypeOK
<1>9. \A t \in Table : Visible(t) =>
         IF backend = "xml" THEN table'[t].refcount = Cardinality(Users(t)')
         ELSE table'[t].refcount >= Cardinality(Users(t)')
  BY <1>2, CountKept DEF Visible
<1>10. posted' \subseteq Doc
  BY DEF TaxInv, TaxTypeOK
<1>11. \A t \in Table : Exists(t) => table'[t] # None
  BY <1>3 DEF SameButCounts, Exists
<1>12. row' \in [User -> Table \cup {None}] /\ RowsAgree'
  <2>1. \A u \in User : uses'[u] # None => table'[uses'[u]] # None
    BY <1>4, <1>5, <1>11
  <2>2. CASE StoresUses
    BY <1>4, <1>11, <2>1, <2>2, RowsStored
  <2>3. CASE DOMAIN to = {removed} /\ to[removed] = None
             /\ row' = [row EXCEPT ![removed] = None]
    <3>1. \A u \in User : row'[u] = IF u = removed THEN None ELSE row[u]
      BY <2>3 DEF TaxInv, TaxTypeOK
    <3>2. \A u \in User : row[u] \in Table \cup {None}
                           /\ (row[u] # None => table'[row[u]] # None)
      BY <1>11 DEF TaxInv, TaxTypeOK, RowsAgree
    <3>3. row' \in [User -> Table \cup {None}]
      BY <2>3, <3>2 DEF TaxInv, TaxTypeOK
    <3>4. ASSUME backend = "sql", NEW u \in User, uses'[u] # None
          PROVE  row'[u] = uses'[u]
      <4>1. u # removed /\ uses'[u] = uses[u] BY <1>4, <2>3, <3>4
      <4>2. QED BY <3>1, <3>4, <4>1 DEF TaxInv, RowsAgree
    <3>5. QED BY <3>1, <3>2, <3>3, <3>4 DEF RowsAgree, Exists
  <2>4. QED BY <2>2, <2>3
<1>13. QED
  BY <1>3, <1>4, <1>5, <1>6, <1>7, <1>8, <1>9, <1>10, <1>12, SameButCountsKeeps

LEMMA ChooseStep ==
    ASSUME TaxTablesAssumption, TaxInv, NEW u \in User, NEW t \in Table \cup {None},
           Choose(u, t)
    PROVE  TaxInv' /\ KeepsPosted
PROOF
<1> DEFINE to == Only(u, t)
<1>1. DOMAIN to = {u} /\ to[u] = t
  BY DEF Only
<1>2. table' = Recounted(to) /\ uses' = Given(to) /\ UNCHANGED <<backend, posted, edits>>
      /\ Stores({s \in Table : Left(s, to) + Joined(s, to) > 0})
      /\ (u \in Line => DocOf[u] \notin posted) /\ (t = None \/ Visible(t)) /\ StoresUses
  BY DEF Choose, Assign, Editable
<1> HIDE DEF to
<1>3. QED BY <1>1, <1>2, RecountedKeeps DEF Visible

LEMMA RemoveStep ==
    ASSUME TaxTablesAssumption, TaxInv, NEW l \in Line, Remove(l)
    PROVE  TaxInv' /\ KeepsPosted
PROOF
<1> DEFINE to == Only(l, None)
<1>1. DOMAIN to = {l} /\ to[l] = None
  BY DEF Only
<1>2. table' = Recounted(to) /\ uses' = Given(to) /\ UNCHANGED <<backend, posted, edits>>
      /\ Stores({s \in Table : Left(s, to) + Joined(s, to) > 0})
      /\ DocOf[l] \notin posted /\ row' = [row EXCEPT ![l] = None]
  BY DEF Remove, Assign, Editable
<1> HIDE DEF to
<1>3. QED BY <1>1, <1>2, RecountedKeeps DEF User

LEMMA CopyStep ==
    ASSUME TaxTablesAssumption, TaxInv, NEW from \in Line, NEW to \in Line, Copy(from, to)
    PROVE  TaxInv' /\ KeepsPosted
PROOF
<1> DEFINE given == Only(to, uses[from])
<1>1. DOMAIN given = {to} /\ given[to] = uses[from]
  BY DEF Only
<1>2. table' = Recounted(given) /\ uses' = Given(given) /\ UNCHANGED <<backend, posted, edits>>
      /\ Stores({s \in Table : Left(s, given) + Joined(s, given) > 0})
      /\ DocOf[to] \notin posted /\ StoresUses
  BY DEF Copy, Assign, Editable
<1>3. uses[from] \in Table \cup {None} /\ (uses[from] # None => Exists(uses[from]))
  BY DEF TaxInv, TaxTypeOK, NoDangling, User
<1> HIDE DEF given
<1>4. QED BY <1>1, <1>2, <1>3, RecountedKeeps DEF User

LEMMA UnpostStep ==
    ASSUME TaxTablesAssumption, TaxInv, NEW d \in Doc, Unpost(d)
    PROVE  TaxInv' /\ KeepsPosted
PROOF
<1> DEFINE to == [l \in Lines(d) |-> IF uses[l] = None THEN None ELSE table[uses[l]].parent]
<1>1. posted' = posted \ {d} /\ UNCHANGED <<backend, edits>>
  BY DEF Unpost
<1>2. CASE table' = Recounted(to) /\ uses' = Given(to)
           /\ Stores({t \in Table : Left(t, to) + Joined(t, to) > 0}) /\ StoresUses
  <2>1. DOMAIN to = Lines(d) /\ Lines(d) \subseteq User
    BY DEF Lines, User
  <2>2. ASSUME NEW u \in Lines(d)
        PROVE  to[u] \in Table \cup {None} /\ (to[u] # None => Exists(to[u]))
    <3>1. u \in User BY <2>1
    <3>2. CASE uses[u] # None
      <4>1. uses[u] \in Table /\ Exists(uses[u])
        BY <3>1, <3>2 DEF TaxInv, TaxTypeOK, NoDangling
      <4>2. table[uses[u]].parent \in Table \cup {None}
        BY <4>1, RowIs DEF TaxInv, Record
      <4>3. QED BY <3>2, <4>1, <4>2 DEF TaxInv, NoDangling, Visible
    <3>3. QED BY <3>2
  <2>3. \A l \in Line \cap DOMAIN to : DocOf[l] \notin posted'
    BY <1>1, <2>1 DEF Lines
  <2> HIDE DEF to
  <2>4. QED BY <1>1, <1>2, <2>1, <2>2, <2>3, RecountedKeeps
<1>3. CASE UNCHANGED <<table, uses, stored, row>>
  BY <1>1, <1>3 DEF TaxInv, TaxTypeOK, NoDangling, RefcountExact, ChildIsCopy,
     PostedInvisible, RowsAgree, KeepsPosted, Exists, Visible, Users, User
<1>4. QED BY <1>2, <1>3 DEF Unpost

-----------------------------------------------------------------------------
(* The dialog.                                                             *)

\* A free table has no users, is no child and no parent.
LEMMA FreeIsUnknown ==
    ASSUME TaxTablesAssumption, TaxInv, NEW t \in Free
    PROVE  /\ table[t] = None /\ Users(t) = {}
           /\ \A s \in Table : Exists(s) => table[s].parent # t /\ table[s].child # t
           /\ \A u \in User : row[u] # t
PROOF
<1>1. t \in Table /\ t # None /\ table[t] = None
  BY DEF Free, Exists, TaxTablesAssumption
<1>2. QED BY <1>1 DEF TaxInv, NoDangling, RowsAgree, Exists, Visible, Users

LEMMA CreateStep ==
    ASSUME TaxTablesAssumption, TaxInv, NEW t \in Table, Create(t)
    PROVE  TaxInv' /\ KeepsPosted
PROOF
<1> DEFINE r == NewTable(edits')
<1>1. /\ table' = [table EXCEPT ![t] = r] /\ Stores({t}) /\ t \in Free
      /\ UNCHANGED <<backend, uses, posted, row>>
  BY DEF Create
<1>2. edits' \in 1 .. MaxEdits /\ edits' \in 0 .. MaxEdits
  BY DEF Create, TaxInv, TaxTypeOK, TaxTablesAssumption
<1>3. r \in Record /\ r # None /\ r.parent = None /\ r.child = None /\ ~ r.invisible
      /\ r.refcount = 0
  <2>1. r \in Record BY <1>2 DEF NewTable, Record
  <2>2. QED BY <2>1 DEF NewTable, TaxTablesAssumption
<1> HIDE DEF r
<1>4. /\ table[t] = None /\ Users(t) = {}
      /\ \A s \in Table : Exists(s) => table[s].parent # t /\ table[s].child # t
      /\ \A u \in User : row[u] # t
  BY <1>1, FreeIsUnknown
<1>5. \A s \in Table : table'[s] = IF s = t THEN r ELSE table[s]
  BY <1>1 DEF TaxInv, TaxTypeOK
<1>6. \A s : Users(s)' = Users(s)
  BY <1>1 DEF Users
<1>15. row' \in [User -> Table \cup {None}] /\ RowsAgree'
  <2>1. \A u \in User : row[u] # None => table'[row[u]] # None
    BY <1>4, <1>5 DEF TaxInv, TaxTypeOK, RowsAgree, Exists
  <2>2. QED BY <1>1, <2>1, RowsUntouched
<1>7. TaxTypeOK'
  <2>1. table' \in [Table -> Record \cup {None}]
    BY <1>1, <1>3 DEF TaxInv, TaxTypeOK
  <2>2. stored' \in [Table -> Nat]
    BY <1>1, <2>1, StoresType DEF TaxInv, TaxTypeOK
  <2>3. QED BY <1>1, <1>2, <1>3, <1>5, <1>15, <2>1, <2>2 DEF TaxInv, TaxTypeOK, Exists
<1>8. NoDangling'
  BY <1>1, <1>3, <1>4, <1>5 DEF TaxInv, TaxTypeOK, NoDangling, Exists, Visible, Record
<1>9. RefcountExact'
  <2>1. Cardinality(Users(t)) = 0 BY <1>4, FS_EmptySet
  <2>2. QED BY <1>1, <1>3, <1>5, <1>6, <2>1 DEF TaxInv, RefcountExact, Exists, Visible
<1>10. ChildIsCopy'
  <2>1. ASSUME NEW s \in Table, s # t, Exists(s), table[s].child # None
        PROVE  table[s].child \in Table /\ table[s].child # t
    BY <1>4, <2>1, RowIs DEF TaxInv, Record
  <2>2. QED BY <1>1, <1>3, <1>5, <2>1 DEF TaxInv, ChildIsCopy, Exists
<1>11. \A l \in Line : uses[l] # None => uses[l] \in Table /\ uses[l] # t
  BY <1>4 DEF TaxInv, TaxTypeOK, Users, User
<1>12. PostedInvisible'
  BY <1>1, <1>5, <1>11 DEF TaxInv, PostedInvisible
<1>13. KeepsPosted
  BY <1>1, <1>5, <1>11 DEF TaxInv, NoDangling, Exists, KeepsPosted, User
<1>14. QED BY <1>7, <1>8, <1>9, <1>10, <1>12, <1>13, <1>15 DEF TaxInv

LEMMA EditStep ==
    ASSUME TaxTablesAssumption, TaxInv, NEW t \in Table, Edit(t)
    PROVE  TaxInv' /\ KeepsPosted
PROOF
<1> DEFINE r == [table[t] EXCEPT !.content = edits', !.child = None]
<1>1. /\ table' = [table EXCEPT ![t].content = edits', ![t].child = None] /\ Stores({t})
      /\ Visible(t) /\ UNCHANGED <<backend, uses, posted, row>>
  BY DEF Edit
<1>2. edits' \in 1 .. MaxEdits /\ edits' \in 0 .. MaxEdits
  BY DEF Edit, TaxInv, TaxTypeOK, TaxTablesAssumption
<1>3. table[t] \in Record /\ Exists(t) /\ ~ table[t].invisible
  BY <1>1, RowIs DEF Visible, TaxInv
<1>4. r \in Record /\ r # None /\ r.parent = table[t].parent /\ r.child = None
      /\ r.invisible = table[t].invisible /\ r.refcount = table[t].refcount
  BY <1>2, <1>3 DEF Record, TaxTablesAssumption
<1>5. \A s \in Table : table'[s] = IF s = t THEN r ELSE table[s]
  BY <1>1 DEF TaxInv, TaxTypeOK
<1> HIDE DEF r
<1>6. \A s : Users(s)' = Users(s)
  BY <1>1 DEF Users
<1>7. \A s \in Table : (Exists(s)' <=> Exists(s)) /\ (Visible(s)' <=> Visible(s))
  BY <1>3, <1>4, <1>5 DEF Exists, Visible
<1>17. row' \in [User -> Table \cup {None}] /\ RowsAgree'
  <2>1. \A u \in User : row[u] # None => table'[row[u]] # None
    BY <1>7 DEF TaxInv, TaxTypeOK, RowsAgree, Exists
  <2>2. QED BY <1>1, <2>1, RowsUntouched
<1>8. TaxTypeOK'
  <2>1. table' \in [Table -> Record \cup {None}]
    <3>1. \A s \in Table : table'[s] \in Record \cup {None}
      BY <1>4, <1>5 DEF TaxInv, TaxTypeOK
    <3>2. table' = [s \in Table |-> table'[s]]
      BY <1>1 DEF TaxInv, TaxTypeOK
    <3>3. QED BY <3>1, <3>2
  <2>2. stored' \in [Table -> Nat]
    BY <1>1, <2>1, StoresType DEF TaxInv, TaxTypeOK
  <2>3. QED BY <1>1, <1>2, <1>3, <1>4, <1>5, <1>17, <2>1, <2>2 DEF TaxInv, TaxTypeOK, Exists
<1>9. \A s \in Table : Exists(s) => table[s].parent \in Table \cup {None}
                                    /\ table[s].child \in Table \cup {None}
  BY RowIs DEF TaxInv, Record
<1>10. NoDangling'
  <2>1. \A u \in User : uses[u] # None => table'[uses[u]] # None
    BY <1>7 DEF TaxInv, TaxTypeOK, NoDangling, Exists
  <2>2. ASSUME NEW s \in Table, Exists(s)
        PROVE  /\ table[s].parent # None =>
                    table'[table[s].parent] # None /\ ~ table'[table[s].parent].invisible
               /\ table[s].child # None => table'[table[s].child] # None
    BY <1>7, <1>9, <2>2 DEF TaxInv, NoDangling, Exists, Visible
  <2>3. \A s \in Table : table'[s] # None => Exists(s) /\ table'[s].parent = table[s].parent
                                /\ (table'[s].child # None => table'[s].child = table[s].child)
    BY <1>3, <1>4, <1>5 DEF Exists, TaxTablesAssumption
  <2>4. QED BY <1>1, <2>1, <2>2, <2>3 DEF NoDangling, Exists, Visible
<1>11. RefcountExact'
  BY <1>1, <1>4, <1>5, <1>6, <1>7 DEF TaxInv, RefcountExact
<1>12. ChildIsCopy'
  <2>1. ASSUME NEW s \in Table, Exists(s), table[s].child # None
        PROVE  table[s].child \in Table /\ table[s].child # t
    BY <1>3, <1>9, <2>1 DEF TaxInv, ChildIsCopy
  <2>2. ASSUME NEW s \in Table, table'[s] # None, table'[s].child # None
        PROVE  /\ table'[table'[s].child] # None /\ table'[table'[s].child].invisible
               /\ table'[table'[s].child].parent = s
               /\ backend = "xml" => table'[table'[s].child].content = table'[s].content
    <3>1. s # t /\ Exists(s) /\ table'[s] = table[s]
      BY <1>4, <1>5, <2>2 DEF Exists, TaxTablesAssumption
    <3>2. table'[table[s].child] = table[table[s].child]
      BY <1>5, <2>1, <2>2, <3>1
    <3>3. QED BY <2>2, <3>1, <3>2 DEF TaxInv, ChildIsCopy, Exists
  <2>3. backend' = backend BY <1>1
  <2>4. QED BY <2>2, <2>3 DEF ChildIsCopy, Exists
<1>13. \A l \in Line : uses[l] # None => uses[l] \in Table /\ Exists(uses[l])
  BY DEF TaxInv, TaxTypeOK, NoDangling, User
<1>14. PostedInvisible'
  BY <1>1, <1>4, <1>5, <1>13 DEF TaxInv, PostedInvisible
<1>15. KeepsPosted
  <2>1. ASSUME NEW l \in Line, DocOf[l] \in posted, uses[l] # None
        PROVE  /\ table'[uses[l]] # None
               /\ \/ table'[uses[l]].content = table[uses[l]].content
                  \/ backend = "sql" /\ Visible(uses[l])
    <3>1. uses[l] \in Table /\ Exists(uses[l]) BY <1>13, <2>1
    <3>2. CASE uses[l] # t BY <1>5, <3>1, <3>2 DEF Exists
    <3>3. CASE uses[l] = t
      <4>1. backend # "xml" BY <1>3, <2>1, <3>3 DEF TaxInv, PostedInvisible
      <4>2. backend = "sql" BY <4>1 DEF TaxInv, TaxTypeOK, TaxTablesAssumption
      <4>3. QED BY <1>1, <1>4, <1>5, <3>3, <4>2
    <3>4. QED BY <3>2, <3>3
  <2>2. QED BY <1>1, <2>1 DEF KeepsPosted
<1>16. QED BY <1>8, <1>10, <1>11, <1>12, <1>14, <1>15, <1>17 DEF TaxInv

LEMMA DeleteStep ==
    ASSUME TaxTablesAssumption, TaxInv, NEW t \in Table, Delete(t)
    PROVE  TaxInv' /\ KeepsPosted
PROOF
<1> DEFINE Orphan(s) == [table[s] EXCEPT !.parent = None, !.refcount = 0, !.invisible = TRUE]
<1>1. /\ table' = [s \in Table |-> IF s = t THEN None
                                   ELSE IF Exists(s) /\ table[s].parent = t THEN Orphan(s)
                                        ELSE table[s]]
      /\ Stores(Children(t)) /\ Visible(t) /\ UNCHANGED <<backend, uses, posted, edits>>
      /\ row' = [u \in User |-> IF row[u] = t THEN None ELSE row[u]]
  BY DEF Delete
<1>2. Users(t) = {}
  BY <1>1, UnusedHasNoUsers DEF Delete
<1>3. Exists(t) /\ t # None /\ ~ table[t].invisible
  BY <1>1 DEF Visible, TaxTablesAssumption
<1>4. \A s \in Table : Exists(s) => table[s].parent \in Table \cup {None}
                                    /\ table[s].child \in Table \cup {None}
  BY RowIs DEF TaxInv, Record
<1>5. ASSUME NEW s \in Table, Exists(s), table[s].parent = t
      PROVE  /\ Orphan(s) \in Record /\ Orphan(s).parent = None /\ Orphan(s).invisible
             /\ Orphan(s).refcount = 0 /\ Orphan(s).content = table[s].content
             /\ Orphan(s).child = None /\ table[s].child = None /\ table[s].invisible
  <2>1. table[s] \in Record /\ table[s].child = None /\ table[s].invisible
    BY <1>3, <1>5, RowIs DEF TaxInv, TaxTypeOK
  <2>2. QED BY <2>1 DEF Record
<1>6. ASSUME NEW s \in Table
      PROVE  table'[s] = IF s = t THEN None
                         ELSE IF Exists(s) /\ table[s].parent = t THEN Orphan(s) ELSE table[s]
  BY <1>1
<1> HIDE DEF Orphan
<1>7. ASSUME NEW s \in Table
      PROVE  /\ table'[s] # None <=> s # t /\ Exists(s)
             /\ table'[s] # None =>
                  /\ table'[s] \in Record
                  /\ table'[s].content = table[s].content /\ table'[s].child = table[s].child
                  /\ table'[s].invisible = table[s].invisible
                  /\ table'[s].parent = IF table[s].parent = t THEN None ELSE table[s].parent
                  /\ table[s].parent # t => table'[s] = table[s]
  <2>1. CASE s = t BY <1>6, <2>1
  <2>2. CASE s # t /\ Exists(s) /\ table[s].parent = t
    <3>1. Orphan(s) \in Record /\ Orphan(s).parent = None /\ Orphan(s).invisible
          /\ Orphan(s).content = table[s].content /\ Orphan(s).child = table[s].child
          /\ table[s].invisible
      BY <1>5, <2>2
    <3>2. table'[s] = Orphan(s) BY <1>6, <2>2
    <3>3. QED BY <2>2, <3>1, <3>2 DEF TaxTablesAssumption
  <2>3. CASE s # t /\ Exists(s) /\ table[s].parent # t
    BY <1>6, <2>3, RowIs DEF TaxInv, Exists
  <2>4. CASE s # t /\ ~ Exists(s)
    BY <1>6, <2>4 DEF Exists, TaxTablesAssumption
  <2>5. QED BY <2>1, <2>2, <2>3, <2>4
<1>16. row' \in [User -> Table \cup {None}] /\ RowsAgree'
  <2>1. \A u \in User : row'[u] = IF row[u] = t THEN None ELSE row[u]
    BY <1>1
  <2>2. \A u \in User : row[u] \in Table \cup {None} /\ (row[u] # None => Exists(row[u]))
    BY DEF TaxInv, TaxTypeOK, RowsAgree
  <2>3. row' \in [User -> Table \cup {None}]
    BY <1>1, <2>2
  <2>4. \A u \in User : row'[u] # None => table'[row'[u]] # None
    BY <1>7, <2>1, <2>2
  <2>5. backend = "sql" => \A u \in User : uses[u] # None => row'[u] = uses[u]
    BY <1>2, <2>1 DEF TaxInv, RowsAgree, Users
  <2>6. QED BY <1>1, <2>3, <2>4, <2>5 DEF RowsAgree, Exists
<1>8. TaxTypeOK'
  <2>1. table' \in [Table -> Record \cup {None}]
    <3>1. \A s \in Table : table'[s] \in Record \cup {None} BY <1>7
    <3>2. table' = [s \in Table |-> table'[s]] BY <1>1
    <3>3. QED BY <3>1, <3>2
  <2>2. stored' \in [Table -> Nat]
    BY <1>1, <2>1, StoresType DEF TaxInv, TaxTypeOK
  <2>3. \A s \in Table : table'[s] # None /\ table'[s].parent # None =>
          table'[s].invisible /\ table'[s].refcount = 0 /\ table'[s].child = None
    BY <1>7 DEF TaxInv, TaxTypeOK
  <2>4. QED BY <1>1, <1>16, <2>1, <2>2, <2>3 DEF TaxInv, TaxTypeOK, Exists
<1>9. \A u \in User : uses[u] # None => uses[u] \in Table /\ uses[u] # t /\ Exists(uses[u])
  BY <1>2 DEF TaxInv, TaxTypeOK, NoDangling, Users
<1>10. ASSUME NEW s \in Table, Exists(s), table[s].child # None
       PROVE  /\ table[s].child \in Table /\ table[s].child # t /\ Exists(table[s].child)
              /\ table[table[s].child].invisible /\ table[table[s].child].parent = s
              /\ backend = "xml" => table[table[s].child].content = table[s].content
  BY <1>3, <1>4, <1>10 DEF TaxInv, ChildIsCopy
<1>11. NoDangling'
  <2>1. \A u \in User : uses[u] # None => table'[uses[u]] # None
    BY <1>7, <1>9
  <2>2. ASSUME NEW s \in Table, table'[s] # None
        PROVE  /\ table'[s].parent # None =>
                    table'[table'[s].parent] # None /\ ~ table'[table'[s].parent].invisible
               /\ table'[s].child # None => table'[table'[s].child] # None
    <3>1. Exists(s) /\ s # t BY <1>7, <2>2
    <3>2. ASSUME table'[s].parent # None
          PROVE  table'[table'[s].parent] # None /\ ~ table'[table'[s].parent].invisible
      <4>1. table'[s].parent = table[s].parent /\ table[s].parent # t BY <1>7, <2>2, <3>2
      <4>2. Visible(table[s].parent) /\ table[s].parent \in Table
        BY <1>4, <3>1, <3>2, <4>1 DEF TaxInv, NoDangling
      <4>3. table'[table[s].parent] # None /\ ~ table'[table[s].parent].invisible
        BY <1>7, <4>1, <4>2 DEF Visible
      <4>4. QED BY <4>1, <4>3
    <3>3. ASSUME table'[s].child # None PROVE table'[table'[s].child] # None
      BY <1>7, <1>10, <2>2, <3>1, <3>3
    <3>4. QED BY <3>2, <3>3
  <2>3. QED BY <1>1, <2>1, <2>2 DEF NoDangling, Exists, Visible
<1>12. RefcountExact'
  <2>1. ASSUME NEW s \in Table, table'[s] # None, ~ table'[s].invisible
        PROVE  table'[s] = table[s] /\ Visible(s)
    <3>1. Exists(s) /\ ~ table[s].invisible BY <1>7, <2>1
    <3>2. table[s].parent # t BY <1>5, <3>1
    <3>3. QED BY <1>7, <2>1, <3>1, <3>2 DEF Visible
  <2>2. \A s : Users(s)' = Users(s) BY <1>1 DEF Users
  <2>3. QED BY <1>1, <2>1, <2>2 DEF TaxInv, RefcountExact, Visible, Exists
<1>13. ChildIsCopy'
  <2>1. ASSUME NEW s \in Table, table'[s] # None, table'[s].child # None
        PROVE  /\ table'[table'[s].child] # None /\ table'[table'[s].child].invisible
               /\ table'[table'[s].child].parent = s
               /\ backend = "xml" => table'[table'[s].child].content = table'[s].content
    <3>1. Exists(s) /\ s # t /\ table'[s].child = table[s].child
          /\ table'[s].content = table[s].content
      BY <1>7, <2>1
    <3>2. table'[table[s].child] = table[table[s].child]
          /\ table'[table[s].child] # None
      BY <1>7, <1>10, <2>1, <3>1
    <3>3. QED BY <1>10, <2>1, <3>1, <3>2
  <2>2. backend' = backend BY <1>1
  <2>3. QED BY <2>1, <2>2 DEF ChildIsCopy, Exists
<1>14. PostedInvisible' /\ KeepsPosted
  <2>1. \A l \in Line : uses[l] # None =>
          /\ table'[uses[l]] # None /\ table'[uses[l]].content = table[uses[l]].content
          /\ table'[uses[l]].invisible = table[uses[l]].invisible
    BY <1>7, <1>9 DEF User
  <2>2. QED BY <1>1, <2>1 DEF TaxInv, PostedInvisible, KeepsPosted
<1>15. QED BY <1>8, <1>11, <1>12, <1>13, <1>14, <1>16 DEF TaxInv

-----------------------------------------------------------------------------
(* Posting a document.                                                     *)

LEMMA PostStep ==
    ASSUME TaxTablesAssumption, TaxInv, NEW d \in Doc, Post(d)
    PROVE  TaxInv' /\ KeepsPosted
PROOF
<1>1. PICK fresh \in Injection(Childless(d), Free) :
        LET to == [l \in Lines(d) |-> ReturnChild(uses[l], fresh)]
            made == Range(fresh)
        IN
        /\ table' = [t \in Table |->
              IF t \in made THEN ChildOf(CHOOSE p \in DOMAIN fresh : fresh[p] = t)
              ELSE IF ~ Exists(t) THEN None
              ELSE [table[t] EXCEPT
                      !.child = IF t \in DOMAIN fresh THEN fresh[t] ELSE @,
                      !.refcount = Counted(t, to)]]
        /\ uses' = Given(to)
        /\ Stores(made \cup {t \in Table : Left(t, to) > 0})
        /\ StoresUses
  BY DEF Post
<1> DEFINE A == Childless(d)
           to == [l \in Lines(d) |-> ReturnChild(uses[l], fresh)]
           made == Range(fresh)
           P(t) == CHOOSE p \in DOMAIN fresh : fresh[p] = t
           C(t) == IF t \in DOMAIN fresh THEN fresh[t] ELSE table[t].child
<1>2. /\ d \notin posted /\ posted' = posted \cup {d} /\ UNCHANGED <<backend, edits>>
      /\ uses' = Given(to) /\ Stores(made \cup {t \in Table : Left(t, to) > 0})
      /\ StoresUses
  BY <1>1 DEF Post
<1>3. fresh \in [A -> Free] /\ \A p, q \in A : fresh[p] = fresh[q] => p = q
  BY DEF Injection, IsInjective
<1>4. \A t \in made : P(t) \in A /\ fresh[P(t)] = t /\ t \in Table /\ table[t] = None
  BY <1>3 DEF Range, Free, Exists, TaxTablesAssumption
<1>5. \A p \in A : fresh[p] \in made /\ fresh[p] \in Table /\ P(fresh[p]) = p
  <2>1. \A p \in A : fresh[p] \in made /\ fresh[p] \in Table BY <1>3 DEF Range, Free
  <2>2. QED BY <1>3, <1>4, <2>1
<1>6. DOMAIN to = Lines(d) /\ Lines(d) \subseteq Line /\ Lines(d) \subseteq User
      /\ \A l \in Line : l \in Lines(d) <=> DocOf[l] = d
  BY DEF Lines, User
<1>7. \A u \in User : uses[u] \in Table \cup {None} /\ (uses[u] # None => Exists(uses[u]))
  BY DEF TaxInv, TaxTypeOK, NoDangling
<1>8. ASSUME NEW p \in A
      PROVE  /\ p \in Table /\ Exists(p) /\ ~ table[p].invisible /\ table[p].child = None
             /\ table[p].content \in 1 .. MaxEdits /\ table[p].parent = None
  <2>1. PICK l \in Lines(d) : p = uses[l] /\ p # None /\ table[p].child = None
                              /\ ~ table[p].invisible
    BY DEF Childless
  <2>2. p \in Table /\ Exists(p) BY <1>6, <1>7, <2>1
  <2>3. QED BY <2>1, <2>2, RowIs DEF TaxInv, TaxTypeOK, Record
<1>9. ASSUME NEW t \in Table
      PROVE  table'[t] = IF t \in made THEN ChildOf(P(t))
                         ELSE IF ~ Exists(t) THEN None
                         ELSE [table[t] EXCEPT !.child = C(t), !.refcount = Counted(t, to)]
  BY <1>1
<1>10. table' = [t \in Table |-> table'[t]]
  <2> DEFINE Row(t) == IF t \in made THEN ChildOf(P(t))
                       ELSE IF ~ Exists(t) THEN None
                       ELSE [table[t] EXCEPT !.child = C(t), !.refcount = Counted(t, to)]
  <2>1. table' = [t \in Table |-> Row(t)] BY <1>1
  <2> HIDE DEF Row
  <2>2. QED BY <2>1
<1>11. DOMAIN fresh = A BY <1>3
<1>12. ASSUME NEW l \in Lines(d)
       PROVE  to[l] = IF uses[l] # None /\ uses[l] \in A THEN fresh[uses[l]]
                      ELSE IF uses[l] # None /\ table[uses[l]].child # None
                           THEN table[uses[l]].child ELSE uses[l]
  BY <1>11 DEF ReturnChild
<1>13. \A l \in Lines(d) : uses[l] # None =>
          uses[l] \in A \/ table[uses[l]].child # None \/ table[uses[l]].invisible
  BY DEF Childless
<1> HIDE DEF A, to, made, P
<1>14. ASSUME NEW t \in made
       PROVE  /\ table'[t] \in Record /\ table'[t] # None /\ table'[t].invisible
              /\ table'[t].refcount = 0 /\ table'[t].child = None /\ table'[t].parent = P(t)
              /\ table'[t].content = table[P(t)].content /\ t \in Table /\ ~ Exists(t)
              /\ P(t) \in A /\ fresh[P(t)] = t
  <2>1. table'[t] = ChildOf(P(t)) /\ t \in Table /\ table[t] = None
        /\ P(t) \in A /\ fresh[P(t)] = t
    BY <1>4, <1>9
  <2>2. P(t) \in Table /\ table[P(t)].content \in 1 .. MaxEdits
    BY <1>8, <2>1
  <2>3. ChildOf(P(t)) \in Record
    BY <2>2 DEF ChildOf, NewTable, Record
  <2>4. QED BY <2>1, <2>3 DEF ChildOf, NewTable, Exists, TaxTablesAssumption
<1>15. ASSUME NEW t \in Table, Exists(t)
       PROVE  /\ t \notin made /\ table[t] \in Record
              /\ table'[t] \in Record /\ table'[t] # None
              /\ table'[t].content = table[t].content /\ table'[t].parent = table[t].parent
              /\ table'[t].child = C(t)
              /\ table'[t].invisible = table[t].invisible
              /\ table'[t].refcount = Counted(t, to)
  <2> DEFINE n == Counted(t, to)
             r == table[t]
             c == C(t)
  <2>1. r \in Record /\ n \in Nat
    BY <1>6, <1>15, RowIs, CountedIsNat DEF TaxInv
  <2>2. c \in Table \cup {None}
    BY <1>3, <1>5, <2>1 DEF Record
  <2>3. t \notin made BY <1>4, <1>15 DEF Exists
  <2>4. table'[t] = [r EXCEPT !.child = c, !.refcount = n]
    BY <1>9, <1>15, <2>3
  <2> HIDE DEF n, r, c
  <2>5. LET q == [r EXCEPT !.child = c, !.refcount = n] IN
        /\ q \in Record /\ q.content = r.content /\ q.parent = r.parent
        /\ q.child = c /\ q.invisible = r.invisible /\ q.refcount = n
    BY <2>1, <2>2 DEF Record
  <2>6. QED BY <2>1, <2>3, <2>4, <2>5 DEF n, r, c, TaxTablesAssumption
<1>16. ASSUME NEW t \in Table, table'[t] # None
       PROVE  t \in made \/ Exists(t)
  BY <1>9, <1>16
<1> HIDE DEF C
<1>17. ASSUME NEW t \in Table, Exists(t), t \in A
       PROVE  C(t) = fresh[t] /\ C(t) # None
  BY <1>5, <1>11, <1>17 DEF C, TaxTablesAssumption
<1>18. ASSUME NEW t \in Table, Exists(t), t \notin A
       PROVE  C(t) = table[t].child
  BY <1>11, <1>18 DEF C
<1>19. ASSUME NEW t \in Table, Exists(t), table[t].child # None
       PROVE  /\ table[t].child \in Table /\ Exists(table[t].child)
              /\ table[table[t].child].invisible /\ table[table[t].child].parent = t
              /\ backend = "xml" => table[table[t].child].content = table[t].content
  BY <1>15, <1>19 DEF TaxInv, ChildIsCopy, Record
<1>20. ASSUME NEW l \in Lines(d)
       PROVE  /\ to[l] \in Table \cup {None}
              /\ to[l] # None => table'[to[l]] # None /\ table'[to[l]].invisible
  <2>1. l \in User BY <1>6
  <2>2. CASE uses[l] = None BY <1>12, <2>2
  <2>3. CASE uses[l] # None /\ uses[l] \in A
    BY <1>5, <1>12, <1>14, <2>3
  <2>4. CASE uses[l] # None /\ uses[l] \notin A /\ table[uses[l]].child # None
    <3>1. to[l] = table[uses[l]].child BY <1>12, <2>4
    <3>2. uses[l] \in Table /\ Exists(uses[l]) BY <1>7, <2>1, <2>4
    <3>3. table[uses[l]].child \in Table /\ Exists(table[uses[l]].child)
          /\ table[table[uses[l]].child].invisible
      BY <1>19, <2>4, <3>2
    <3>4. QED BY <1>15, <3>1, <3>3
  <2>5. CASE uses[l] # None /\ uses[l] \notin A /\ table[uses[l]].child = None
    <3>1. to[l] = uses[l] /\ table[uses[l]].invisible BY <1>12, <1>13, <2>5
    <3>2. uses[l] \in Table /\ Exists(uses[l]) BY <1>7, <2>1, <2>5
    <3>3. QED BY <1>15, <3>1, <3>2
  <2>6. QED BY <2>2, <2>3, <2>4, <2>5
<1>21. uses' \in [User -> Table \cup {None}]
       /\ \A u \in User : uses'[u] = IF u \in Lines(d) THEN to[u] ELSE uses[u]
  BY <1>2, <1>6, <1>7, <1>20 DEF Given
<1>29. row' \in [User -> Table \cup {None}] /\ RowsAgree'
  <2>1. \A u \in User : uses'[u] # None => table'[uses'[u]] # None
    BY <1>7, <1>15, <1>20, <1>21
  <2>2. QED BY <1>2, <1>15, <1>21, <2>1, RowsStored
<1>22. TaxTypeOK'
  <2>1. table' \in [Table -> Record \cup {None}]
    BY <1>10, <1>14, <1>15, <1>16
  <2>2. stored' \in [Table -> Nat]
    BY <1>2, <2>1, StoresType DEF TaxInv, TaxTypeOK
  <2>3. ASSUME NEW t \in Table, table'[t] # None, table'[t].parent # None
        PROVE  table'[t].invisible /\ table'[t].refcount = 0 /\ table'[t].child = None
    <3>1. CASE t \in made BY <1>14, <3>1
    <3>2. CASE Exists(t)
      <4>1. table[t].parent # None BY <1>15, <2>3, <3>2
      <4>2. table[t].invisible /\ table[t].refcount = 0 /\ table[t].child = None
        BY <3>2, <4>1 DEF TaxInv, TaxTypeOK
      <4>3. t \notin A BY <1>8, <4>2
      <4>4. Counted(t, to) = 0 BY <4>2 DEF Counted
      <4>5. QED BY <1>15, <1>18, <3>2, <4>2, <4>3, <4>4
    <3>3. QED BY <1>16, <2>3, <3>1, <3>2
  <2>4. posted' \subseteq Doc /\ backend' \in Backends /\ edits' \in 0 .. MaxEdits
    BY <1>2 DEF TaxInv, TaxTypeOK
  <2>5. QED BY <1>21, <1>29, <2>1, <2>2, <2>3, <2>4 DEF TaxTypeOK, Exists
<1>23. NoDangling'
  <2>1. \A u \in User : uses'[u] # None => table'[uses'[u]] # None
    BY <1>7, <1>15, <1>20, <1>21
  <2>2. ASSUME NEW t \in Table, table'[t] # None, table'[t].parent # None
        PROVE  table'[table'[t].parent] # None /\ ~ table'[table'[t].parent].invisible
    <3>1. CASE t \in made BY <1>8, <1>14, <1>15, <3>1
    <3>2. CASE Exists(t)
      <4>1. table'[t].parent = table[t].parent /\ table[t].parent \in Table
        BY <1>15, <2>2, <3>2 DEF Record
      <4>2. Visible(table[t].parent)
        BY <2>2, <3>2, <4>1 DEF TaxInv, NoDangling
      <4>3. QED BY <1>15, <4>1, <4>2 DEF Visible
    <3>3. QED BY <1>16, <2>2, <3>1, <3>2
  <2>3. ASSUME NEW t \in Table, table'[t] # None, table'[t].child # None
        PROVE  table'[table'[t].child] # None
    <3>1. Exists(t) BY <1>14, <1>16, <2>3
    <3>2. CASE t \in A BY <1>5, <1>14, <1>15, <1>17, <3>1, <3>2
    <3>3. CASE t \notin A BY <1>15, <1>18, <1>19, <2>3, <3>1, <3>3
    <3>4. QED BY <3>2, <3>3
  <2>4. QED BY <2>1, <2>2, <2>3 DEF NoDangling, Exists, Visible
<1>24. RefcountExact'
  <2>1. ASSUME NEW t \in Table, table'[t] # None, ~ table'[t].invisible
        PROVE  IF backend = "xml" THEN table'[t].refcount = Cardinality(Users(t)')
               ELSE table'[t].refcount >= Cardinality(Users(t)')
    <3>1. Exists(t) /\ Visible(t)
      BY <1>14, <1>15, <1>16, <2>1 DEF Visible
    <3>2. QED BY <1>2, <1>6, <1>15, <3>1, CountKept
  <2>2. QED BY <1>2, <2>1 DEF RefcountExact, Visible, Exists
<1>25. ChildIsCopy'
  <2>1. ASSUME NEW t \in Table, table'[t] # None, table'[t].child # None
        PROVE  /\ table'[table'[t].child] # None /\ table'[table'[t].child].invisible
               /\ table'[table'[t].child].parent = t
               /\ backend = "xml" => table'[table'[t].child].content = table'[t].content
    <3>1. Exists(t) BY <1>14, <1>16, <2>1
    <3>2. CASE t \in A
      <4>1. table'[t].child = fresh[t] /\ fresh[t] \in made /\ P(fresh[t]) = t
        BY <1>5, <1>15, <1>17, <3>1, <3>2
      <4>2. QED BY <1>14, <1>15, <3>1, <4>1
    <3>3. CASE t \notin A
      <4>1. table'[t].child = table[t].child BY <1>15, <1>18, <3>1, <3>3
      <4>2. QED BY <1>15, <1>19, <2>1, <3>1, <4>1
    <3>4. QED BY <3>2, <3>3
  <2>2. QED BY <1>2, <2>1 DEF ChildIsCopy, Exists
<1>26. PostedInvisible'
  <2>1. ASSUME backend = "xml", NEW l \in Line, DocOf[l] \in posted', uses'[l] # None
        PROVE  table'[uses'[l]].invisible
    <3>1. CASE DocOf[l] = d BY <1>6, <1>20, <1>21, <2>1, <3>1
    <3>2. CASE DocOf[l] # d
      <4>1. uses'[l] = uses[l] /\ DocOf[l] \in posted BY <1>2, <1>6, <1>21, <2>1, <3>2 DEF User
      <4>2. uses[l] \in Table /\ Exists(uses[l]) /\ table[uses[l]].invisible
        BY <1>7, <2>1, <4>1 DEF TaxInv, PostedInvisible, User
      <4>3. QED BY <1>15, <4>1, <4>2
    <3>3. QED BY <3>1, <3>2
  <2>2. QED BY <1>2, <2>1 DEF PostedInvisible
<1>27. KeepsPosted
  <2>1. ASSUME NEW l \in Line, DocOf[l] \in posted \cap posted', uses[l] # None
        PROVE  /\ uses'[l] = uses[l] /\ table'[uses[l]] # None
               /\ table'[uses[l]].content = table[uses[l]].content
    <3>1. uses'[l] = uses[l] BY <1>2, <1>6, <1>21, <2>1 DEF User
    <3>2. uses[l] \in Table /\ Exists(uses[l]) BY <1>7, <2>1 DEF User
    <3>3. QED BY <1>15, <3>1, <3>2
  <2>2. \A l \in Line : DocOf[l] \in posted \cap posted' => uses'[l] = uses[l]
    BY <1>2, <1>6, <1>21 DEF User
  <2>3. QED BY <2>1, <2>2 DEF KeepsPosted
<1>28. QED BY <1>22, <1>23, <1>24, <1>25, <1>26, <1>27, <1>29 DEF TaxInv

-----------------------------------------------------------------------------
(* Saving and loading the book.                                            *)

LEMMA XmlReloadStep ==
    ASSUME TaxTablesAssumption, TaxInv, backend = "xml",
           table' = [t \in Table |-> IF Exists(t) THEN XmlLoaded(t) ELSE None],
           UNCHANGED <<backend, uses, posted, stored, row, edits>>
    PROVE  TaxInv' /\ KeepsPosted
PROOF
<1> DEFINE Count(t) == IF table[t].invisible \/ Users(t) = {} THEN table[t].refcount
                       ELSE Cardinality(Users(t))
<1>1. ASSUME NEW t \in Table, Exists(t)
      PROVE  /\ table'[t] \in Record
             /\ table'[t].content = table[t].content /\ table'[t].parent = table[t].parent
             /\ table'[t].child = table[t].child
             /\ table'[t].invisible = table[t].invisible
             /\ table'[t].refcount = Count(t)
  <2> DEFINE n == Count(t)
             r == table[t]
  <2>1. r \in Record /\ table'[t] = [r EXCEPT !.refcount = n]
    BY <1>1, RowIs DEF TaxInv, XmlLoaded
  <2>2. n \in Nat
    BY <2>1, UsersFinite DEF Record
  <2> HIDE DEF n, r
  <2>3. LET q == [r EXCEPT !.refcount = n] IN
        /\ q \in Record /\ q.content = r.content /\ q.parent = r.parent
        /\ q.child = r.child /\ q.invisible = r.invisible /\ q.refcount = n
    BY <2>1, <2>2, RowRecounted
  <2>4. QED BY <2>1, <2>3 DEF n, r
<1>2. \A t \in Table : ~ Exists(t) => table'[t] = None
  OBVIOUS
<1>3. SameButCounts
  <2>1. table' \in [Table -> Record \cup {None}]
    <3>1. \A t \in Table : table'[t] \in Record \cup {None} BY <1>1, <1>2
    <3>2. table' = [t \in Table |-> table'[t]] OBVIOUS
    <3>3. QED BY <3>1, <3>2
  <2>2. \A t \in Table : Exists(t)' <=> Exists(t)
    BY <1>1, <1>2 DEF Exists, TaxTablesAssumption
  <2>3. \A t \in Table : table[t].invisible => Count(t) = table[t].refcount
    OBVIOUS
  <2>4. QED BY <1>1, <2>1, <2>2, <2>3 DEF SameButCounts
<1>4. \A t \in Table : Visible(t) => table'[t].refcount = Cardinality(Users(t)')
  <2>1. \A t \in Table : Users(t)' = Users(t) BY DEF Users
  <2>2. ASSUME NEW t \in Table, Visible(t) PROVE Count(t) = Cardinality(Users(t))
    BY <2>2 DEF TaxInv, RefcountExact
  <2>3. QED BY <1>1, <2>1, <2>2 DEF Visible
<1>5. row' \in [User -> Table \cup {None}] /\ RowsAgree'
  <2>1. \A u \in User : row[u] # None => table'[row[u]] # None
    BY <1>3 DEF TaxInv, TaxTypeOK, RowsAgree, SameButCounts, Exists
  <2>2. QED BY <2>1, RowsUntouched
<1>6. QED
  BY <1>3, <1>4, <1>5, SameButCountsKeeps
     DEF TaxInv, TaxTypeOK, NoDangling, PostedInvisible

LEMMA SqlReloadStep ==
    ASSUME TaxTablesAssumption, TaxInv, backend = "sql",
           NEW last \in [Parents -> Table], \A t \in Parents : last[t] \in Children(t),
           table' = [t \in Table |-> IF Exists(t) THEN SqlLoaded(t, last) ELSE None],
           uses' = row, UNCHANGED <<backend, posted, stored, row, edits>>
    PROVE  TaxInv' /\ KeepsPosted
PROOF
<1> DEFINE N(t) == IF table[t].parent # None THEN 0
                   ELSE IF table[t].invisible THEN stored[t]
                   ELSE stored[t] + Cardinality(Rows(t))
           C(t) == IF t \in DOMAIN last THEN last[t] ELSE None
<1>1. ASSUME NEW t \in Parents
      PROVE  /\ C(t) \in Table /\ Exists(C(t)) /\ table[C(t)].parent = t
             /\ table[C(t)].invisible /\ t \in Table /\ Visible(t)
             /\ table[t].parent = None
  <2>1. C(t) \in Children(t) /\ t \in Table /\ t # None
    BY DEF Parents, TaxTablesAssumption
  <2>2. C(t) \in Table /\ Exists(C(t)) /\ table[C(t)].parent = t
    BY <2>1 DEF Children
  <2>3. Visible(t) /\ table[C(t)].invisible
    BY <2>1, <2>2 DEF TaxInv, TaxTypeOK, NoDangling
  <2>4. table[t].parent = None
    BY <2>1, <2>3 DEF TaxInv, TaxTypeOK, Visible
  <2>5. QED BY <2>1, <2>2, <2>3, <2>4
<1>2. \A t \in Table : C(t) \in Table \cup {None} /\ (C(t) # None => t \in Parents)
  BY <1>1
<1>12. ASSUME NEW t
       PROVE  Cardinality(Rows(t)) \in Nat /\ Users(t)' = Rows(t)
  <2>1. Rows(t) \in SUBSET User BY DEF Rows
  <2>2. QED BY <2>1, UsersFinite DEF Users, Rows
<1>13. \A u \in User : row[u] \in Table \cup {None} /\ (row[u] # None => Exists(row[u]))
  BY DEF TaxInv, TaxTypeOK, RowsAgree
<1>3. ASSUME NEW t \in Table, Exists(t)
      PROVE  /\ table'[t] \in Record /\ table[t] \in Record
             /\ table'[t].content = table[t].content /\ table'[t].parent = table[t].parent
             /\ table'[t].child = C(t)
             /\ table'[t].invisible = table[t].invisible
             /\ table'[t].refcount = N(t)
  <2> DEFINE n == N(t)
             r == table[t]
             c == C(t)
  <2>1. r \in Record /\ table'[t] = [r EXCEPT !.child = c, !.refcount = n]
    BY <1>3, RowIs DEF TaxInv, SqlLoaded
  <2>2. n \in Nat /\ c \in Table \cup {None}
    BY <1>2, <1>12, <2>1 DEF TaxInv, TaxTypeOK
  <2> HIDE DEF n, r, c
  <2>3. LET q == [r EXCEPT !.child = c, !.refcount = n] IN
        /\ q \in Record /\ q.content = r.content /\ q.parent = r.parent
        /\ q.child = c /\ q.invisible = r.invisible /\ q.refcount = n
    BY <2>1, <2>2 DEF Record
  <2>4. QED BY <2>1, <2>3 DEF n, r, c
<1>4. \A t \in Table : ~ Exists(t) => table'[t] = None
  OBVIOUS
<1> HIDE DEF C
<1>5. \A t \in Table : table'[t] # None <=> Exists(t)
  BY <1>3, <1>4 DEF TaxTablesAssumption
<1>6. TaxTypeOK'
  <2>1. table' \in [Table -> Record \cup {None}]
    <3>1. \A t \in Table : table'[t] \in Record \cup {None} BY <1>3, <1>4
    <3>2. table' = [t \in Table |-> table'[t]] OBVIOUS
    <3>3. QED BY <3>1, <3>2
  <2>2. ASSUME NEW t \in Table, table'[t] # None, table'[t].parent # None
        PROVE  table'[t].invisible /\ table'[t].refcount = 0 /\ table'[t].child = None
    <3>1. Exists(t) /\ table[t].parent # None BY <1>3, <1>5, <2>2
    <3>2. table[t].invisible /\ t \notin Parents
      BY <1>1, <3>1 DEF TaxInv, TaxTypeOK
    <3>3. QED BY <1>2, <1>3, <3>1, <3>2
  <2>3. QED BY <2>1, <2>2 DEF TaxInv, TaxTypeOK, Exists
<1>7. NoDangling'
  <2>1. \A u \in User : row[u] # None => table'[row[u]] # None
    BY <1>5, <1>13
  <2>2. ASSUME NEW t \in Table, table'[t] # None, table'[t].parent # None
        PROVE  table'[table'[t].parent] # None /\ ~ table'[table'[t].parent].invisible
    <3>1. Exists(t) /\ table'[t].parent = table[t].parent /\ table[t].parent \in Table
      BY <1>3, <1>5, <2>2 DEF Record
    <3>2. Visible(table[t].parent)
      BY <2>2, <3>1 DEF TaxInv, NoDangling
    <3>3. QED BY <1>3, <1>5, <3>1, <3>2 DEF Visible
  <2>3. ASSUME NEW t \in Table, table'[t] # None, table'[t].child # None
        PROVE  table'[table'[t].child] # None
    <3>1. table'[t].child = C(t) /\ t \in Parents BY <1>2, <1>3, <1>5, <2>3
    <3>2. QED BY <1>1, <1>5, <3>1
  <2>4. QED BY <2>1, <2>2, <2>3 DEF NoDangling, Exists, Visible
<1>8. RefcountExact'
  <2>1. ASSUME NEW t \in Table, table'[t] # None, ~ table'[t].invisible
        PROVE  table'[t].refcount >= Cardinality(Rows(t))
    <3>1. Exists(t) /\ ~ table[t].invisible BY <1>3, <1>5, <2>1
    <3>2. table[t].parent = None BY <3>1 DEF TaxInv, TaxTypeOK
    <3>3. stored[t] \in Nat /\ Cardinality(Rows(t)) \in Nat
      BY <1>12 DEF TaxInv, TaxTypeOK
    <3>4. QED BY <1>3, <3>1, <3>2, <3>3
  <2>2. backend' # "xml" OBVIOUS
  <2>3. QED BY <1>12, <2>1, <2>2 DEF RefcountExact, Visible, Exists
<1>9. ChildIsCopy'
  <2>1. ASSUME NEW t \in Table, table'[t] # None, table'[t].child # None
        PROVE  /\ table'[table'[t].child] # None /\ table'[table'[t].child].invisible
               /\ table'[table'[t].child].parent = t
    <3>1. table'[t].child = C(t) /\ t \in Parents BY <1>2, <1>3, <1>5, <2>1
    <3>2. QED BY <1>1, <1>3, <1>5, <3>1
  <2>2. backend' # "xml" OBVIOUS
  <2>3. QED BY <2>1, <2>2 DEF ChildIsCopy, Exists
<1>10. PostedInvisible' /\ KeepsPosted
  <2>1. \A l \in Line : uses[l] # None =>
          /\ row[l] = uses[l] /\ table'[uses[l]] # None
          /\ table'[uses[l]].content = table[uses[l]].content
    BY <1>3, <1>5 DEF TaxInv, TaxTypeOK, NoDangling, RowsAgree, User
  <2>2. QED BY <2>1 DEF PostedInvisible, KeepsPosted
<1>14. row' \in [User -> Table \cup {None}] /\ RowsAgree'
  BY <1>5, <1>13 DEF TaxInv, TaxTypeOK, RowsAgree, Exists
<1>11. QED BY <1>6, <1>7, <1>8, <1>9, <1>10, <1>14 DEF TaxInv

LEMMA ReloadStep ==
    ASSUME TaxTablesAssumption, TaxInv, Reload
    PROVE  TaxInv' /\ KeepsPosted
PROOF
<1>1. UNCHANGED <<backend, posted, stored, row, edits>>
  BY DEF Reload
<1>2. CASE backend = "xml"
           /\ table' = [t \in Table |-> IF Exists(t) THEN XmlLoaded(t) ELSE None]
           /\ UNCHANGED uses
  BY <1>1, <1>2, XmlReloadStep
<1>3. CASE backend = "sql" /\ uses' = row /\ \E last \in [Parents -> Table] :
             /\ \A t \in Parents : last[t] \in Children(t)
             /\ table' = [t \in Table |-> IF Exists(t) THEN SqlLoaded(t, last) ELSE None]
  BY <1>1, <1>3, SqlReloadStep
<1>4. QED BY <1>2, <1>3 DEF Reload

-----------------------------------------------------------------------------
LEMMA TaxInitially == ASSUME TaxTablesAssumption, TaxInit PROVE TaxInv
PROOF
<1>1. TaxTypeOK /\ NoDangling /\ RefcountExact /\ ChildIsCopy
  BY DEF TaxTablesAssumption, TaxInit, TaxTypeOK, NoDangling, RefcountExact, ChildIsCopy,
         Exists, Visible
<1>2. QED BY <1>1 DEF TaxInit, PostedInvisible, RowsAgree, TaxInv

LEMMA TaxStep ==
    ASSUME TaxTablesAssumption, TaxInv, [TaxNext]_taxVars
    PROVE  TaxInv' /\ KeepsPosted
PROOF
<1>1. ASSUME NEW t \in Table, Create(t) \/ Edit(t) \/ Delete(t)
      PROVE  TaxInv' /\ KeepsPosted
  BY <1>1, CreateStep, EditStep, DeleteStep
<1>2. ASSUME NEW u \in User, NEW t \in Table \cup {None}, Choose(u, t)
      PROVE  TaxInv' /\ KeepsPosted
  BY <1>2, ChooseStep
<1>3. ASSUME NEW from \in Line, NEW to \in Line, Copy(from, to)
      PROVE  TaxInv' /\ KeepsPosted
  BY <1>3, CopyStep
<1>4. ASSUME NEW d \in Doc, Post(d) \/ Unpost(d)
      PROVE  TaxInv' /\ KeepsPosted
  BY <1>4, PostStep, UnpostStep
<1>5. CASE Reload
  BY <1>5, ReloadStep
<1>6. CASE UNCHANGED taxVars
  <2>1. TaxInv'
    BY <1>6 DEF taxVars, TaxInv, TaxTypeOK, NoDangling, RefcountExact, ChildIsCopy,
       PostedInvisible, RowsAgree, Exists, Visible, Users
  <2>2. KeepsPosted
    BY <1>6 DEF taxVars, TaxInv, TaxTypeOK, NoDangling, Exists, User, KeepsPosted
  <2>3. QED BY <2>1, <2>2
<1>7. ASSUME NEW l \in Line, Remove(l)
      PROVE  TaxInv' /\ KeepsPosted
  BY <1>7, RemoveStep
<1>8. QED BY <1>1, <1>2, <1>3, <1>4, <1>5, <1>6, <1>7 DEF TaxNext

\* gncTaxTable.c: nothing refers to a table that was freed, counts are those of
\* the users, the child that is handed out is an invisible copy, and the taxes of
\* a posted document stay as they are but for what its rows give back, for any
\* number of tables, documents and edits.
THEOREM TaxTablesSafety ==
    TaxSpec => /\ []TaxTypeOK /\ []NoDangling /\ []RefcountExact /\ []ChildIsCopy
               /\ PostedFixed
PROOF
<1>1. TaxInit => TaxInv
  BY TaxInitially, TaxTablesAssumption
<1>2. TaxInv /\ [TaxNext]_taxVars => TaxInv' /\ [KeepsPosted]_taxVars
  BY TaxStep, TaxTablesAssumption
<1>3. TaxInv => TaxTypeOK /\ NoDangling /\ RefcountExact /\ ChildIsCopy
  BY DEF TaxInv
<1>4. TaxSpec => []TaxInv /\ [][KeepsPosted]_taxVars
  BY <1>1, <1>2, PTL DEF TaxSpec
<1>5. TaxSpec => PostedFixed
  BY <1>4 DEF PostedFixed, KeepsPosted
<1>6. QED BY <1>3, <1>4, <1>5, PTL

\* Every variable has its type, and a child is invisible, uncounted and childless.
THEOREM TaxTypeCorrect == TaxSpec => []TaxTypeOK
BY TaxTablesSafety, PTL

\* gncTaxTableFree: what an entry, a customer or a table refers to was not freed.
THEOREM NothingDangles == TaxSpec => []NoDangling
BY TaxTablesSafety, PTL

\* gncTaxTableIncRef, gncTaxTableDecRef: the counts are those of the users.
THEOREM ReferencesCounted == TaxSpec => []RefcountExact
BY TaxTablesSafety, PTL

\* gncTaxTableReturnChild: the child to be handed out next is an invisible copy.
THEOREM ChildrenAreCopies == TaxSpec => []ChildIsCopy
BY TaxTablesSafety, PTL

\* gncInvoicePostToAccount: a posted document keeps its tables and their taxes,
\* but for a line without one that a database gives back a table it once had.
THEOREM PostedKeepTaxes == TaxSpec => PostedFixed
BY TaxTablesSafety, PTL

=============================================================================
