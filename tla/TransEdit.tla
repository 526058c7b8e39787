------------------------------ MODULE TransEdit ------------------------------
(***************************************************************************)
(* The edit cycle of the engine: transactions, the splits they own and the *)
(* accounts the splits are entered in, between xaccTransBeginEdit and      *)
(* xaccTransCommitEdit or xaccTransRollbackEdit, over a backend that may   *)
(* refuse a commit (src/libgnucash/engine/Transaction.cpp, Split.cpp,      *)
(* Account.cpp, qofinstance.cpp).                                          *)
(*                                                                         *)
(* The program is single threaded.  A client call is an action that needs  *)
(* an empty call stack; a call that loops over splits, or that calls back  *)
(* into the edit cycle of another transaction, leaves frames on the stack, *)
(* and until they are gone only the steps of that call are enabled.        *)
(*                                                                         *)
(* Abstractions: one currency, so that a split's value is its amount; the  *)
(* splits list of a transaction is a set, its loops taking the splits in   *)
(* any order; a balance is represented by the summands it was added from.  *)
(***************************************************************************)
EXTENDS Integers, FiniteSets, Sequences, Sums

CONSTANTS
    Trans, Split, Account, \* the objects a behaviour may allocate
    Imbalance,             \* the account add_balance_split balances against
    Amount,                \* the numeric values a split can take
    Entered,               \* the amounts clients enter, a subset of Amount
    Description,           \* the values of a transaction's own fields
    None,                  \* the null pointer, and the absent row
    Loaded,                \* the splits of the book the session loaded
    Calls,                 \* the client calls of this instance
    CanFail,               \* whether the backend may refuse commits
    MaxLevel,              \* bound: nesting of begin_edit by one client
    MaxCalls               \* bound: setter calls and moves in a behaviour

\* What the client of the engine may call besides begin, commit and rollback.
ClientCalls ==
    {"nest", "malloc_trans", "malloc_split", "amount", "reconcile", "account",
     "destroy_split", "destroy_trans", "describe", "move", "account_commit"}

Row == [parent : Trans \cup {None}, acc : Account \cup {None},
        amount : Amount, reconciled : BOOLEAN]

ASSUME TransEditAssumption ==
    /\ IsFiniteSet(Split)   \* memory is finite
    /\ None \notin Trans \cup Split \cup Account \cup Description
    /\ None \notin Row
    /\ None \notin Amount \X BOOLEAN
    /\ Imbalance \in Account
    /\ 0 \in Amount /\ Amount \subseteq Int
    /\ Entered \subseteq Amount
    /\ Description # {}
    /\ Loaded \in [Split -> Row \cup {None}]
    /\ \A s \in Split : Loaded[s] # None => /\ Loaded[s].parent # None
                                           /\ Loaded[s].acc # None
    /\ Calls \subseteq ClientCalls
    /\ CanFail \in BOOLEAN
    /\ MaxLevel \in Nat /\ MaxCalls \in Nat

VARIABLES
    split,      \* the Split objects
    trans,      \* the Transaction objects
    account,    \* the Account objects
    splitRow,   \* the rows of the splits table of the backend
    transRow,   \* the rows of the transactions table
    stack,      \* the calls in progress, the innermost first
    calls,      \* setter calls and moves made so far
    fault       \* why the program stopped, or "none"

vars == <<split, trans, account, splitRow, transRow, stack, calls, fault>>

-----------------------------------------------------------------------------
(* The objects.                                                            *)

SplitRec ==
    [live : BOOLEAN, infant : BOOLEAN, dirty : BOOLEAN, do_free : BOOLEAN,
     parent : Trans \cup {None}, orig_parent : Trans \cup {None},
     acc : Account \cup {None}, orig_acc : Account \cup {None},
     amount : Amount, reconciled : BOOLEAN]

\* The copy dupe_trans makes for the rollback.
Copy == [splits : SUBSET Split, amount : [Split -> Amount],
         reconciled : [Split -> BOOLEAN], description : Description]

TransRec ==
    [live : BOOLEAN, dirty : BOOLEAN, do_free : BOOLEAN, editlevel : Int,
     splits : SUBSET Split, description : Description, orig : Copy]

\* A balance, as what each split contributed when it was added up.
Balance == [Split -> (Amount \X BOOLEAN) \cup {None}]

AccountRec ==
    [splits : SUBSET Split, balance : Balance, balance_dirty : BOOLEAN]

\* The memory of a split or transaction before xaccMalloc and after xaccFree.
FreedSplit ==
    [live |-> FALSE, infant |-> FALSE, dirty |-> FALSE, do_free |-> FALSE,
     parent |-> None, orig_parent |-> None, acc |-> None, orig_acc |-> None,
     amount |-> 0, reconciled |-> FALSE]

NoCopy == \* orig = nullptr
    [splits |-> {}, amount |-> [s \in Split |-> 0],
     reconciled |-> [s \in Split |-> FALSE],
     description |-> CHOOSE d \in Description : TRUE]

FreedTrans ==
    [live |-> FALSE, dirty |-> FALSE, do_free |-> FALSE, editlevel |-> 0,
     splits |-> {}, description |-> CHOOSE d \in Description : TRUE,
     orig |-> NoCopy]

\* A call in progress: the loop or continuation it is in (op), the transaction
\* and the split it is about, and the splits its loop has yet to visit.
Frame ==
    [op : {"close", "adopt", "cleanup", "clear", "rollback", "restore", "discard"},
     t : Trans \cup {None}, s : Split \cup {None}, todo : SUBSET Split]

Call(op, t, s, todo) == [op |-> op, t |-> t, s |-> s, todo |-> todo]

-----------------------------------------------------------------------------
(* Helpers of the engine.                                                  *)

StillHasSplit(t, s) == split[s].parent = t /\ ~split[s].do_free

Owned(t) == {s \in trans[t].splits : StillHasSplit(t, s)}

IsOpen(t) == trans[t].editlevel > 0

\* Mutant of ImbalanceValue: splits being destroyed still count.
ImbalanceOfList(t) == SumOver([s \in trans[t].splits |-> split[s].amount])

ImbalanceValue(t) == SumOver([s \in Owned(t) |-> split[s].amount])

IsBalanced(t) == ImbalanceValue(t) = 0

\* What adding up the splits of account record r yields, sp being the splits.
Contributions(sp, r) ==
    [s \in Split |-> IF s \in r.splits THEN <<sp[s].amount, sp[s].reconciled>>
                                       ELSE None]

\* xaccAccountRecomputeBalance on account record r.
Recomputed(sp, r) ==
    IF r.balance_dirty
    THEN [r EXCEPT !.balance = Contributions(sp, r), !.balance_dirty = FALSE]
    ELSE r

\* Mutant of Marked: the setters leave the balance alone.
UnmarkedBalance(a) == account

\* mark_split for a split entered in account a (None: in no account yet).
Marked(a) ==
    [x \in Account |-> IF x = a THEN [account[x] EXCEPT !.balance_dirty = TRUE]
                                ELSE account[x]]

\* dupe_trans: the transaction's own fields and a copy of each listed split.
DupeTrans(t) ==
    LET listed == trans[t].splits IN
    [splits      |-> listed,
     amount      |-> [s \in Split |-> IF s \in listed THEN split[s].amount ELSE 0],
     reconciled  |-> [s \in Split |-> s \in listed /\ split[s].reconciled],
     description |-> trans[t].description]

\* Mutant of Begun: a transaction that is open is opened no deeper.
BegunOnce(ts) ==
    [t \in Trans |->
        IF t \notin ts \/ trans[t].editlevel > 0 THEN trans[t]
        ELSE [trans[t] EXCEPT !.editlevel = 1, !.orig = DupeTrans(t)]]

\* xaccTransBeginEdit on each transaction of ts (the null pointer is ignored).
Begun(ts) ==
    [t \in Trans |->
        IF t \notin ts THEN trans[t]
        ELSE [trans[t] EXCEPT
                !.editlevel = @ + 1,
                !.orig = IF trans[t].editlevel = 0 THEN DupeTrans(t) ELSE @]]

\* The answers of the backend to a commit: TRUE when it stored the object.
Answers == IF CanFail THEN BOOLEAN ELSE {TRUE}

-----------------------------------------------------------------------------
(* Client calls that change an open transaction or its splits.  A setter   *)
(* opens and commits the transaction itself when it is closed: that is the *)
(* sequence BeginEdit, setter, CommitEdit of this module.                  *)

Idle == stack = <<>> /\ fault = "none"

\* A client may use the setters of t, up to the bound.
Setting(t) ==
    /\ Idle
    /\ trans[t].live /\ IsOpen(t)
    /\ calls < MaxCalls /\ calls' = calls + 1

\* A setter of split s; clients let go of a split they destroyed.
SettingSplit(s) ==
    /\ split[s].live /\ ~split[s].do_free
    /\ \E t \in Trans : split[s].parent = t /\ Setting(t)

\* xaccTransBeginEdit
BeginEdit(t) ==
    /\ Idle
    /\ trans[t].live
    /\ \/ ~IsOpen(t)
       \/ "nest" \in Calls /\ trans[t].editlevel < MaxLevel
    /\ trans' = Begun({t})
    /\ UNCHANGED <<split, account, splitRow, transRow, stack, calls, fault>>

\* xaccMallocTransaction; its first commit stores it.
MallocTrans(t) ==
    /\ Idle /\ "malloc_trans" \in Calls
    /\ ~trans[t].live
    /\ trans' = [trans EXCEPT ![t] = [FreedTrans EXCEPT !.live = TRUE, !.dirty = TRUE]]
    /\ UNCHANGED <<split, account, splitRow, transRow, stack, calls, fault>>

NewSplit(t, a, v) ==
    [live |-> TRUE, infant |-> TRUE, dirty |-> TRUE, do_free |-> FALSE,
     parent |-> t, orig_parent |-> None, acc |-> a, orig_acc |-> None,
     amount |-> v, reconciled |-> FALSE]

\* xaccMallocSplit, xaccSplitSetParent, xaccSplitSetAccount and the first
\* xaccSplitSetBaseValue, in the order clients call them to enter a split.  One
\* split per transaction stays unused, for add_balance_split to allocate.
MallocSplit(t, s, a, v) ==
    /\ "malloc_split" \in Calls
    /\ Setting(t)
    /\ ~split[s].live
    /\ Cardinality({x \in Split : ~split[x].live}) > Cardinality(Trans)
    /\ split' = [split EXCEPT ![s] = NewSplit(t, a, v)]
    /\ trans' = [trans EXCEPT ![t].splits = @ \cup {s}]
    /\ account' = Marked(a)
    /\ UNCHANGED <<splitRow, transRow, stack, fault>>

\* xaccSplitSetBaseValue, in the one currency of the model.
SetBaseValue(s, v) ==
    /\ "amount" \in Calls
    /\ SettingSplit(s)
    /\ split' = [split EXCEPT ![s].amount = v, ![s].dirty = TRUE]
    /\ account' = Marked(split[s].acc)
    /\ UNCHANGED <<trans, splitRow, transRow, stack, fault>>

\* xaccSplitSetReconcile, which also adds up the account's balance at once.
SetReconcile(s, r) ==
    /\ "reconcile" \in Calls
    /\ SettingSplit(s)
    /\ r # split[s].reconciled
    /\ split' = [split EXCEPT ![s].reconciled = r, ![s].dirty = TRUE]
    /\ account' = [a \in Account |->
                     IF a = split[s].acc
                     THEN Recomputed(split', Marked(a)[a])
                     ELSE account[a]]
    /\ UNCHANGED <<trans, splitRow, transRow, stack, fault>>

\* xaccSplitSetAccount: the accounts learn of it at the commit.
SetAccount(s, a) ==
    /\ "account" \in Calls
    /\ SettingSplit(s)
    /\ split' = [split EXCEPT ![s].acc = a, ![s].dirty = TRUE]
    /\ UNCHANGED <<trans, account, splitRow, transRow, stack, fault>>

\* xaccSplitDestroy
SplitDestroy(s) ==
    /\ "destroy_split" \in Calls
    /\ SettingSplit(s)
    /\ split' = [split EXCEPT ![s].dirty = TRUE, ![s].do_free = TRUE]
    /\ UNCHANGED <<trans, account, splitRow, transRow, stack, fault>>

\* xaccTransSetDescription
SetDescription(t, d) ==
    /\ "describe" \in Calls
    /\ Setting(t)
    /\ trans' = [trans EXCEPT ![t].description = d, ![t].dirty = TRUE]
    /\ UNCHANGED <<split, account, splitRow, transRow, stack, fault>>

\* xaccAccountCommitEdit of an account that stays: it is brought up to date.
AccountCommitEdit(a) ==
    /\ Idle /\ "account_commit" \in Calls
    /\ account' = [account EXCEPT ![a] = Recomputed(split, @)]
    /\ UNCHANGED <<split, trans, splitRow, transRow, stack, calls, fault>>

-----------------------------------------------------------------------------
(* Committing a transaction.                                               *)

\* The splits add_balance_split may use: one already in the Imbalance account,
\* else a new one.
BalanceSplits(t) ==
    LET there == {s \in Owned(t) : split[s].acc = Imbalance}
    IN  IF there # {} THEN there ELSE {s \in Split : ~split[s].live}

\* add_balance_split with balance split b, whose value becomes v; a split that
\* would be zero is destroyed instead.
Balanced(t, b, v) ==
    [split EXCEPT ![b] = IF ~@.live THEN NewSplit(t, Imbalance, v)
                         ELSE IF v = 0 THEN [@ EXCEPT !.dirty = TRUE, !.do_free = TRUE]
                         ELSE [@ EXCEPT !.dirty = TRUE, !.amount = v]]

\* qof_commit_edit_part2 for a transaction that stays, listing the splits of
\* listed: the backend stores its row, trans_cleanup_commit follows, or
\* trans_on_error when it refuses.
StoreTrans(t, listed, rest) ==
    \E ok \in IF trans[t].dirty THEN Answers ELSE {TRUE} :
     IF ok
        THEN /\ transRow' = IF trans[t].dirty
                            THEN [transRow EXCEPT ![t] = trans[t].description]
                            ELSE transRow
             /\ trans' = [trans EXCEPT ![t].dirty = FALSE, ![t].splits = listed]
             /\ stack' = <<Call("cleanup", t, None, listed)>> \o rest
        ELSE /\ trans' = [trans EXCEPT ![t].splits = listed,
                                       ![t].description = trans[t].orig.description]
             /\ stack' = <<Call("rollback", t, None, listed)>> \o rest
             /\ UNCHANGED transRow

\* xaccTransScrubImbalance, then the commit.
CommitKept(t, rest) ==
    /\ ~trans[t].do_free /\ Owned(t) # {}
    /\ \/ /\ IsBalanced(t)
          /\ StoreTrans(t, trans[t].splits, rest)
          /\ UNCHANGED <<split, account>>
       \/ /\ ~IsBalanced(t)
          /\ \E b \in BalanceSplits(t) :
               LET old == IF split[b].live THEN split[b].amount ELSE 0
                   new == old - ImbalanceValue(t)
               IN  /\ new \in Amount
                   /\ split' = Balanced(t, b, new)
                   /\ account' = IF new = 0 THEN account ELSE Marked(Imbalance)
                   /\ StoreTrans(t, trans[t].splits \cup {b}, rest)
    /\ UNCHANGED <<splitRow, calls>>

\* A transaction marked for destruction, or left without a split, is destroyed:
\* the backend deletes its row and those of its splits, do_destroy clears the
\* splits it still owns.
CommitDestroyed(t, rest) ==
    LET mine == {s \in trans[t].splits : split[s].parent = t} IN
    /\ trans[t].do_free \/ Owned(t) = {}
    /\ \E ok \in Answers :
     IF ok
        THEN /\ transRow' = [transRow EXCEPT ![t] = None]
             /\ splitRow' = [s \in Split |->
                               IF splitRow[s] # None /\ splitRow[s].parent = t
                               THEN None ELSE splitRow[s]]
             /\ split' = [s \in Split |->
                            IF s \in mine
                            THEN [split[s] EXCEPT !.dirty = TRUE, !.do_free = TRUE]
                            ELSE split[s]]
             /\ trans' = [trans EXCEPT ![t].do_free = TRUE]
             /\ stack' = <<Call("clear", t, None, mine)>> \o rest
        ELSE /\ trans' = [trans EXCEPT ![t].do_free = FALSE,
                                       ![t].description = trans[t].orig.description]
             /\ stack' = <<Call("rollback", t, None, trans[t].splits)>> \o rest
             /\ UNCHANGED <<split, splitRow, transRow>>
    /\ UNCHANGED <<account, calls>>

\* xaccTransCommitEdit; rest is what its caller still has to do.
CommitCall(t, rest) ==
    \/ /\ trans[t].editlevel > 1
       /\ trans' = [trans EXCEPT ![t].editlevel = @ - 1]
       /\ stack' = rest
       /\ UNCHANGED <<split, account, splitRow, transRow, calls>>
    \/ /\ trans[t].editlevel = 1
       /\ CommitKept(t, rest) \/ CommitDestroyed(t, rest)

CommitEdit(t) ==
    /\ Idle
    /\ trans[t].live /\ IsOpen(t)
    /\ CommitCall(t, <<>>)
    /\ UNCHANGED fault

\* xaccTransDestroy: begins, marks and commits, within whatever edit is open.
TransDestroy(t) ==
    /\ Idle /\ "destroy_trans" \in Calls
    /\ trans[t].live
    /\ trans' = [Begun({t}) EXCEPT ![t].do_free = TRUE]
    /\ stack' = <<Call("close", t, None, {})>>
    /\ UNCHANGED <<split, account, splitRow, transRow, calls, fault>>

-----------------------------------------------------------------------------
(* Committing one split, from a loop over the splits of its transaction.   *)

\* The row the backend keeps for split record r.
RowOf(r) == [parent |-> r.parent, acc |-> r.acc, amount |-> r.amount,
             reconciled |-> r.reconciled]

\* Mutant of StoredSplit: a new split is updated, not inserted.
UpdatedSplit(s) ==
    IF split[s].do_free \/ splitRow[s] = None THEN None ELSE RowOf(split[s])

\* GncSqlSplitBackend::commit: a new split is inserted, one being destroyed is
\* deleted, any other updates the row it has, if there is one.
StoredSplit(s) ==
    IF split[s].do_free THEN None
    ELSE IF split[s].infant \/ splitRow[s] # None THEN RowOf(split[s])
    ELSE None

\* Mutant of Entering: a split that changes account stays in the old one's list.
EnteringTwice(s) ==
    LET a == split[s].acc
        o == split[s].orig_acc
    IN  [x \in Account |->
          IF x = o /\ split[s].do_free
          THEN Recomputed(split, [account[x] EXCEPT !.splits = @ \ {s},
                                                    !.balance_dirty = TRUE])
          ELSE IF x = a /\ ~split[s].do_free
          THEN [account[x] EXCEPT !.splits = @ \cup {s}, !.balance_dirty = TRUE]
          ELSE account[x]]

\* Mutant of Entering: only a split that was in no account enters its new one.
EnteringNew(s) ==
    LET a == split[s].acc
        o == split[s].orig_acc
        gone == split[s].do_free
    IN  [x \in Account |->
          IF x = o /\ s \in account[x].splits /\ (o # a \/ gone)
          THEN Recomputed(split, [account[x] EXCEPT !.splits = @ \ {s},
                                                    !.balance_dirty = TRUE])
          ELSE IF x = a /\ o = None /\ ~gone
          THEN [account[x] EXCEPT !.splits = @ \cup {s}, !.balance_dirty = TRUE]
          ELSE account[x]]

\* xaccSplitCommitEdit up to the backend: the split leaves the account it was
\* entered in and enters its new one.
Entering(s) ==
    LET a == split[s].acc
        o == split[s].orig_acc
        gone == split[s].do_free
    IN  [x \in Account |->
          IF x = o /\ s \in account[x].splits /\ (o # a \/ gone)
          THEN Recomputed(split, [account[x] EXCEPT !.splits = @ \ {s},
                                                    !.balance_dirty = TRUE])
          ELSE IF x = a /\ o # a /\ ~gone
          THEN [account[x] EXCEPT !.splits = @ \cup {s}, !.balance_dirty = TRUE]
          ELSE account[x]]

\* xaccSplitCommitEdit of a dirty split, ok being the answer of the backend.  A
\* refused split keeps its new account and parent, and is no longer destroyed.
CommitSplit(s, ok) ==
    LET a == split[s].acc
        settled == [split[s] EXCEPT !.orig_acc = a, !.orig_parent = split[s].parent]
    IN  IF ok
        THEN /\ split' = [split EXCEPT ![s] =
                            IF settled.do_free THEN FreedSplit
                            ELSE [settled EXCEPT !.dirty = FALSE, !.infant = FALSE]]
             /\ account' = [x \in Account |->
                              IF x = a
                              THEN Recomputed(split', [Entering(s)[x] EXCEPT
                                                        !.balance_dirty = TRUE])
                              ELSE Entering(s)[x]]
             /\ splitRow' = [splitRow EXCEPT ![s] = StoredSplit(s)]
        ELSE /\ split' = [split EXCEPT ![s] = [settled EXCEPT !.do_free = FALSE]]
             /\ account' = Entering(s)
             /\ UNCHANGED splitRow

-----------------------------------------------------------------------------
(* The loops and continuations of the calls above.                         *)

Under(op) == fault = "none" /\ stack # <<>> /\ Head(stack).op = op

\* The innermost loop op of transaction t visits split s.
Visiting(op, t, s) ==
    /\ Under(op)
    /\ Head(stack).t = t
    /\ s \in Head(stack).todo

\* Mutant of Visited: the loop does not advance.
NotAdvanced(s) == stack

\* ... and has s behind it.
Visited(s) == <<[Head(stack) EXCEPT !.todo = @ \ {s}]>> \o Tail(stack)

\* The innermost loop op of transaction t has visited every split.
LoopDone(op, t) ==
    /\ Under(op)
    /\ Head(stack).t = t
    /\ Head(stack).todo = {}

\* Mutant of CleanupSplit: only the splits that moved are dropped from the list.
CleanupMoved(t, s) ==
    /\ Visiting("cleanup", t, s)
    /\ split[s].dirty
    /\ stack' = Visited(s)
    /\ trans' = IF split[s].parent = t THEN trans
                ELSE [trans EXCEPT ![t].splits = @ \ {s}]
    /\ IF split[s].parent = t
       THEN \E ok \in Answers : CommitSplit(s, ok)
       ELSE UNCHANGED <<split, account, splitRow>>
    /\ UNCHANGED <<transRow, calls, fault>>

\* trans_cleanup_commit, one dirty split (clean ones are passed over): one that
\* moved or was destroyed is dropped from the list; one still here is committed.
CleanupSplit(t, s) ==
    /\ Visiting("cleanup", t, s)
    /\ split[s].dirty
    /\ stack' = Visited(s)
    /\ trans' = IF StillHasSplit(t, s) THEN trans
                ELSE [trans EXCEPT ![t].splits = @ \ {s}]
    /\ IF split[s].parent = t
       THEN \E ok \in Answers : CommitSplit(s, ok)
       ELSE UNCHANGED <<split, account, splitRow>>
    /\ UNCHANGED <<transRow, calls, fault>>

\* trans_cleanup_commit, the end: the copy is freed, the edit is closed.
CleanupDone(t) ==
    /\ Under("cleanup") /\ Head(stack).t = t
    /\ \A s \in Head(stack).todo : ~split[s].dirty
    /\ trans' = [trans EXCEPT ![t].editlevel = @ - 1, ![t].orig = NoCopy]
    /\ stack' = Tail(stack)
    /\ UNCHANGED <<split, account, splitRow, transRow, calls, fault>>

\* xaccTransClearSplits for do_destroy, the second loop.
ClearSplit(t, s) ==
    /\ Visiting("clear", t, s)
    /\ stack' = Visited(s)
    /\ IF split[s].parent = t /\ split[s].dirty
       THEN \E ok \in Answers : CommitSplit(s, ok)
       ELSE UNCHANGED <<split, account, splitRow>>
    /\ UNCHANGED <<trans, transRow, calls, fault>>

\* ... and xaccFreeTransaction.
FreeTransaction(t) ==
    /\ LoopDone("clear", t)
    /\ trans' = [trans EXCEPT ![t] = FreedTrans]
    /\ stack' = Tail(stack)
    /\ UNCHANGED <<split, account, splitRow, transRow, calls, fault>>

\* Mutant of SetParentCall: the old transaction is committed but not opened.
SetParentUnopened(sp, s, t, rest) ==
    LET old == sp[s].parent IN
    IF old = t
    THEN split' = sp /\ stack' = rest /\ UNCHANGED <<trans, fault>>
    ELSE /\ split' = [sp EXCEPT ![s].parent = t]
         /\ trans' = Begun({t} \ {None})
         /\ stack' = <<Call("close", old, None, {}), Call("adopt", t, s, {})>> \o rest
         /\ UNCHANGED fault

\* xaccSplitSetParent(s, t) on splits sp: both transactions are opened, the
\* parent is set, the old one is committed, and the rest is left to Adopt.
SetParentCall(sp, s, t, rest) ==
    LET old == sp[s].parent
        both == {t, old} \ {None}
    IN  IF old = t
        THEN split' = sp /\ stack' = rest /\ UNCHANGED <<trans, fault>>
        ELSE /\ split' = [sp EXCEPT ![s].parent = t]
             /\ trans' = Begun(both)
             /\ stack' = <<Call("close", old, None, {}), Call("adopt", t, s, {})>> \o rest
             /\ fault' = IF \E x \in both : ~trans[x].live THEN "use after free"
                                                          ELSE fault

\* A client moves a split to another transaction; xaccSplitSetParent asks that
\* it moves only once between its commits, or back.
MoveSplit(s, t) ==
    /\ Idle /\ "move" \in Calls
    /\ split[s].live /\ ~split[s].do_free
    /\ trans[t].live
    /\ t # split[s].parent /\ split[s].parent # None
    /\ split[s].parent = split[s].orig_parent \/ split[s].orig_parent = t
    /\ calls < MaxCalls /\ calls' = calls + 1
    /\ SetParentCall(split, s, t, <<>>)
    /\ UNCHANGED <<account, splitRow, transRow>>

\* xaccTransCommitEdit, called by another call (of the null pointer: nothing).
Close ==
    /\ Under("close")
    /\ \/ /\ Head(stack).t = None
          /\ stack' = Tail(stack)
          /\ UNCHANGED <<split, trans, account, splitRow, transRow, calls>>
       \/ \E t \in Trans : Head(stack).t = t /\ CommitCall(t, Tail(stack))
    /\ UNCHANGED fault

\* Mutant of Adopt: the new transaction does not list the split.
AdoptUnlisted(s) ==
    /\ Under("adopt") /\ Head(stack).s = s
    /\ split' = [split EXCEPT ![s].dirty = TRUE]
    /\ stack' = IF Head(stack).t = None THEN Tail(stack)
                ELSE <<Call("close", Head(stack).t, None, {})>> \o Tail(stack)
    /\ account' = IF Head(stack).t = None THEN account ELSE Marked(split[s].acc)
    /\ UNCHANGED <<trans, splitRow, transRow, calls, fault>>

\* xaccSplitSetParent after the old transaction was committed: only now is the
\* split dirty and listed by its new transaction, which is committed in turn.
Adopt(s) ==
    /\ Under("adopt") /\ Head(stack).s = s
    /\ split' = [split EXCEPT ![s].dirty = TRUE]
    /\ \/ /\ Head(stack).t = None
          /\ stack' = Tail(stack)
          /\ UNCHANGED <<trans, account>>
       \/ \E t \in Trans :
             /\ Head(stack).t = t
             /\ trans' = [trans EXCEPT ![t].splits = @ \cup {s}]
             /\ account' = Marked(split[s].acc)
             /\ stack' = <<Call("close", t, None, {})>> \o Tail(stack)
    /\ UNCHANGED <<splitRow, transRow, calls, fault>>

-----------------------------------------------------------------------------
(* Rolling an edit back.                                                   *)

\* xaccTransRollbackEdit up to its loop; a nested edit is only unwound.
RollbackEdit(t) ==
    /\ Idle
    /\ trans[t].live /\ IsOpen(t)
    /\ IF trans[t].editlevel > 1
       THEN trans' = [trans EXCEPT ![t].editlevel = @ - 1] /\ UNCHANGED stack
       ELSE /\ trans' = [trans EXCEPT ![t].description = trans[t].orig.description]
            /\ stack' = <<Call("rollback", t, None, trans[t].splits)>>
    /\ UNCHANGED <<split, account, splitRow, transRow, calls, fault>>

\* xaccSplitRollbackEdit before its call of xaccSplitSetParent.
Reverted(s) ==
    [split EXCEPT ![s].acc = split[s].orig_acc,
                  ![s].do_free = @ /\ split[s].parent = None]

\* One split of the loop: a clean one is passed over, one added and moved on is
\* dropped from the list, any other is given back to the parent and account it
\* had; Restore or Discard is what remains to be done with it.
RollbackSplit(t, s) ==
    /\ Visiting("rollback", t, s)
    /\ LET preexists == s \in trans[t].orig.splits IN
       \/ /\ ~split[s].dirty
          /\ stack' = Visited(s)
          /\ UNCHANGED <<split, trans, fault>>
       \/ /\ split[s].dirty /\ ~preexists /\ split[s].parent # t
          /\ trans' = [trans EXCEPT ![t].splits = @ \ {s}]
          /\ stack' = Visited(s)
          /\ UNCHANGED <<split, fault>>
       \/ /\ split[s].dirty /\ (preexists \/ split[s].parent = t)
          /\ SetParentCall(Reverted(s), s, split[s].orig_parent,
                <<Call(IF preexists THEN "restore" ELSE "discard", t, s, {})>>
                \o Visited(s))
    /\ UNCHANGED <<account, splitRow, transRow, calls>>

\* Mutant of Restore: the amount of the copy is forgotten.
RestoreFlags(t, s) ==
    /\ Under("restore") /\ Head(stack).t = t /\ Head(stack).s = s
    /\ split' = [split EXCEPT ![s].reconciled = trans[t].orig.reconciled[s],
                              ![s].dirty = FALSE]
    /\ stack' = Tail(stack)
    /\ UNCHANGED <<trans, account, splitRow, transRow, calls, fault>>

\* A split the transaction had: its fields are copied back, it counts as clean.
Restore(t, s) ==
    /\ Under("restore") /\ Head(stack).t = t /\ Head(stack).s = s
    /\ split' = [split EXCEPT ![s].amount = trans[t].orig.amount[s],
                              ![s].reconciled = trans[t].orig.reconciled[s],
                              ![s].dirty = FALSE]
    /\ stack' = Tail(stack)
    /\ UNCHANGED <<trans, account, splitRow, transRow, calls, fault>>

\* Mutant of Discard: the transaction goes on listing the split it freed.
DiscardListed(t, s) ==
    /\ Under("discard") /\ Head(stack).t = t /\ Head(stack).s = s
    /\ split' = [split EXCEPT ![s] = IF @.parent = None THEN FreedSplit ELSE @]
    /\ fault' = IF split[s].parent = t THEN "assertion" ELSE fault
    /\ stack' = Tail(stack)
    /\ UNCHANGED <<trans, account, splitRow, transRow, calls>>

\* A split the edit added: it leaves the list and is freed (xaccFreeSplit),
\* after the assertion that it is no longer a split of this transaction.
Discard(t, s) ==
    /\ Under("discard") /\ Head(stack).t = t /\ Head(stack).s = s
    /\ trans' = [trans EXCEPT ![t].splits = @ \ {s}]
    /\ IF split[s].parent = None
       THEN /\ split' = [split EXCEPT ![s] = FreedSplit]
            /\ account' = [a \in Account |->
                  IF a = split[s].acc /\ s \in account[a].splits
                  THEN Recomputed(split, [account[a] EXCEPT !.splits = @ \ {s},
                                                            !.balance_dirty = TRUE])
                  ELSE account[a]]
       ELSE UNCHANGED <<split, account>>
    /\ fault' = IF split[s].parent = t THEN "assertion" ELSE fault
    /\ stack' = Tail(stack)
    /\ UNCHANGED <<splitRow, transRow, calls>>

\* The end of xaccTransRollbackEdit.
RollbackDone(t) ==
    /\ LoopDone("rollback", t)
    /\ trans' = [trans EXCEPT ![t].editlevel = @ - 1, ![t].orig = NoCopy,
                              ![t].do_free = FALSE]
    /\ stack' = Tail(stack)
    /\ UNCHANGED <<split, account, splitRow, transRow, calls, fault>>

\* A loop reads a split that was freed while the transaction listed it: what it
\* finds is undefined.  Either the memory still holds what xaccFreeSplit left
\* there, as in the actions above, or the program stops.
ReadFreed(t, s) ==
    /\ \E op \in {"cleanup", "clear", "rollback"} : Visiting(op, t, s)
    /\ ~split[s].live
    /\ fault' = "use after free"
    /\ UNCHANGED <<split, trans, account, splitRow, transRow, stack, calls>>

-----------------------------------------------------------------------------
\* The objects of the book qof_session_load left: committed, clean, summed up.
LoadedSplit(s) ==
    IF Loaded[s] = None THEN FreedSplit
    ELSE [live |-> TRUE, infant |-> FALSE, dirty |-> FALSE, do_free |-> FALSE,
          parent |-> Loaded[s].parent, orig_parent |-> Loaded[s].parent,
          acc |-> Loaded[s].acc, orig_acc |-> Loaded[s].acc,
          amount |-> Loaded[s].amount, reconciled |-> Loaded[s].reconciled]

LoadedInto(t) == {s \in Split : Loaded[s] # None /\ Loaded[s].parent = t}

LoadedAccount(a) ==
    LET r == [splits |-> {s \in Split : Loaded[s] # None /\ Loaded[s].acc = a},
              balance |-> [s \in Split |-> None], balance_dirty |-> TRUE]
    IN  Recomputed([s \in Split |-> LoadedSplit(s)], r)

Init ==
    /\ split = [s \in Split |-> LoadedSplit(s)]
    /\ trans = [t \in Trans |->
                  [FreedTrans EXCEPT !.live = LoadedInto(t) # {},
                                     !.splits = LoadedInto(t)]]
    /\ account = [a \in Account |-> LoadedAccount(a)]
    /\ splitRow = Loaded
    /\ transRow = [t \in Trans |->
                     IF LoadedInto(t) # {} THEN FreedTrans.description ELSE None]
    /\ stack = <<>>
    /\ calls = 0
    /\ fault = "none"

ClientCall ==
    \/ \E t \in Trans :
         \/ BeginEdit(t) \/ CommitEdit(t) \/ RollbackEdit(t)
         \/ MallocTrans(t) \/ TransDestroy(t)
         \/ \E d \in Description : SetDescription(t, d)
         \/ \E s \in Split, a \in Account, v \in Entered : MallocSplit(t, s, a, v)
    \/ \E s \in Split :
         \/ SplitDestroy(s)
         \/ \E v \in Entered : SetBaseValue(s, v)
         \/ \E r \in BOOLEAN : SetReconcile(s, r)
         \/ \E a \in Account : SetAccount(s, a)
         \/ \E t \in Trans : MoveSplit(s, t)
    \/ \E a \in Account : AccountCommitEdit(a)

\* The steps of a call in progress.
CallStep ==
    \/ Close
    \/ \E s \in Split : Adopt(s)
    \/ \E t \in Trans :
         \/ CleanupDone(t) \/ FreeTransaction(t) \/ RollbackDone(t)
         \/ \E s \in Split :
              \/ CleanupSplit(t, s) \/ ClearSplit(t, s)
              \/ RollbackSplit(t, s) \/ Restore(t, s) \/ Discard(t, s)
              \/ ReadFreed(t, s)

Next == ClientCall \/ CallStep

Spec == Init /\ [][Next]_vars

\* A call that was made runs on: nothing else runs in the meantime.
FairSpec == Spec /\ WF_vars(CallStep)

-----------------------------------------------------------------------------
FieldTypes ==
    /\ split \in [Split -> SplitRec]
    /\ trans \in [Trans -> TransRec]
    /\ account \in [Account -> AccountRec]
    /\ splitRow \in [Split -> Row \cup {None}]
    /\ transRow \in [Trans -> Description \cup {None}]
    /\ stack \in Seq(Frame)
    /\ calls \in Nat
    /\ fault \in {"none", "use after free", "assertion"}

\* qofinstance.cpp, qof_commit_edit ("unbalanced call - resetting"): every field
\* has its type, and no edit is closed more often than it was opened, however
\* rollbacks and moves open and close transactions that are open already.
TypeOK == FieldTypes /\ \A t \in Trans : trans[t].editlevel >= 0

\* Accounts, Split.cpp: a split is in the list of the account it was last
\* committed to and of no other, whatever is pending, rolled back or refused; a
\* refused deletion is the one way to lose a split that still has an account.
AccountLists ==
    \A s \in Split, a \in Account :
        /\ s \in account[a].splits => split[s].live /\ split[s].orig_acc = a
        /\ split[s].live /\ split[s].orig_acc = a => CanFail \/ s \in account[a].splits

\* A split that has an account but is in no account's list.
Missing(s) ==
    /\ split[s].live /\ split[s].orig_acc # None
    /\ s \notin account[split[s].orig_acc].splits

\* xaccSplitCommitEdit, Split.cpp: whatever commits are refused or rolled back, a
\* split drops out of the lists for one reason: the backend refused to delete it
\* after its account had let it go.
MissingByRefusal ==
    [][\A s \in Split : Missing(s)' =>
          \/ Missing(s)
          \/ /\ Under("cleanup") \/ Under("clear")
             /\ split[s].do_free /\ ~split'[s].do_free]_vars

\* Transaction.cpp, trans_cleanup_commit: between edits a transaction lists the
\* splits whose parent it is, and nothing it has lost to another or to a free.
SplitListExact ==
    Idle => \A t \in Trans : trans[t].live /\ ~IsOpen(t) =>
        /\ \A s \in trans[t].splits : split[s].live /\ split[s].parent = t
        /\ \A s \in Split : split[s].live /\ split[s].parent = t
                            => CanFail \/ s \in trans[t].splits

\* No split is orphaned: between calls the parent of a split lists it.
ParentListsSplit ==
    Idle => \A s \in Split, t \in Trans :
        split[s].live /\ split[s].parent = t => s \in trans[t].splits

\* No loop of the edit cycle reads a split that was freed while a transaction
\* listed it, and its assertions hold.
NoFault == fault = "none"

\* xaccTransRollbackEdit: g_assert(trans != xaccSplitGetParent(s)).
AssertionHolds == fault # "assertion"

\* qofinstance.cpp: a split that is not dirty is what the backend has stored,
\* and the backend has no row of a split that is gone.
CleanIsStored ==
    Idle => \A s \in Split :
        /\ split[s].live /\ ~split[s].dirty => splitRow[s] = RowOf(split[s])
        /\ splitRow[s] # None => split[s].live

\* The cached balance of account a is due to be added up again, or is right.
Fresh(a) ==
    \/ account[a].balance_dirty
    \/ account[a].balance = Contributions(split, account[a])

\* xaccAccountRecomputeBalance and mark_split: a right balance becomes a wrong
\* one that is taken as right only when a rollback restores a split, or while a
\* split of the account is about to be committed to another.
StaleOnlyByRestore ==
    [][\A a \in Account : Fresh(a) /\ ~Fresh(a)' =>
          \/ Under("restore")
          \/ \E s \in account[a].splits : split'[s].acc # a]_vars

\* What the rest of the program may rely on (module Ledger): until its edit is
\* stored a transaction still has the content it was opened with; from then on
\* it has what it owns, or nothing when it is being destroyed.
InCall(op, t) == \E i \in 1 .. Len(stack) : stack[i].op = op /\ stack[i].t = t

CommittedContent(t) ==
    LET o == trans[t].orig IN
    IF IsOpen(t) /\ ~InCall("cleanup", t) /\ ~InCall("clear", t)
    THEN [s \in o.splits |-> <<split[s].orig_acc, o.amount[s], o.reconciled[s]>>]
    ELSE [s \in IF InCall("clear", t) THEN {} ELSE Owned(t) |->
            <<split[s].acc, split[s].amount, split[s].reconciled>>]

LoadedContent(t) ==
    [s \in LoadedInto(t) |-> <<Loaded[s].acc, Loaded[s].amount, Loaded[s].reconciled>>]

L == INSTANCE Ledger WITH
        book <- [t \in Trans |-> CommittedContent(t)],
        Posted <- [t \in Trans |-> LoadedContent(t)]

\* Edits are atomic and isolated, rollbacks invisible, contents balanced.
Ledger == L!LedgerSpec

\* Every call returns, or stops the program: commits that roll back and
\* rollbacks that commit do not go on for ever.
CallsReturn == stack # <<>> ~> (stack = <<>> \/ fault # "none")

=============================================================================
